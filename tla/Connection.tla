----------------------------- MODULE Connection -----------------------------
(* Whom an hqssh command connects to, and with what: connectDaemon of        *)
(* internal/cli/cmd, Resolve of internal/cli/config, and buildSSHConfig of   *)
(* internal/cli/client.                                                      *)
(*                                                                           *)
(* A setting is modelled by where its value comes from: a host's entry in    *)
(* config.yaml, the environment, a flag, or the default; "none" is no value. *)
(* Settings do not depend on each other, only on the host: one setting is    *)
(* followed at a time.                                                       *)
CONSTANTS
  Entries,   \* the names of the hosts in config.yaml
  Machines   \* other host names and addresses

None == "none"
Hosts == Entries \cup Machines
Settings == {"user", "port", "key", "password", "daemon_port", "auth_token"}
ByEnvironment == Settings \ {"password"}
ByFlag == Settings \ {"auth_token"}

VARIABLES
  pc,         \* connectDaemon: "start", "auth", "hostkey", "connected" or "failed"
  setting,    \* the setting that is followed
  own,        \* the hosts of config.yaml that have it
  addressOf,  \* the host of each entry, None if it has no other than its name
  default,    \* default_host
  env,        \* what the environment gives: [host, set]
  flags,      \* what the flags give: [host, set]
  target,     \* what the connection goes to: a host, "local" or None
  methods,    \* the authentication that is offered: "key", "password"
  verified    \* the host key is checked

inputs == <<setting, own, addressOf, default, env, flags>>
vars == <<pc, inputs, target, methods, verified>>

Init ==
  /\ pc = "start"
  /\ setting \in Settings
  /\ own \in SUBSET Entries
  /\ addressOf \in [Entries -> Machines \cup {None}]
  /\ default \in Hosts \cup {None}
  /\ env \in [host : Hosts \cup {None}, set : BOOLEAN]
  /\ env.set => setting \in ByEnvironment
  /\ flags \in [host : Hosts \cup {None}, set : BOOLEAN]
  /\ flags.set => setting \in ByFlag
  /\ target = None /\ methods = {} /\ verified = FALSE

-----------------------------------------------------------------------------
(* Resolve: flag over named entry over environment over default host over default *)

Address(h) == IF h \in Entries /\ addressOf[h] # None THEN addressOf[h] ELSE h

\* $USER, 22, 50051; there is no other key, password or token.
Fallback == IF setting \in {"user", "port", "daemon_port"} THEN "default" ELSE None

OwnOr(h, otherwise) == IF h \in own THEN h ELSE otherwise
EnvOr(otherwise) == IF env.set THEN "env" ELSE otherwise

\* config.yaml: its default host.
ConfigHost == IF default = None THEN None ELSE Address(default)
ConfigValue == OwnOr(default, Fallback)

Secret == setting \in {"auth_token", "password"}

\* The environment names a machine, never an entry. What is secret of the default
\* host is not for another.
EnvHost == IF env.host = None THEN ConfigHost ELSE env.host
EnvValue ==
  EnvOr(IF Secret /\ EnvHost # ConfigHost THEN None ELSE ConfigValue)

\* Mutation: an entry without a secret of its own keeps what was found so far.
EntryInheritsValue(h) == OwnOr(h, EnvValue)

\* --host names an entry. Neither a secret nor the daemon's port is inherited.
EntryValue(h) ==
  OwnOr(h, CASE setting \in {"auth_token", "daemon_port"} -> EnvOr(Fallback)
             [] setting = "password" -> None
             [] OTHER -> EnvValue)

\* --host names a machine, which is not the default host either.
MachineValue ==
  CASE setting \in {"auth_token", "daemon_port"} -> EnvOr(Fallback)
    [] setting = "password" -> None
    [] OTHER -> EnvValue

ResolvedHost == IF flags.host = None THEN EnvHost ELSE Address(flags.host)
Resolved ==
  IF flags.set THEN "flag"
  ELSE CASE flags.host = None      -> EnvValue
         [] flags.host \in Entries -> EntryValue(flags.host)
         [] OTHER                  -> MachineValue

-----------------------------------------------------------------------------
(* connectDaemon *)

\* --socket, or no host from anywhere: the daemon of this machine, if its socket
\* answers the probe. It is sent the token of daemon.yaml.
ConnectLocal(socket) ==
  /\ pc = "start" /\ (socket \/ ResolvedHost = None)
  /\ \/ pc' = "connected" /\ target' = "local"
     \/ pc' = "failed" /\ UNCHANGED target
  /\ UNCHANGED <<inputs, methods, verified>>

ConnectRemote ==
  /\ pc = "start" /\ ResolvedHost # None
  /\ pc' = "auth" /\ target' = ResolvedHost
  /\ UNCHANGED <<inputs, methods, verified>>

HasPassword == setting = "password" /\ Resolved # None
ExplicitKey == setting = "key" /\ Resolved # None

\* buildSSHConfig: a key that was asked for must load; of the usual keys the first
\* that loads is taken, and it is no error if none does.
Authenticate ==
  /\ pc = "auth"
  /\ \E loads \in BOOLEAN :
       LET offered == (IF loads THEN {"key"} ELSE {})
                      \cup (IF HasPassword THEN {"password"} ELSE {})
       IN IF offered = {} \/ (ExplicitKey /\ ~loads)
          THEN pc' = "failed" /\ UNCHANGED methods
          ELSE pc' = "hostkey" /\ methods' = offered
  /\ UNCHANGED <<inputs, target, verified>>

\* The host key: not of a loopback address, which is a forwarded port of another
\* machine. Without known_hosts there is no connection.
CheckHostKey(insecure, loopback) ==
  /\ pc = "hostkey"
  /\ IF insecure \/ loopback
     THEN pc' = "connected" /\ UNCHANGED verified
     ELSE \/ pc' = "connected" /\ verified' = TRUE
          \/ pc' = "failed" /\ UNCHANGED verified
  /\ UNCHANGED <<inputs, target, methods>>

-----------------------------------------------------------------------------
Next ==
  \/ \E socket \in BOOLEAN : ConnectLocal(socket)
  \/ ConnectRemote \/ Authenticate
  \/ \E insecure, loopback \in BOOLEAN : CheckHostKey(insecure, loopback)

Spec == Init /\ [][Next]_vars

-----------------------------------------------------------------------------
TypeOK ==
  /\ pc \in {"start", "auth", "hostkey", "connected", "failed"}
  /\ setting \in Settings /\ own \subseteq Entries
  /\ target \in Hosts \cup {None, "local"}
  /\ methods \subseteq {"key", "password"} /\ verified \in BOOLEAN

\* A token or password of config.yaml goes to the machine it is written for and no
\* other, whichever way that machine was named (cli/config/config.go:109-225).
SecretsStayHome ==
  Secret /\ target \in Hosts /\ Resolved \in Entries => Address(Resolved) = target

\* The port of a daemon is its own host's once --host says which, or nobody's
\* (cli/config/config.go:200-224).
PortIsTheHosts ==
  setting = "daemon_port" /\ flags.host # None /\ Resolved \in Entries
    => Address(Resolved) = ResolvedHost

\* A flag is always used; what the environment gives yields to a flag, and to an entry
\* that is named with --host and has the setting, but never to the default host's entry
\* (cli/config/config.go:139-240).
NearerWins ==
  /\ flags.set => Resolved = "flag"
  /\ env.set => Resolved \in {"flag", "env"} \cup (own \cap {flags.host})

SettingsReachTheirHost == SecretsStayHome /\ PortIsTheHosts /\ NearerWins

\* "CLI flag > environment variable > config file > default" (cli/config/config.go:100),
\* "Environment variables also work (override config file)" (cli/cmd/root.go:75). An entry
\* that --host names breaks it: its values come before the environment's
\* (config.go:180-208, and config_test.go:63-66 wants it so of the daemon's port).
EnvironmentWins == target \in Hosts /\ env.set => Resolved \in {"flag", "env"}
=============================================================================
