----------------------------- MODULE MCProjects -----------------------------
(* One repository under one scan directory, which one user removes while     *)
(* another lists the projects.                                               *)
EXTENDS Projects

MCRoot == <<"src">>
MCRepo == <<"src", "repo">>
MCDirs == {MCRoot, MCRepo}
MCRepos == {MCRepo}
MCConfigured == {MCRoot}
=============================================================================
