---------------------------- MODULE MCWorkspace ----------------------------
(* Two projects for Workspace: one with a schema and a library, which it    *)
(* and the library itself import, and one without the library.              *)
EXTENDS Workspace

CONSTANTS main, lib, bin,            \* paths
          local0, repo,              \* projects
          importing, broken,         \* texts
          data1, data2               \* contents

KsyPaths == {main, lib}
Texts == {importing, broken}
ImportsOf == [t \in Texts |-> IF t = importing THEN <<lib>> ELSE <<>>]
FilesOf == [v \in {local0, repo} |->
              [p \in KsyPaths |-> IF v = repo /\ p = lib THEN Missing ELSE importing]]
Binaries == [v \in {local0, repo} |-> [p \in {bin} |-> IF v = repo THEN data2 ELSE data1]]
LocalProject == [vfs |-> local0, currentKsyPath |-> main, currentBinaryPath |-> Null]
OtherProjects == {[vfs |-> repo, currentKsyPath |-> Null, currentBinaryPath |-> Null]}
=============================================================================
