---------------------------- MODULE MCFolderJobs ----------------------------
(* Instances of FolderJobs for TLC: two folders that share a content.       *)
EXTENDS FolderJobs, TLC

CONSTANTS j1, j2, d1, k1, A, B, f1, f2, f3, x, y

\* Folder A holds the contents x and y, folder B the content x.
TwoFolders == A :> {f1, f2} @@ B :> {f3}
\* Folder A holds the content x twice, folder B once.
SameContents == f1 :> x @@ f2 :> x @@ f3 :> x
OtherContents == f1 :> x @@ f2 :> y @@ f3 :> x
\* Folder B holds the content of folder A twice.
TwiceInB == A :> {f1} @@ B :> {f2, f3}
OneFileEach == A :> {f1} @@ B :> {f3}

FullFull == j1 :> A @@ j2 :> B
DryAndFull == d1 :> A @@ j2 :> B
FullOnly == j1 :> A
DryOnly == d1 :> A
=============================================================================
