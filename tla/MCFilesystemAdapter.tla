------------------------ MODULE MCFilesystemAdapter ------------------------
(* Two transactions: of two intents that write different files, or of one   *)
(* intent.                                                                  *)
EXTENDS FilesystemAdapter, TLC

CONSTANTS t1, t2, h1, h2, fileA, fileB, old, new, other

TwoPaths == <<fileA, fileB>>
OneFile == (fileA :> old) @@ (fileB :> Absent)
TwoIntents == (t1 :> h1) @@ (t2 :> h2)
OneIntent == (t1 :> h1) @@ (t2 :> h1)
WriteOne == h1 :> (fileB :> new)
WriteOneEach == (h1 :> (fileA :> new)) @@ (h2 :> (fileB :> new))
=============================================================================
