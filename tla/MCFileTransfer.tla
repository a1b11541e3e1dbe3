--------------------------- MODULE MCFileTransfer ---------------------------
(* Instances of FileTransfer for TLC.                                      *)
EXTENDS FileTransfer

NoMimic == [at |-> 0, as |-> "none"]
MCPlain == {NoMimic}
MCMimics ==
    {NoMimic, [at |-> 3, as |-> "FIN"], [at |-> 0, as |-> "FIN"],
     [at |-> 11, as |-> "SEND_KEY"], [at |-> 11, as |-> "FIN"]}

MCSizes == {0, 1, 2, 5, 17, 18, 22}
MCHostileSizes == {0, 1, 6, 22, 27}
=============================================================================
