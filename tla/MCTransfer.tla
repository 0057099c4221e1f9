------------------------------ MODULE MCTransfer ------------------------------
(***************************************************************************)
(* Small instances of Transfer for TLC.                                    *)
(***************************************************************************)
EXTENDS Transfer, TLC

CONSTANTS t1, t2,  \* transfer ids
          a, b     \* chunk contents

OneTransfer == {t1}
TwoTransfers == {t1, t2}
Blocks == {a, b}

TwoChunkFile == (t1 :> <<a, b>>)
TwoChunksAndEmpty == (t1 :> <<a, b>>) @@ (t2 :> <<>>)

BothCancel == Peers \X Transfers
CancelEach == {<<Sender, t1>>, <<Receiver, t2>>}
ReceiverCancels == {Receiver} \X Transfers
NoCancel == {}
BothClose == Peers
NobodyCloses == {}
===============================================================================
