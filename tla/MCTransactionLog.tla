-------------------------- MODULE MCTransactionLog --------------------------
(* Instantiation of TransactionLog for TLC.  The cfgs choose which Txn    *)
(* records callers log: TxnDelBlob (2: u32 u32 string) and TxnCreateTag   *)
(* (4: string u32 u32), or TxnExtendBlob (1: u32 u32 string blocks).      *)
(* Names are empty or one byte long and field values are 0, so the bytes  *)
(* of one record read as the size or string length of another make the    *)
(* large values a misaligned parser meets.                                *)
EXTENDS TransactionLog

MCNames == {<<>>, <<1>>}

=============================================================================
