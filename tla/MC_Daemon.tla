------------------------------ MODULE MC_Daemon ------------------------------
(* The daemon on a small feed: one txid (so a second transaction message  *)
(* is a duplicate), a good and a bad transaction, a good block, and a     *)
(* block with one payload frame; two receptions; a fresh or an existing   *)
(* database file of the current version.                                   *)
EXTENDS Daemon

MCTxIds == {"t1"}
(* The two topics the subscriber subscribes to (topicRawTxWithFee and     *)
(* topicRawBlock), written out: a definition through the instance would   *)
(* make the constant Topics depend on itself.                              *)
TopicTx == "rawtxwithfee"
TopicBlock == "rawblock"
MCTopics == {TopicTx, TopicBlock}
MCStoredVersions == {5}
MCMessages ==
    { [topic |-> TopicTx,    nframes |-> 2, wellFormed |-> TRUE,  txid |-> "t1"],
      [topic |-> TopicTx,    nframes |-> 2, wellFormed |-> FALSE, txid |-> "t1"],
      [topic |-> TopicBlock, nframes |-> 2, wellFormed |-> TRUE,  txid |-> "t1"],
      [topic |-> TopicBlock, nframes |-> 1, wellFormed |-> TRUE,  txid |-> "t1"] }
=============================================================================
