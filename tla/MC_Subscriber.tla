--------------------------- MODULE MC_Subscriber ---------------------------
(* A small instance of the subscriber: one transaction id, every kind of   *)
(* message processMessage tells apart, and three receptions.               *)
EXTENDS Subscriber

MCTxIds == {"t1"}
MCTopics == {TopicRawTxWithFee, TopicRawBlock, "hashtx"}

(* A well-formed transaction and block, each with a body that fails to     *)
(* decode, each with one payload frame, and a message on an unknown topic. *)
MCMessages ==
    { [topic |-> TopicRawTxWithFee, nframes |-> 2, wellFormed |-> TRUE,  txid |-> "t1"],
      [topic |-> TopicRawTxWithFee, nframes |-> 2, wellFormed |-> FALSE, txid |-> "t1"],
      [topic |-> TopicRawTxWithFee, nframes |-> 1, wellFormed |-> TRUE,  txid |-> "t1"],
      [topic |-> TopicRawBlock,     nframes |-> 2, wellFormed |-> TRUE,  txid |-> "t1"],
      [topic |-> TopicRawBlock,     nframes |-> 2, wellFormed |-> FALSE, txid |-> "t1"],
      [topic |-> TopicRawBlock,     nframes |-> 1, wellFormed |-> TRUE,  txid |-> "t1"],
      [topic |-> "hashtx",          nframes |-> 2, wellFormed |-> TRUE,  txid |-> "t1"] }
=============================================================================
