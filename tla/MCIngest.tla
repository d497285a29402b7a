------------------------------- MODULE MCIngest -------------------------------
(* Instances of Ingest for TLC.                                            *)
EXTENDS Ingest

STM == "STM"
R(s, t, h) == [source |-> s, metric |-> STM, ts |-> t, high |-> h]
Good(tok, rs) == [token |-> tok, samples |-> rs]

MCMetric == {STM}
MCClient == {"collector", "forwarder"}
MCSource == {"unisoku", "lab"}
MCToken  == {"tu", "tl", "retired"}

(* The token of the forwarder is given twice, and its later source holds.  *)
MCTokens == <<[source |-> "unisoku", token |-> "tu"], [source |-> "unisoku", token |-> "tl"],
              [source |-> "lab", token |-> "tl"]>>

(* The collector sends a batch of two chunks, and again until it gets      *)
(* through, and one with a source that is not its own; the forwarder's     *)
(* batches name no source, and the last has a token no longer known.       *)
MCBacklog == [c \in MCClient |->
  IF c = "collector"
  THEN <<Good("tu", <<R("unisoku", 1, FALSE), R("unisoku", 2, TRUE), R(NoSource, 4, FALSE)>>),
         Good("tu", <<R("lab", 5, TRUE)>>)>>
  ELSE <<Good("tl", <<R(NoSource, 3, TRUE)>>), Good("retired", <<R(NoSource, 6, TRUE)>>)>>]
MCRetries == [c \in MCClient |-> c = "collector"]

(* The LS350 logger posts fresh points of a channel that the forwarder     *)
(* posts again and again.                                                  *)
StaleClient == {"ls350", "forwarder"}
StaleSource == StaleClient
StaleTokens == <<[source |-> "ls350", token |-> "ts"], [source |-> "forwarder", token |-> "tf"]>>
StaleBacklog == [c \in StaleClient |->
  IF c = "ls350" THEN <<Good("ts", <<R(c, 2, FALSE)>>), Good("ts", <<R(c, 3, FALSE)>>)>>
  ELSE <<Good("tf", <<R(c, 1, TRUE)>>), Good("tf", <<R(c, 1, TRUE)>>)>>]
StaleRetries == [c \in StaleClient |-> FALSE]
=============================================================================
