--------------------------- MODULE MCServiceLoop ---------------------------
(* Instances of ServiceLoop for TLC.                                       *)
EXTENDS ServiceLoop

ArmedWithCap == {Valid([action |-> "kill", capKills |-> TRUE])}

AnyFile == {file \in Files : file.is # "undecodable"}
=============================================================================
