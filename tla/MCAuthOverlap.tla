--------------------------- MODULE MCAuthOverlap ---------------------------
(***************************************************************************)
(* A path of two domains for TLC.  The first one denies, or asks a group,  *)
(* as a filter decides; the second one asks the requester.                 *)
(***************************************************************************)
EXTENDS AuthOverlap, TLC

MCNodes == {"filter1", "noc", "accept1", "deny1", "req", "accept2", "deny2"}

MCKind == [n \in MCNodes |->
    CASE n = "filter1" -> "filter"
      [] n = "noc" -> "group"
      [] n = "req" -> "user"
      [] n \in {"accept1", "accept2"} -> "accept"
      [] OTHER -> "deny"]

MCYes == [n \in MCNodes |->
    CASE n = "filter1" -> "noc"
      [] n = "noc" -> "accept1"
      [] n = "req" -> "accept2"
      [] OTHER -> n]

MCNo == [n \in MCNodes |->
    CASE n \in {"filter1", "noc"} -> "deny1"
      [] n = "req" -> "deny2"
      [] OTHER -> n]

MCManager == [n \in MCNodes |-> n]
MCStart == <<"filter1", "req">>
MCPolicy == <<"REJECT_ALL", "ACCEPT_ALL">>

Symmetry == Permutations(Workers) \union Permutations(Ids)
=============================================================================
