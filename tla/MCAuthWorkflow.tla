--------------------------- MODULE MCAuthWorkflow ---------------------------
(***************************************************************************)
(* A path of three domains for TLC.  The first one asks a user, a group    *)
(* and another user, or the last two of them, as a filter decides; the     *)
(* second one asks a user; the third one asks the requester, who is not    *)
(* asked, and tests the circuit.                                           *)
(*                                                                         *)
(* Two more sets of edges change one workflow each: in one, somebody else  *)
(* is asked behind the requester; in the other, a user is asked twice.     *)
(***************************************************************************)
EXTENDS AuthWorkflow

MCNodes == {"filter1", "ana", "noc", "rui", "accept1", "deny1",
            "eva", "eva_again", "accept2", "deny2",
            "req", "boss", "filter3", "accept3", "deny3"}

MCKind == [n \in MCNodes |->
    CASE n \in {"filter1", "filter3"} -> "filter"
      [] n \in {"ana", "rui", "eva", "eva_again", "req", "boss"} -> "user"
      [] n = "noc" -> "group"
      [] n \in {"accept1", "accept2", "accept3"} -> "accept"
      [] OTHER -> "deny"]

MCYes == [n \in MCNodes |->
    CASE n = "filter1" -> "ana"
      [] n = "ana" -> "noc"
      [] n = "noc" -> "rui"
      [] n = "rui" -> "accept1"
      [] n \in {"eva", "eva_again"} -> "accept2"
      [] n = "req" -> "filter3"
      [] n \in {"boss", "filter3"} -> "accept3"
      [] OTHER -> n]

MCYesRequesterFirst == [MCYes EXCEPT !["req"] = "boss"]
MCYesAskedTwice == [MCYes EXCEPT !["eva"] = "eva_again"]

MCNo == [n \in MCNodes |->
    CASE n = "filter1" -> "noc"
      [] n \in {"ana", "noc", "rui"} -> "deny1"
      [] n \in {"eva", "eva_again"} -> "deny2"
      [] n \in {"req", "boss", "filter3"} -> "deny3"
      [] OTHER -> n]

MCManager == [n \in MCNodes |-> IF n = "eva_again" THEN "eva" ELSE n]

MCStart == <<"filter1", "eva", "req">>
MCPolicy == <<"REJECT_ALL", "ACCEPT_ALL", "REJECT_ALL">>
=============================================================================
