------------------------------ MODULE MCPeers ------------------------------
(* The two protocols between two people's accounts: relationships, and the   *)
(* vetting of an applicant.  They share no state in the models; a behaviour  *)
(* moves one of them, so that one run checks both without their product.     *)
EXTENDS Relationships, Vetting, TLC

CONSTANTS Machines      \* a subset of {"relationships", "vetting"}

VARIABLES machine,
          limit         \* of a behaviour of Vetting

peerVars == <<machine, limit, vars, vettingVars>>

Budget(req, vrc, ping, rm, drop, fault, restart, dup) ==
    [requests |-> req, vrcs |-> vrc, pings |-> ping, removes |-> rm,
     dismissals |-> drop, faults |-> fault, restarts |-> restart, dups |-> dup]

(* Handshakes: two requests crossing, repeated, removed, dismissed; a send, *)
(* a check or a delivery that fails; a restart, and what comes again after. *)
Handshakes == {Budget(2, 0, 0, 1, 1, 0, 0, 0), Budget(1, 0, 0, 0, 1, 1, 1, 1),
               Budget(2, 0, 0, 0, 0, 1, 0, 0)}
(* What an established relationship carries. *)
Carried == {Budget(1, 1, 1, 1, 0, 0, 0, 0), Budget(1, 1, 0, 0, 1, 1, 0, 0),
            Budget(1, 1, 0, 0, 0, 0, 1, 0)}
Idling == Budget(0, 0, 0, 0, 0, 0, 0, 0)
Everything == Handshakes \cup Carried \cup {Idling}

(* Two requests of one application that compete for the desk, or one request *)
(* after another of two applications.                                        *)
Limits == {[requests |-> 2, applications |-> 1], [requests |-> 1, applications |-> 2]}

Sym == Permutations(Parties) \cup Permutations(Faces)

PeersInit ==
    /\ machine \in Machines
    /\ Init /\ (machine = "relationships" <=> left # Idling)
    /\ VettingInit
    /\ limit \in Limits /\ (machine # "vetting" => limit.requests = 1)

VettingWithinLimit ==
    /\ VettingNext
    /\ started' <= limit.applications
    /\ application' = 0 => started' < limit.applications
    /\ \A d \in Docs : requests'[d].state # "none" => d <= limit.requests

PeersNext ==
    /\ machine' = machine /\ limit' = limit
    /\ \/ machine = "relationships" /\ Next /\ UNCHANGED vettingVars
       \/ machine = "vetting" /\ VettingWithinLimit /\ UNCHANGED vars

PeersSpec == PeersInit /\ [][PeersNext]_peerVars
=============================================================================
