----------------------- MODULE DomainLifecycleAbstract -----------------------
(***************************************************************************)
(* What the domain lifecycle manager promises, without threads, store or  *)
(* restarts in steps: domains run, stop (shut down or crash), are killed  *)
(* and reclaimed; a running domain is killed only after someone asked it  *)
(* to shut down; a new domain appears only as the replacement of a domain *)
(* that is no longer running, and each domain is replaced at most once.   *)
(***************************************************************************)
CONSTANTS Doms, NoVal

VARIABLES
  life,    \* per domain: "none", "running", "stopped", "dying"
  asked,   \* per domain: a shutdown request is outstanding
  parent   \* per domain: the domain it replaces, or NoVal

vars == <<life, asked, parent>>

Lives == {"none", "running", "stopped", "dying"}

Init ==
  /\ \E d \in Doms :
       life = [e \in Doms |-> IF e = d THEN "running" ELSE "none"]
  /\ asked = [d \in Doms |-> FALSE]
  /\ parent = [d \in Doms |-> NoVal]

(* A shutdown is requested, or the request is withdrawn. *)
Ask(d) ==
  /\ life[d] # "none"
  /\ asked' = [asked EXCEPT ![d] = TRUE]
  /\ UNCHANGED <<life, parent>>

Withdraw(d) ==
  /\ asked' = [asked EXCEPT ![d] = FALSE]
  /\ UNCHANGED <<life, parent>>

(* The guest shuts down or crashes. *)
Stop(d) ==
  /\ life[d] = "running"
  /\ life' = [life EXCEPT ![d] = "stopped"]
  /\ UNCHANGED <<asked, parent>>

(* The domain is destroyed: it has stopped, or it was asked to. *)
Kill(d) ==
  /\ \/ life[d] = "stopped"
     \/ life[d] = "running" /\ asked[d]
  /\ life' = [life EXCEPT ![d] = "dying"]
  /\ asked' = [asked EXCEPT ![d] = FALSE]
  /\ UNCHANGED parent

Reclaim(d) ==
  /\ life[d] = "dying"
  /\ life' = [life EXCEPT ![d] = "none"]
  /\ UNCHANGED <<asked, parent>>

(* e is started as the one replacement of d. *)
Replace(d, e) ==
  /\ life[d] # "running"
  /\ \A f \in Doms : parent[f] # d
  /\ life[e] = "none" /\ parent[e] = NoVal /\ e # d
  /\ life' = [life EXCEPT ![e] = "running"]
  /\ asked' = [asked EXCEPT ![e] = FALSE]
  /\ parent' = [parent EXCEPT ![e] = d]

Next ==
  \E d \in Doms :
    \/ Ask(d) \/ Withdraw(d) \/ Stop(d) \/ Kill(d) \/ Reclaim(d)
    \/ \E e \in Doms : Replace(d, e)

Spec == Init /\ [][Next]_vars

TypeOK ==
  /\ life \in [Doms -> Lives]
  /\ asked \in [Doms -> BOOLEAN]
  /\ parent \in [Doms -> Doms \cup {NoVal}]

=============================================================================
