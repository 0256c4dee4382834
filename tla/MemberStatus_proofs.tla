------------------------ MODULE MemberStatus_proofs ------------------------
(***************************************************************************)
(* What MemberStatus promises for any set of nodes and any number of       *)
(* changes and failures: each report is of one piece.                      *)
(***************************************************************************)
EXTENDS MemberStatus, TLAPS

---------------------------------------------------------------------------
(* Reports                                                                 *)

LEMMA EmptyReport == ReportOK(NoReport)
<1>1. DOMAIN <<>> = {}
    OBVIOUS
<1> QED BY <1>1 DEF ReportOK, NoReport

\* Which components a set of conditions makes bad.
LEMMA BadComponents ==
    ASSUME NEW c \in [Parts -> BOOLEAN], NEW done \in SUBSET Tags, NEW U \in SUBSET Tags
    PROVE  U \ {"resourceUsage"} =
               {ComponentOf(p) : p \in {q \in Parts : ~c[q] /\ ComponentOf(q) \in done}}
           <=> /\ "memberOperator" \in U <=>
                     "memberOperator" \in done /\ ~(c["deployment"] /\ c["version"])
               /\ "hostConnection" \in U <=> "hostConnection" \in done /\ ~c["host"]
               /\ "routes" \in U <=> "routes" \in done /\ ~c["route"]
<1>1. /\ ComponentOf("deployment") = "memberOperator" /\ ComponentOf("version") = "memberOperator"
      /\ ComponentOf("host") = "hostConnection" /\ ComponentOf("route") = "routes"
    BY DEF ComponentOf
<1> DEFINE Bad == {ComponentOf(p) : p \in {q \in Parts : ~c[q] /\ ComponentOf(q) \in done}}
<1>2. /\ \A t \in Bad : t \in {"memberOperator", "hostConnection", "routes"}
      /\ "memberOperator" \in Bad <=> "memberOperator" \in done /\ ~(c["deployment"] /\ c["version"])
      /\ "hostConnection" \in Bad <=> "hostConnection" \in done /\ ~c["host"]
      /\ "routes" \in Bad <=> "routes" \in done /\ ~c["route"]
    BY <1>1 DEF Parts
<1>3. \A t \in U \ {"resourceUsage"} : t \in {"memberOperator", "hostConnection", "routes"}
    BY DEF Tags
<1> HIDE DEF Bad
<1>4. U \ {"resourceUsage"} = Bad <=>
          \A t \in {"memberOperator", "hostConnection", "routes"} : t \in U <=> t \in Bad
    BY <1>2, <1>3
<1> QED BY <1>2, <1>4 DEF Bad

\* The components that are called not ready, one by one, in a report...
LEMMA CoherentParts ==
    ASSUME NEW r, ReportOK(r)
    PROVE  r.unready \ {"resourceUsage"} = {ComponentOf(p) : p \in {q \in Parts : ~r.cond[q]}}
           <=> /\ "memberOperator" \in r.unready <=> ~(r.cond["deployment"] /\ r.cond["version"])
               /\ "hostConnection" \in r.unready <=> ~r.cond["host"]
               /\ "routes" \in r.unready <=> ~r.cond["route"]
<1>1. \A q \in Parts : ComponentOf(q) \in Tags
    BY DEF ComponentOf, Tags, Parts
<1>2. {q \in Parts : ~r.cond[q]} = {q \in Parts : ~r.cond[q] /\ ComponentOf(q) \in Tags}
    BY <1>1
<1>3. r.cond \in [Parts -> BOOLEAN] /\ r.unready \in SUBSET Tags
    BY DEF ReportOK
<1>4. {ComponentOf(p) : p \in {q \in Parts : ~r.cond[q]}} =
          {ComponentOf(p) : p \in {q \in Parts : ~r.cond[q] /\ ComponentOf(q) \in Tags}}
    BY <1>2
<1>5. r.unready \ {"resourceUsage"} =
          {ComponentOf(p) : p \in {q \in Parts : ~r.cond[q] /\ ComponentOf(q) \in Tags}}
      <=> /\ "memberOperator" \in r.unready <=>
                "memberOperator" \in Tags /\ ~(r.cond["deployment"] /\ r.cond["version"])
          /\ "hostConnection" \in r.unready <=> "hostConnection" \in Tags /\ ~r.cond["host"]
          /\ "routes" \in r.unready <=> "routes" \in Tags /\ ~r.cond["route"]
    BY <1>3, BadComponents
<1> QED BY <1>4, <1>5 DEF Tags

\* ... and in the copy a Reconcile works on.
LEMMA HandledParts ==
    ASSUME TypeOK
    PROVE  unready \ {"resourceUsage"} =
               {ComponentOf(p) : p \in {q \in Parts : ~copy.cond[q] /\ ComponentOf(q) \in HandlersDone}}
           <=> /\ "memberOperator" \in unready <=> /\ "memberOperator" \in HandlersDone
                                                   /\ ~(copy.cond["deployment"] /\ copy.cond["version"])
               /\ "hostConnection" \in unready <=> "hostConnection" \in HandlersDone /\ ~copy.cond["host"]
               /\ "routes" \in unready <=> "routes" \in HandlersDone /\ ~copy.cond["route"]
<1>1. copy.cond \in [Parts -> BOOLEAN] /\ unready \in SUBSET Tags /\ HandlersDone \in SUBSET Tags
    BY DEF TypeOK, ReportOK, HandlersDone, Tags
<1> QED BY <1>1, BadComponents

\* What HandlersOK says of the list of components, at each place.
ListOK ==
    /\ pc \in {"memberOperator"} => "memberOperator" \notin unready
    /\ pc \in {"hostConnection", "nodes", "metrics", "routes", "update"} =>
          ("memberOperator" \in unready <=> ~(copy.cond["deployment"] /\ copy.cond["version"]))
    /\ pc \in {"memberOperator", "hostConnection"} => "hostConnection" \notin unready
    /\ pc \in {"nodes", "metrics", "routes", "update"} =>
          ("hostConnection" \in unready <=> ~copy.cond["host"])
    /\ pc \in {"memberOperator", "hostConnection", "nodes", "metrics", "routes"} => "routes" \notin unready
    /\ pc = "update" => ("routes" \in unready <=> ~copy.cond["route"])

UsageOK ==
    /\ pc \in {"memberOperator", "hostConnection", "nodes", "metrics"} => "resourceUsage" \notin unready
    /\ pc = "metrics" => copy.usage = <<>>
    /\ pc \in {"routes", "update"} /\ "resourceUsage" \in unready => copy.usage = <<>>
    /\ pc = "update" /\ copy.cond["route"] => copy.url

LEMMA HandlersParts == TypeOK => (HandlersOK <=> ListOK /\ UsageOK)
<1> SUFFICES ASSUME TypeOK PROVE HandlersOK <=> ListOK /\ UsageOK
    OBVIOUS
<1>1. (pc \notin {"idle", "get"} =>
          unready \ {"resourceUsage"} =
              {ComponentOf(p) : p \in {q \in Parts : ~copy.cond[q] /\ ComponentOf(q) \in HandlersDone}})
      <=> ListOK
  <2>1. CASE pc \in {"idle", "get"}
    BY <2>1 DEF ListOK
  <2>2. CASE pc = "memberOperator"
    BY <2>2, HandledParts DEF ListOK, HandlersDone
  <2>3. CASE pc = "hostConnection"
    BY <2>3, HandledParts DEF ListOK, HandlersDone
  <2>4. CASE pc \in {"nodes", "metrics", "routes"}
    BY <2>4, HandledParts DEF ListOK, HandlersDone
  <2>5. CASE pc = "update"
    BY <2>5, HandledParts DEF ListOK, HandlersDone
  <2> QED BY <2>1, <2>2, <2>3, <2>4, <2>5 DEF TypeOK
<1> QED BY <1>1 DEF HandlersOK, UsageOK

---------------------------------------------------------------------------
(* The inductive invariant                                                 *)

LEMMA InitInv == Init => IndInv
<1> SUFFICES ASSUME Init PROVE IndInv
    OBVIOUS
<1>1. TypeOK
    BY EmptyReport DEF Init, TypeOK, NodeStates
<1>2. HandlersOK /\ ReportIsCoherent
    BY DEF Init, HandlersOK, ReportIsCoherent
<1> QED BY <1>1, <1>2 DEF IndInv

\* A handler changes the copy, perhaps adds its own component, and goes on: what
\* is to be shown of it.
LEMMA HandledInv ==
    ASSUME IndInv, ReportOK(copy'), unready' \in SUBSET Tags, allocatable' \in SUBSET Node,
           pc' \in {"hostConnection", "nodes", "metrics", "routes", "update"},
           faults' \in Nat, UNCHANGED <<system, stored, queue, current, changes>>,
           (ListOK /\ UsageOK)'
    PROVE  IndInv'
<1>1. TypeOK'
    BY DEF IndInv, TypeOK, system, stored, queue
<1>2. HandlersOK'
  <2>1. (TypeOK => (HandlersOK <=> ListOK /\ UsageOK))'
    BY HandlersParts, PTL
  <2> QED BY <1>1, <2>1
<1>3. ReportIsCoherent'
    BY DEF IndInv, ReportIsCoherent, stored
<1> QED BY <1>1, <1>2, <1>3 DEF IndInv

LEMMA memberOperatorInv == IndInv /\ memberOperatorHandleStatus => IndInv'
<1> SUFFICES ASSUME IndInv, memberOperatorHandleStatus PROVE IndInv'
    OBVIOUS
<1>0. TypeOK /\ ListOK /\ UsageOK
    BY HandlersParts DEF IndInv
<1>1. /\ ReportOK(copy')
      /\ copy'.cond["deployment"] = health["deployment"] /\ copy'.cond["version"] = health["version"]
    BY <1>0 DEF memberOperatorHandleStatus, Handled, TypeOK, ReportOK, Parts
<1>2. /\ pc = "memberOperator" /\ pc' = "hostConnection"
      /\ unready' = IF ~(health["deployment"] /\ health["version"])
                      THEN unready \union {"memberOperator"} ELSE unready
      /\ UNCHANGED <<system, stored, queue, current, changes, allocatable, faults>>
    BY DEF memberOperatorHandleStatus, Handled
<1>3. unready' \in SUBSET Tags /\ allocatable' \in SUBSET Node /\ faults' \in Nat
    BY <1>0, <1>2 DEF TypeOK, Tags
<1>4. ListOK' /\ UsageOK'
    BY <1>0, <1>1, <1>2 DEF ListOK, UsageOK
<1> QED BY <1>1, <1>2, <1>3, <1>4, HandledInv

LEMMA hostConnectionInv == IndInv /\ hostConnectionHandleStatus => IndInv'
<1> SUFFICES ASSUME IndInv, hostConnectionHandleStatus PROVE IndInv'
    OBVIOUS
<1>0. TypeOK /\ ListOK /\ UsageOK
    BY HandlersParts DEF IndInv
<1>1. /\ ReportOK(copy') /\ copy'.cond["host"] = health["host"]
      /\ copy'.cond["deployment"] = copy.cond["deployment"]
      /\ copy'.cond["version"] = copy.cond["version"]
    BY <1>0 DEF hostConnectionHandleStatus, Handled, TypeOK, ReportOK, Parts
<1>2. /\ pc = "hostConnection" /\ pc' = "nodes"
      /\ unready' = IF ~health["host"] THEN unready \union {"hostConnection"} ELSE unready
      /\ UNCHANGED <<system, stored, queue, current, changes, allocatable, faults>>
    BY DEF hostConnectionHandleStatus, Handled
<1>3. unready' \in SUBSET Tags /\ allocatable' \in SUBSET Node /\ faults' \in Nat
    BY <1>0, <1>2 DEF TypeOK, Tags
<1>4. ListOK' /\ UsageOK'
    BY <1>0, <1>1, <1>2 DEF ListOK, UsageOK
<1> QED BY <1>1, <1>2, <1>3, <1>4, HandledInv

LEMMA listNodesInv == IndInv /\ listNodes => IndInv'
<1> SUFFICES ASSUME IndInv, listNodes PROVE IndInv'
    OBVIOUS
<1>0. TypeOK /\ ListOK /\ UsageOK
    BY HandlersParts DEF IndInv
<1>1. copy' = [copy EXCEPT !.usage = <<>>]
    BY DEF listNodes, Handled
<1>2. ReportOK(copy') /\ copy'.usage = <<>> /\ copy'.cond = copy.cond
    BY <1>0, <1>1 DEF TypeOK, ReportOK
<1>3. /\ pc = "nodes" /\ UNCHANGED <<system, stored, queue, current, changes>>
      /\ \/ pc' = "metrics" /\ unready' = unready /\ allocatable' = getAllocatableValues /\ faults' = faults
         \/ /\ pc' = "routes" /\ unready' = unready \union {"resourceUsage"}
            /\ allocatable' = allocatable /\ faults' = faults + 1
    BY DEF listNodes, Handled
<1>4. unready' \in SUBSET Tags /\ allocatable' \in SUBSET Node /\ faults' \in Nat
  <2>1. getAllocatableValues \subseteq Node /\ allocatable \subseteq Node
    BY <1>0 DEF getAllocatableValues, TypeOK
  <2>2. allocatable' \in {getAllocatableValues, allocatable}
    BY <1>3
  <2>3. unready' \in SUBSET Tags
    BY <1>0, <1>3 DEF TypeOK, Tags
  <2>4. faults' \in Nat
    BY <1>0, <1>3 DEF TypeOK
  <2> QED BY <2>1, <2>2, <2>3, <2>4
<1>5. ListOK' /\ UsageOK'
    BY <1>0, <1>2, <1>3 DEF ListOK, UsageOK
<1> QED BY <1>2, <1>3, <1>4, <1>5, HandledInv

LEMMA listMetricsInv == IndInv /\ listMetrics => IndInv'
<1> SUFFICES ASSUME IndInv, listMetrics PROVE IndInv'
    OBVIOUS
<1>0. TypeOK /\ ListOK /\ UsageOK
    BY HandlersParts DEF IndInv
<1> DEFINE listed == {n \in Node : nodes[n] \in {"metered", "bare", "leftover"}}
<1>1. /\ pc = "metrics" /\ pc' = "routes"
      /\ UNCHANGED <<system, stored, queue, current, changes, allocatable>>
      /\ faults' \in {faults, faults + 1}
      /\ \/ copy' = copy /\ unready' = unready \union {"resourceUsage"}
         \/ /\ copy' = [copy EXCEPT !.usage = UsagePerRole(listed \intersect allocatable)]
            /\ unready' = unready
    BY DEF listMetrics, Handled
<1>2. DOMAIN UsagePerRole(listed \intersect allocatable) \subseteq Roles
    BY DEF UsagePerRole
<1>3. ReportOK(copy') /\ copy'.cond = copy.cond /\ ("resourceUsage" \in unready' => copy'.usage = <<>>)
  <2>1. CASE copy' = copy
    BY <2>1, <1>0, <1>1 DEF TypeOK, UsageOK
  <2>2. CASE /\ copy' = [copy EXCEPT !.usage = UsagePerRole(listed \intersect allocatable)]
             /\ unready' = unready
    <3> DEFINE u == UsagePerRole(listed \intersect allocatable)
    <3>1. "resourceUsage" \notin unready'
      BY <2>2, <1>0, <1>1 DEF UsageOK
    <3>2. DOMAIN u \subseteq Roles /\ copy' = [copy EXCEPT !.usage = u]
      BY <2>2, <1>2
    <3> HIDE DEF u
    <3>3. ReportOK(copy') /\ copy'.cond = copy.cond
      BY <1>0, <3>2 DEF TypeOK, ReportOK
    <3> QED BY <3>1, <3>3
  <2> QED BY <1>1, <2>1, <2>2
<1>4. unready' \in SUBSET Tags /\ allocatable' \in SUBSET Node /\ faults' \in Nat
    BY <1>0, <1>1 DEF TypeOK, Tags
<1>5. ListOK' /\ UsageOK'
    BY <1>0, <1>1, <1>3 DEF ListOK, UsageOK
<1> QED BY <1>1, <1>3, <1>4, <1>5, HandledInv

LEMMA routesInv == IndInv /\ routesHandleStatus => IndInv'
<1> SUFFICES ASSUME IndInv, routesHandleStatus PROVE IndInv'
    OBVIOUS
<1>0. TypeOK /\ ListOK /\ UsageOK
    BY HandlersParts DEF IndInv
<1>1. /\ ReportOK(copy') /\ copy'.cond["route"] = health["route"]
      /\ copy'.cond["deployment"] = copy.cond["deployment"]
      /\ copy'.cond["version"] = copy.cond["version"]
      /\ copy'.cond["host"] = copy.cond["host"]
      /\ copy'.usage = copy.usage /\ (health["route"] => copy'.url)
    BY <1>0 DEF routesHandleStatus, Handled, TypeOK, ReportOK, Parts
<1>2. /\ pc = "routes" /\ pc' = "update"
      /\ unready' = IF ~health["route"] THEN unready \union {"routes"} ELSE unready
      /\ UNCHANGED <<system, stored, queue, current, changes, allocatable, faults>>
    BY DEF routesHandleStatus, Handled
<1>3. unready' \in SUBSET Tags /\ allocatable' \in SUBSET Node /\ faults' \in Nat
    BY <1>0, <1>2 DEF TypeOK, Tags
<1>4. ListOK' /\ UsageOK'
    BY <1>0, <1>1, <1>2 DEF ListOK, UsageOK
<1> QED BY <1>1, <1>2, <1>3, <1>4, HandledInv

LEMMA GetInv == IndInv /\ Get => IndInv'
<1> SUFFICES ASSUME IndInv, Get PROVE IndInv'
    OBVIOUS
<1> USE DEF Get, system, stored, queue, locals
<1>1. TypeOK'
    BY DEF IndInv, TypeOK
<1>2. HandlersOK'
  <2>1. (TypeOK => (HandlersOK <=> ListOK /\ UsageOK))'
    BY HandlersParts, PTL
  <2>2. ListOK' /\ UsageOK'
    BY DEF ListOK, UsageOK
  <2> QED BY <1>1, <2>1, <2>2
<1>3. ReportIsCoherent'
    BY DEF IndInv, ReportIsCoherent
<1> QED BY <1>1, <1>2, <1>3 DEF IndInv

\* The status is written: what the handlers have left makes a coherent report.
LEMMA UpdateInv == IndInv /\ UpdateStatus => IndInv'
<1> SUFFICES ASSUME IndInv, UpdateStatus PROVE IndInv'
    OBVIOUS
<1> USE DEF UpdateStatus, system, stored, queue, locals
<1>0. TypeOK /\ ListOK /\ UsageOK
    BY HandlersParts DEF IndInv
<1>1. HandlersOK'
    BY DEF HandlersOK, Retry
<1>2. CASE report' = [copy EXCEPT !.ready = (unready = {}), !.unready = unready] /\ exists /\ current
           /\ seen' = "old" /\ undelivered' = TRUE /\ pc' = "idle" /\ due' = TRUE
           /\ UNCHANGED <<system, exists, queued, locals, changes, faults>>
  <2>1. /\ ReportOK(report') /\ report'.ready = (unready = {}) /\ report'.unready = unready
        /\ report'.cond = copy.cond /\ report'.usage = copy.usage /\ report'.url = copy.url
    BY <1>0, <1>2 DEF TypeOK, ReportOK
  <2>2. TypeOK'
    BY <2>1, <1>0, <1>2 DEF TypeOK
  <2>3. report'.unready \ {"resourceUsage"} = {ComponentOf(p) : p \in {q \in Parts : ~report'.cond[q]}}
    BY <2>1, <1>0, CoherentParts DEF ListOK
  <2>4. ReportIsCoherent'
    BY <2>1, <2>3, <1>0 DEF UsageOK, ReportIsCoherent
  <2> QED BY <1>1, <2>2, <2>4 DEF IndInv
<1>3. CASE Retry /\ UNCHANGED <<changes, faults>>
    BY <1>1, <1>3 DEF Retry, IndInv, TypeOK, ReportIsCoherent
<1> QED BY <1>2, <1>3

\* Everything else leaves the report as it is, or empty, and the work of a
\* Reconcile as it is, or ends it.
LEMMA RestInv ==
    IndInv /\ (Start \/ CallFails \/ PeriodEnds \/ Deliver \/ Restart \/ Remove \/ Recreate \/ Disturb)
       => IndInv'
<1> SUFFICES ASSUME IndInv,
                    Start \/ CallFails \/ PeriodEnds \/ Deliver \/ Restart \/ Remove \/ Recreate \/ Disturb
             PROVE  IndInv'
    OBVIOUS
<1> USE DEF Start, CallFails, Retry, PeriodEnds, Deliver, Restart, CreateOrUpdateResources, Remove, Recreate,
            Disturb, Fault, Change, system, stored, queue, locals
<1>1. report' \in {report, NoReport} /\ UNCHANGED <<copy, unready, allocatable>>
    OBVIOUS
<1>2. TypeOK'
  <2>1. ReportOK(report') /\ ReportOK(copy') /\ unready' \in SUBSET Tags /\ allocatable' \in SUBSET Node
    BY <1>1, EmptyReport DEF IndInv, TypeOK
  <2>2. health' \in [Parts -> BOOLEAN] /\ nodes' \in [Node -> NodeStates]
    BY DEF IndInv, TypeOK
  <2>3. /\ exists' \in BOOLEAN /\ seen' \in {"none", "old", "latest"} /\ undelivered' \in BOOLEAN
        /\ ~undelivered' => seen' = IF exists' THEN "latest" ELSE "none"
    <3>0. exists \in BOOLEAN
      BY DEF IndInv, TypeOK
    <3>1. CASE Deliver
      <4>1. exists' = exists /\ undelivered' = FALSE /\ seen' = IF exists THEN "latest" ELSE "none"
        BY <3>1
      <4> QED BY <3>0, <4>1
    <3>4. CASE Restart
      BY <3>4
    <3>2. CASE Remove \/ Recreate
      BY <3>2 DEF IndInv, TypeOK
    <3>3. CASE Start \/ CallFails \/ PeriodEnds \/ Disturb
      BY <3>3 DEF IndInv, TypeOK
    <3> QED BY <3>1, <3>2, <3>3, <3>4
  <2>4. queued' \in BOOLEAN /\ due' \in BOOLEAN /\ current' \in BOOLEAN
    BY DEF IndInv, TypeOK
  <2>5. changes' \in Nat /\ faults' \in Nat
    BY DEF IndInv, TypeOK
  <2>6. pc' \in {"idle", "get", pc}
    OBVIOUS
  <2> QED BY <2>1, <2>2, <2>3, <2>4, <2>5, <2>6 DEF IndInv, TypeOK
<1>3. HandlersOK'
  <2>1. pc' \in {"idle", "get"} \/ pc' = pc
    OBVIOUS
  <2> QED BY <1>1, <2>1 DEF IndInv, HandlersOK, HandlersDone
<1>4. ReportIsCoherent'
    BY <1>1 DEF IndInv, ReportIsCoherent
<1> QED BY <1>2, <1>3, <1>4 DEF IndInv

LEMMA NextInv == IndInv /\ [Next]_vars => IndInv'
<1>1. IndInv /\ UNCHANGED vars => IndInv'
    BY DEF vars, system, stored, queue, locals, IndInv, TypeOK, HandlersOK, HandlersDone, ReportIsCoherent
<1> QED
    BY <1>1, memberOperatorInv, hostConnectionInv, listNodesInv, listMetricsInv, routesInv, GetInv,
       UpdateInv, RestInv
    DEF Next, Reconcile

---------------------------------------------------------------------------
(* The theorems                                                            *)

\* The invariant holds for any nodes and bounds.
THEOREM Invariance == Spec => []IndInv
    BY InitInv, NextInv, PTL DEF Spec

\* Every report that is written is of one piece, whatever happens between the
\* handlers that fill it in.
THEOREM ReportCoherence == Spec => []ReportIsCoherent
<1>1. IndInv => ReportIsCoherent
    BY DEF IndInv
<1> QED BY <1>1, Invariance, PTL

===========================================================================
