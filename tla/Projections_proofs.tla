-------------------------- MODULE Projections_proofs --------------------------
(***************************************************************************)
(* What holds of the launches that compete for a projection run            *)
(* (RunBroker) for any number of launches, restarts and lost calls.        *)
(***************************************************************************)
EXTENDS MCProjections, TLAPS, FiniteSetTheorems

-----------------------------------------------------------------------------
(* The inductive invariant.                                                *)

Over  == {"closed", "recovered"}
Calls == [run : Launches, kind : {"prepare", "normal", "recovery"}, live : BOOLEAN]

\* The lease is one run's.
OneLease == \A r, o \in Launches : lease[r] \in B!Leased /\ lease[o] \in B!Leased => r = o

\* What row, directory, memory, DSH and plugin of a run say of each other.
RunFits(r) ==
    /\ lease[r] = "none" => root[r] = "none" /\ entry[r] = "none" /\ client[r] = "none"
    /\ lease[r] = "preparing" => client[r] = "none" /\ entry[r] \in {"none", "prepared"}
    /\ lease[r] \in Over => root[r] = "removed" /\ entry[r] = "none"
    /\ lease[r] = "closed" => client[r] = "drained"
    /\ entry[r] = "prepared" => /\ lease[r] \in B!Leased /\ client[r] = "none"
                                /\ process[r] # "down" => lease[r] = "preparing" /\ root[r] = "there"
    /\ entry[r] = "attached" => client[r] # "none"
    /\ r \in drained => client[r] = "drained"
    /\ process[r] = "off" => client[r] = "none"
    /\ client[r] # "none" /\ process[r] # "down" => lease[r] = "running" /\ root[r] = "there"
    /\ r \in saved => client[r] = "on" /\ root[r] = "there"

\* What the provider knows is so.
RecordFits(r) ==
    /\ provider[r] \in {"normal", "recovery", "writeClosed", "writeRecovered"} => process[r] = "down"
    /\ provider[r] = "writeClosed" => lease[r] = "closed"
    /\ provider[r] = "writeRecovered" => lease[r] = "recovered"
    /\ handle[r].receipt \in Over => lease[r] = handle[r].receipt

\* A close or a recovery is asked for when DSH is down, a preparation before it is up.
Asked(q) ==
    IF q.kind = "prepare"
    THEN /\ process[q.run] \in {"off", "down"} /\ client[q.run] = "none" /\ entry[q.run] = "none"
         /\ process[q.run] = "off" => provider[q.run] = "prepare"
    ELSE process[q.run] = "down"

CallsFit ==
    /\ \A i \in 1..Len(requests) : Asked(requests[i])
    /\ \A i, k \in 1..Len(requests) :
          requests[i].kind = "prepare" /\ requests[k].kind = "prepare" /\ requests[i].run = requests[k].run => i = k
    /\ \A i \in 1..Len(requests) :
          requests[i].kind = "prepare" /\ (i > 1 \/ step = "start") => lease[requests[i].run] = "none"

\* How far the first call has come.
Within(q) ==
    IF q.kind = "prepare"
    THEN /\ lease[q.run] = "preparing"
         /\ \/ step = "work" /\ root[q.run] \in {"none", "partial"}
            \/ step = "finish" /\ root[q.run] = "there"
    ELSE \/ /\ step = "work" /\ q.kind = "recovery" /\ lease[q.run] = "recovering"
            /\ root[q.run] = "there" /\ entry[q.run] \in {"none", "attached"}
         \/ /\ step \in {"remove", "finish"} /\ q.run \notin saved
            /\ lease[q.run] = IF q.kind = "normal" THEN "draining" ELSE "recovering"
            /\ root[q.run] = IF step = "remove" THEN "there" ELSE "removed"
            /\ q.kind = "normal" => q.run \in drained

StepFits == step # "start" => requests # <<>> /\ Within(Head(requests))

BrokerIInv ==
    /\ B!TypeOK /\ OneLease /\ CallsFit /\ StepFits
    /\ \A r \in Launches : RunFits(r) /\ RecordFits(r)

LEMMA BrokerHolds == ASSUME BrokerIInv
                     PROVE  /\ B!TypeOK /\ B!OneWriter /\ B!ClosedIsDrained
                            /\ B!RemovedIsCanonical /\ B!ReceiptIsEarned /\ B!SavedIsThere
<1>1. B!OneWriter
  BY DEF BrokerIInv, OneLease, RunFits, B!OneWriter, B!Leased
<1>2. B!ClosedIsDrained
  BY DEF BrokerIInv, RunFits, RecordFits, Over, B!ClosedIsDrained
<1>3. B!RemovedIsCanonical /\ B!SavedIsThere
  BY DEF BrokerIInv, RunFits, B!RemovedIsCanonical, B!SavedIsThere, B!TypeOK
<1>4. B!ReceiptIsEarned
  BY DEF BrokerIInv, RunFits, RecordFits, Over, B!ReceiptIsEarned
<1> QED BY <1>1, <1>2, <1>3, <1>4 DEF BrokerIInv

LEMMA BrokerInit == ASSUME B!Init PROVE BrokerIInv
<1> USE DEF B!Init, B!NoHandle
<1>1. B!TypeOK
  <2>1. 0 \in 0..MaxRestarts /\ 0 \in 0..MaxLosses
    BY LaunchAssumption DEF LaunchAssumption
  <2> QED BY <2>1 DEF B!TypeOK, B!Leased
<1>2. \A r \in Launches : RunFits(r) /\ RecordFits(r)
  BY DEF RunFits, RecordFits, Over
<1>3. OneLease
  BY DEF OneLease, B!Leased
<1>5. CallsFit
  <2>1. Len(requests) = 0
    OBVIOUS
  <2> QED BY <2>1 DEF CallsFit
<1>4. StepFits
  BY DEF StepFits
<1> QED BY <1>1, <1>2, <1>3, <1>4, <1>5 DEF BrokerIInv

LEMMA Put ==
    ASSUME NEW S, NEW s \in Seq(S), NEW e \in S
    PROVE  /\ Append(s, e) \in Seq(S) /\ Len(Append(s, e)) = Len(s) + 1 /\ Len(s) \in Nat
           /\ \A i \in 1..Len(s) : Append(s, e)[i] = s[i]
           /\ Append(s, e)[Len(s) + 1] = e
           /\ \A i \in 1..Len(Append(s, e)) : i \in 1..Len(s) \/ i = Len(s) + 1
  OBVIOUS

LEMMA Taken ==
    ASSUME NEW S, NEW s \in Seq(S), s # <<>>
    PROVE  /\ Tail(s) \in Seq(S) /\ Len(s) \in Nat /\ Len(Tail(s)) = Len(s) - 1 /\ Len(s) >= 1
           /\ \A i \in 1..Len(Tail(s)) : i + 1 \in 1..Len(s) /\ s[i + 1] \in S /\ Tail(s)[i] = s[i + 1]
           /\ Head(s) = s[1] /\ Head(s) \in S
  OBVIOUS

-----------------------------------------------------------------------------
(* Steps of one launch.                                                    *)

\* The other launches rest.
Apart(r) == \A o \in Launches \ {r} :
    /\ lease'[o] = lease[o] /\ root'[o] = root[o] /\ entry'[o] = entry[o] /\ handle'[o] = handle[o]
    /\ provider'[o] = provider[o] /\ process'[o] = process[o] /\ client'[o] = client[o]
    /\ o \in drained' <=> o \in drained
    /\ o \in saved' <=> o \in saved

\* The row of r goes to a leased state from another one, or while no other run has the lease.
Leases(r) == lease'[r] \in B!Leased => lease[r] \in B!Leased \/ ~B!Held(r)

Fits(r) == RunFits(r) /\ RecordFits(r)

LEMMA Assembled ==
    ASSUME BrokerIInv, NEW r \in Launches, B!TypeOK', Apart(r), Leases(r), Fits(r)', CallsFit', StepFits'
    PROVE  BrokerIInv'
<1>1. OneLease'
  BY DEF BrokerIInv, OneLease, Apart, Leases, B!Held
<1>2. ASSUME NEW o \in Launches \ {r} PROVE RunFits(o)' /\ RecordFits(o)'
  BY <1>2 DEF BrokerIInv, Apart, RunFits, RecordFits, B!Leased, Over
<1> QED BY <1>1, <1>2 DEF BrokerIInv, Fits

\* The calls that wait stay, and at most one comes behind them.
Grown == /\ requests' \in Seq(Calls) /\ Len(requests') \in {Len(requests), Len(requests) + 1}
         /\ \A i \in 1..Len(requests) : requests'[i].run = requests[i].run /\ requests'[i].kind = requests[i].kind

LEMMA CallsGrow ==
    ASSUME BrokerIInv, NEW r \in Launches, Apart(r), Grown, step' = step,
           \A q \in Calls : q.run = r /\ Asked(q) => Asked(q)',
           \A q \in Calls : q.run = r /\ Within(q) => Within(q)',
           lease[r] = "none" => lease'[r] = "none",
           \A q \in Calls : Len(requests') = Len(requests) + 1 /\ q = requests'[Len(requests) + 1] =>
               /\ Asked(q)'
               /\ q.kind = "prepare" =>
                     /\ lease'[q.run] = "none"
                     /\ \A i \in 1..Len(requests) : requests[i].kind = "prepare" => requests[i].run # q.run
    PROVE  CallsFit' /\ StepFits'
<1>1. /\ requests \in Seq(Calls) /\ Len(requests) \in Nat
      /\ requests' \in Seq(Calls) /\ Len(requests') \in Nat
  BY DEF BrokerIInv, B!TypeOK, Calls, Grown
<1>2. \A q \in Calls : Asked(q) => Asked(q)'
  BY DEF Apart, Asked, Calls
<1>3. \A q \in Calls : Within(q) => Within(q)'
  BY DEF Apart, Within, Calls
<1>4. ASSUME NEW i \in 1..Len(requests')
      PROVE  /\ requests'[i] \in Calls
             /\ \/ /\ i \in 1..Len(requests) /\ requests[i] \in Calls
                   /\ requests'[i].run = requests[i].run /\ requests'[i].kind = requests[i].kind
                \/ i = Len(requests) + 1 /\ Len(requests') = Len(requests) + 1
  BY <1>1 DEF Grown
<1>5. CallsFit'
  <2>1. ASSUME NEW i \in 1..Len(requests'), NEW q, q = requests'[i] PROVE Asked(q)'
    <3>1. CASE i \in 1..Len(requests)
      <4>1. q \in Calls /\ q.run = requests[i].run /\ q.kind = requests[i].kind
        BY <1>1, <1>4, <2>1, <3>1
      <4>2. Asked(q)
        BY <3>1, <4>1 DEF BrokerIInv, CallsFit, Asked
      <4> QED BY <1>2, <4>1, <4>2
    <3> QED BY <1>4, <2>1, <3>1
  <2>2. ASSUME NEW i \in 1..Len(requests'), NEW k \in 1..Len(requests'), requests'[i].kind = "prepare",
               requests'[k].kind = "prepare", requests'[i].run = requests'[k].run
        PROVE  i = k
    <3>1. CASE i \in 1..Len(requests) /\ k \in 1..Len(requests)
      BY <2>2, <3>1 DEF BrokerIInv, CallsFit, Grown
    <3>2. CASE i \in 1..Len(requests) /\ k \notin 1..Len(requests)
      BY <1>4, <2>2, <3>2
    <3>3. CASE i \notin 1..Len(requests) /\ k \in 1..Len(requests)
      BY <1>4, <2>2, <3>3
    <3> QED BY <1>4, <3>1, <3>2, <3>3
  <2>3. ASSUME NEW i \in 1..Len(requests'), requests'[i].kind = "prepare", i > 1 \/ step' = "start"
        PROVE  lease'[requests'[i].run] = "none"
    <3>1. CASE i \in 1..Len(requests)
      <4>1. lease[requests[i].run] = "none" /\ requests[i].run = requests'[i].run /\ requests[i].run \in Launches
        BY <1>1, <1>4, <2>3, <3>1 DEF BrokerIInv, CallsFit, Calls
      <4> QED BY <4>1 DEF Apart
    <3> QED BY <1>4, <2>3, <3>1
  <2> QED BY <2>1, <2>2, <2>3 DEF CallsFit
<1>6. ASSUME step' # "start" PROVE requests' # <<>> /\ \A q : q = Head(requests') => Within(q)'
  <2>1. requests # <<>> /\ Within(Head(requests)) /\ 1 \in 1..Len(requests) /\ Head(requests) = requests[1]
    BY <1>1, <1>6 DEF BrokerIInv, StepFits
  <2>2. requests' # <<>> /\ Head(requests') = requests'[1] /\ 1 \in 1..Len(requests')
    BY <1>1, <2>1 DEF Grown
  <2>3. /\ requests'[1].run = requests[1].run /\ requests'[1].kind = requests[1].kind
        /\ requests'[1] \in Calls /\ requests[1] \in Calls
    BY <1>1, <1>4, <2>1, <2>2
  <2>4. ASSUME NEW q, q = requests'[1] PROVE Within(q)'
    BY <1>3, <2>1, <2>3, <2>4 DEF Within
  <2> QED BY <2>2, <2>4
<1>7. StepFits'
  BY <1>6 DEF StepFits
<1> QED BY <1>5, <1>7

\* The queue rests.
LEMMA Rested ==
    ASSUME BrokerIInv, NEW r \in Launches, B!TypeOK', Apart(r), Leases(r), Fits(r)', UNCHANGED <<requests, step>>,
           \A q \in Calls : q.run = r /\ Asked(q) => Asked(q)',
           \A q \in Calls : q.run = r /\ Within(q) => Within(q)',
           lease[r] = "none" => lease'[r] = "none"
    PROVE  BrokerIInv'
<1>1. requests \in Seq(Calls) /\ Len(requests) \in Nat
  BY DEF BrokerIInv, B!TypeOK, Calls
<1>2. Grown /\ Len(requests') # Len(requests) + 1
  BY <1>1 DEF Grown
<1>3. CallsFit' /\ StepFits'
  BY <1>2, CallsGrow
<1> QED BY <1>3, Assembled

\* A call comes behind the others.
LEMMA Sent ==
    ASSUME BrokerIInv, NEW r \in Launches, B!TypeOK', Apart(r), Leases(r), Fits(r)', step' = step,
           NEW e \in Calls, e.run = r, requests' = Append(requests, e), UNCHANGED lease,
           \A q \in Calls : q.run = r /\ Asked(q) => Asked(q)',
           \A q \in Calls : q.run = r /\ Within(q) => Within(q)', Asked(e)',
           e.kind = "prepare" => lease[r] = "none" /\ ~Asked(e)
    PROVE  BrokerIInv'
<1>1. requests \in Seq(Calls) /\ Len(requests) \in Nat
  BY DEF BrokerIInv, B!TypeOK, Calls
<1>2. /\ requests' \in Seq(Calls) /\ Len(requests') = Len(requests) + 1 /\ requests'[Len(requests) + 1] = e
      /\ \A i \in 1..Len(requests) : requests'[i] = requests[i]
  BY <1>1
<1>3. Grown
  BY <1>1, <1>2 DEF Grown
<1>4. e.kind = "prepare" => \A i \in 1..Len(requests) : requests[i].kind = "prepare" => requests[i].run # e.run
  BY DEF BrokerIInv, CallsFit, Asked
<1>5. CallsFit' /\ StepFits'
  BY <1>2, <1>3, <1>4, CallsGrow
<1> QED BY <1>5, Assembled

\* The first call is answered; what its caller sends instead comes behind the others.
LEMMA Popped ==
    ASSUME BrokerIInv, NEW r \in Launches, B!TypeOK', Apart(r), Leases(r), Fits(r)', step' = "start",
           requests # <<>>, Head(requests).run = r,
           \/ requests' = Tail(requests)
           \/ \E e \in Calls : /\ e.run = r /\ e.kind = "recovery" /\ process'[r] = "down"
                               /\ requests' = Append(Tail(requests), e),
           process[r] = "down" => process'[r] = "down", client'[r] = client[r],
           Head(requests).kind # "prepare" =>
               entry'[r] \in {entry[r], "none"} /\ (lease[r] = "none" /\ entry[r] = "none" => lease'[r] = "none")
    PROVE  BrokerIInv'
<1> DEFINE t == Tail(requests)
<1>1. /\ requests \in Seq(Calls) /\ Len(requests) \in Nat /\ Len(requests) >= 1 /\ Head(requests) = requests[1]
      /\ t \in Seq(Calls) /\ Len(t) = Len(requests) - 1
      /\ \A i \in 1..Len(t) : t[i] = requests[i + 1] /\ i + 1 \in 1..Len(requests) /\ requests[i + 1] \in Calls
  <2>1. requests \in Seq(Calls)
    BY DEF BrokerIInv, B!TypeOK, Calls
  <2> QED BY <2>1, Taken
<1>2. Head(requests).kind # "prepare" => process[r] = "down"
  BY <1>1 DEF BrokerIInv, CallsFit, Asked
<1>3. ASSUME NEW i \in 1..Len(t), NEW q, q = t[i] PROVE Asked(q)' /\ (q.kind = "prepare" => lease'[q.run] = "none")
  <2>1. q \in Calls /\ Asked(q) /\ (q.kind = "prepare" => lease[q.run] = "none")
    BY <1>1, <1>3 DEF BrokerIInv, CallsFit
  <2>2. CASE q.run # r
    BY <2>1, <2>2 DEF Apart, Asked, Calls
  <2>3. CASE q.run = r /\ q.kind = "prepare"
    <3>1. Head(requests).kind # "prepare"
      <4>1. 1 \in 1..Len(requests) /\ 1 # i + 1
        BY <1>1
      <4> QED BY <1>1, <1>3, <2>3, <4>1 DEF BrokerIInv, CallsFit
    <3> QED BY <1>2, <2>1, <2>3, <3>1 DEF Asked
  <2>4. CASE q.run = r /\ q.kind # "prepare"
    BY <2>1, <2>4 DEF Asked
  <2> QED BY <2>2, <2>3, <2>4
<1>4. ASSUME NEW i \in 1..Len(t), NEW k \in 1..Len(t), t[i].kind = "prepare", t[k].kind = "prepare",
             t[i].run = t[k].run
      PROVE  i = k
  BY <1>1, <1>4 DEF BrokerIInv, CallsFit
<1>5. CASE requests' = t
  <2>1. CallsFit'
    <3>1. ASSUME NEW i \in 1..Len(requests'), NEW q, q = requests'[i] PROVE Asked(q)'
      BY <1>3, <1>5, <3>1
    <3> QED BY <1>3, <1>4, <1>5, <3>1 DEF CallsFit
  <2>2. StepFits'
    BY DEF StepFits
  <2> QED BY <2>1, <2>2, Assembled
<1>6. ASSUME NEW e \in Calls, e.run = r, e.kind = "recovery", process'[r] = "down", requests' = Append(t, e)
      PROVE  BrokerIInv'
  <2>1. /\ Len(requests') = Len(t) + 1 /\ requests'[Len(t) + 1] = e /\ Len(t) \in Nat
        /\ \A i \in 1..Len(t) : requests'[i] = t[i]
        /\ \A i \in 1..Len(requests') : i \in 1..Len(t) \/ i = Len(t) + 1
    <3>1. t \in Seq(Calls)
      BY <1>1
    <3> HIDE DEF t
    <3>2. /\ Len(Append(t, e)) = Len(t) + 1 /\ Append(t, e)[Len(t) + 1] = e /\ Len(t) \in Nat
          /\ \A i \in 1..Len(t) : Append(t, e)[i] = t[i]
          /\ \A i \in 1..Len(Append(t, e)) : i \in 1..Len(t) \/ i = Len(t) + 1
      BY <3>1, Put
    <3> QED BY <1>6, <3>2
  <2> HIDE DEF t
  <2>2. CallsFit'
    <3>1. ASSUME NEW i \in 1..Len(requests'), NEW q, q = requests'[i] PROVE Asked(q)'
      <4>1. CASE i \in 1..Len(t)
        BY <1>3, <2>1, <3>1, <4>1
      <4>2. CASE i = Len(t) + 1
        BY <1>6, <2>1, <3>1, <4>2 DEF Asked
      <4> QED BY <2>1, <4>1, <4>2
    <3>2. \A i, k \in 1..Len(requests') : requests'[i].kind = "prepare" /\ requests'[k].kind = "prepare"
                                           /\ requests'[i].run = requests'[k].run => i = k
      BY <1>4, <1>6, <2>1
    <3>3. \A i \in 1..Len(requests') : requests'[i].kind = "prepare" => lease'[requests'[i].run] = "none"
      BY <1>3, <1>6, <2>1
    <3> QED BY <3>1, <3>2, <3>3 DEF CallsFit
  <2>3. StepFits'
    BY DEF StepFits
  <2> QED BY <2>2, <2>3, Assembled
<1> QED BY <1>5, <1>6

LEMMA Refused ==
    ASSUME BrokerIInv, NEW r \in Launches, requests # <<>>, Head(requests).run = r, B!Refuse(r)
    PROVE  /\ step' = "start" /\ requests' \in Seq(Calls)
           /\ \/ requests' = Tail(requests)
              \/ \E e \in Calls : /\ e.run = r /\ e.kind = "recovery" /\ process'[r] = "down"
                                  /\ requests' = Append(Tail(requests), e)
           /\ \E v : /\ provider' = [provider EXCEPT ![r] = v]
                     /\ v \in {provider[r], "none", "recovery"}
                     /\ v = "recovery" => process'[r] = "down"
           /\ process' = process \/ process' = [process EXCEPT ![r] = "down"]
<1> DEFINE t == Tail(requests)
           e == [run |-> r, kind |-> "recovery", live |-> TRUE]
<1>1. t \in Seq(Calls) /\ e \in Calls /\ Append(t, e) \in Seq(Calls) /\ RunFits(r) /\ RecordFits(r)
  BY DEF BrokerIInv, B!TypeOK, Calls
<1>2. provider = [provider EXCEPT ![r] = provider[r]]
  BY DEF BrokerIInv, B!TypeOK
<1>3. CASE ~B!First.live
  <2>1. step' = "start" /\ requests' = t /\ UNCHANGED <<provider, process>>
    BY <1>3 DEF B!Refuse
  <2> HIDE DEF t, e
  <2> QED BY <1>1, <1>2, <2>1 DEF RecordFits, t
<1>4. CASE B!First.live
  <2>1. B!Disappointed(r, t) /\ step' = "start"
    BY <1>4 DEF B!Refuse
  <2>2. CASE provider[r] = "normal"
    <3>1. provider' = [provider EXCEPT ![r] = "recovery"] /\ requests' = Append(t, e) /\ UNCHANGED process
      BY <2>1, <2>2 DEF B!Disappointed, B!Set
    <3>2. process[r] = "down"
      BY <1>1, <2>2 DEF RecordFits
    <3>3. e.run = r /\ e.kind = "recovery"
      OBVIOUS
    <3> HIDE DEF t, e
    <3> QED BY <1>1, <2>1, <3>1, <3>2, <3>3 DEF t
  <2>3. CASE provider[r] = "prepare"
    BY <1>1, <2>1, <2>3 DEF B!Disappointed, B!Set
  <2>4. CASE provider[r] \notin {"normal", "prepare"}
    BY <1>1, <2>1, <2>4 DEF B!Disappointed, B!Set
  <2> QED BY <2>2, <2>3, <2>4
<1> QED BY <1>3, <1>4

-----------------------------------------------------------------------------
(* The steps that leave the queue of calls alone.                          *)

\* The losses stay within their bound.
LEMMA LossesBounded == ASSUME BrokerIInv, B!Lose \/ UNCHANGED losses PROVE losses' \in 0..MaxLosses
<1>1. losses \in 0..MaxLosses /\ MaxLosses \in Nat
  BY LaunchAssumption DEF BrokerIInv, B!TypeOK, LaunchAssumption
<1> QED BY <1>1 DEF B!Lose

\* The Launcher starts DSH.
LEMMA SpawnKeeps == ASSUME BrokerIInv, NEW r \in Launches, B!Spawn(r) PROVE BrokerIInv'
<1> USE DEF B!Spawn, B!Set, B!EngineSide, B!DshSide
<1>1. B!TypeOK'
  BY DEF BrokerIInv, B!TypeOK, B!Lose, B!Fresh, B!NoHandle, B!Leased
<1>2. Apart(r) /\ Leases(r) /\ UNCHANGED <<requests, step>>
  BY DEF BrokerIInv, B!TypeOK, Apart, Leases, B!Leased
<1>3. RunFits(r)'
  BY DEF BrokerIInv, B!TypeOK, RunFits, B!Leased, Over
<1>4. RecordFits(r)'
  BY DEF BrokerIInv, B!TypeOK, RunFits, RecordFits, B!NoHandle, Over
<1>5. \A q \in Calls : q.run = r /\ Asked(q) => Asked(q)'
  BY DEF BrokerIInv, B!TypeOK, Asked, RunFits, RecordFits
<1>6. \A q \in Calls : q.run = r /\ Within(q) => Within(q)'
  BY DEF BrokerIInv, B!TypeOK, Within, RunFits
<1>7. lease[r] = "none" => lease'[r] = "none"
  BY DEF BrokerIInv, B!TypeOK, RunFits
<1> QED BY <1>1, <1>2, <1>3, <1>4, <1>5, <1>6, <1>7, Rested DEF Fits

\* DSH is asked to stop, or killed.
LEMMA BeforeStopKeeps == ASSUME BrokerIInv, NEW r \in Launches, B!BeforeStop(r) PROVE BrokerIInv'
<1> USE DEF B!BeforeStop, B!Set, B!EngineSide, B!DshSide
<1>1. B!TypeOK'
  <2>1. losses' \in 0..MaxLosses
    BY LossesBounded
  <2>2. process' \in [Launches -> {"off", "up", "asked", "down"}]
    <3>1. process \in [Launches -> {"off", "up", "asked", "down"}]
      BY DEF BrokerIInv, B!TypeOK
    <3> QED BY <3>1
  <2>3. provider' \in [Launches -> {"none", "prepare", "patch", "stop", "normal", "recovery", "writeClosed", "writeRecovered"}]
    <3>1. provider \in [Launches -> {"none", "prepare", "patch", "stop", "normal", "recovery", "writeClosed", "writeRecovered"}]
      BY DEF BrokerIInv, B!TypeOK
    <3> QED BY <3>1
  <2> QED BY <2>1, <2>2, <2>3 DEF BrokerIInv, B!TypeOK, B!Leased
<1>2. Apart(r) /\ Leases(r) /\ UNCHANGED <<requests, step>>
  BY DEF BrokerIInv, B!TypeOK, Apart, Leases, B!Leased
<1>3. RunFits(r)'
  BY DEF BrokerIInv, B!TypeOK, RunFits, B!Leased, Over
<1>4. RecordFits(r)'
  BY DEF BrokerIInv, B!TypeOK, RunFits, RecordFits, B!NoHandle, Over
<1>5. \A q \in Calls : q.run = r /\ Asked(q) => Asked(q)'
  BY DEF BrokerIInv, B!TypeOK, Asked, RunFits, RecordFits
<1>6. \A q \in Calls : q.run = r /\ Within(q) => Within(q)'
  BY DEF BrokerIInv, B!TypeOK, Within, RunFits
<1>7. lease[r] = "none" => lease'[r] = "none"
  BY DEF BrokerIInv, B!TypeOK, RunFits
<1> QED BY <1>1, <1>2, <1>3, <1>4, <1>5, <1>6, <1>7, Rested DEF Fits

\* The handle says that DSH accepted the shutdown.
LEMMA StoreAcceptanceKeeps == ASSUME BrokerIInv, NEW r \in Launches, B!StoreAcceptance(r) PROVE BrokerIInv'
<1> USE DEF B!StoreAcceptance, B!Set, B!EngineSide, B!DshSide
<1>1. B!TypeOK'
  <2>1. handle' \in [Launches -> [accepted : BOOLEAN, receipt : {"absent", "none", "closed", "recovered"}]]
    <3>1. handle \in [Launches -> [accepted : BOOLEAN, receipt : {"absent", "none", "closed", "recovered"}]]
      BY DEF BrokerIInv, B!TypeOK
    <3> QED BY <3>1
  <2>2. provider' \in [Launches -> {"none", "prepare", "patch", "stop", "normal", "recovery", "writeClosed", "writeRecovered"}]
    <3>1. provider \in [Launches -> {"none", "prepare", "patch", "stop", "normal", "recovery", "writeClosed", "writeRecovered"}]
      BY DEF BrokerIInv, B!TypeOK
    <3> QED BY <3>1
  <2> QED BY <2>1, <2>2 DEF BrokerIInv, B!TypeOK, B!Leased
<1>2. Apart(r) /\ Leases(r) /\ UNCHANGED <<requests, step>>
  BY DEF BrokerIInv, B!TypeOK, Apart, Leases, B!Leased
<1>3. RunFits(r)'
  BY DEF BrokerIInv, B!TypeOK, RunFits, B!Leased, Over
<1>4. RecordFits(r)'
  BY DEF BrokerIInv, B!TypeOK, RunFits, RecordFits, B!NoHandle, Over
<1>5. \A q \in Calls : q.run = r /\ Asked(q) => Asked(q)'
  BY DEF BrokerIInv, B!TypeOK, Asked, RunFits, RecordFits
<1>6. \A q \in Calls : q.run = r /\ Within(q) => Within(q)'
  BY DEF BrokerIInv, B!TypeOK, Within, RunFits
<1>7. lease[r] = "none" => lease'[r] = "none"
  BY DEF BrokerIInv, B!TypeOK, RunFits
<1> QED BY <1>1, <1>2, <1>3, <1>4, <1>5, <1>6, <1>7, Rested DEF Fits

\* The handle gets the receipt of a close or a recovery.
LEMMA StoreReceiptKeeps == ASSUME BrokerIInv, NEW r \in Launches, B!StoreReceipt(r) PROVE BrokerIInv'
<1> USE DEF B!StoreReceipt, B!Set, B!EngineSide, B!DshSide
<1>1. B!TypeOK'
  BY DEF BrokerIInv, B!TypeOK, B!Lose, B!Fresh, B!NoHandle, B!Leased
<1>2. Apart(r) /\ Leases(r) /\ UNCHANGED <<requests, step>>
  BY DEF BrokerIInv, B!TypeOK, Apart, Leases, B!Leased
<1>3. RunFits(r)'
  BY DEF BrokerIInv, B!TypeOK, RunFits, B!Leased, Over
<1>4. RecordFits(r)'
  BY DEF BrokerIInv, B!TypeOK, RunFits, RecordFits, B!NoHandle, Over
<1>5. \A q \in Calls : q.run = r /\ Asked(q) => Asked(q)'
  BY DEF BrokerIInv, B!TypeOK, Asked, RunFits, RecordFits
<1>6. \A q \in Calls : q.run = r /\ Within(q) => Within(q)'
  BY DEF BrokerIInv, B!TypeOK, Within, RunFits
<1>7. lease[r] = "none" => lease'[r] = "none"
  BY DEF BrokerIInv, B!TypeOK, RunFits
<1> QED BY <1>1, <1>2, <1>3, <1>4, <1>5, <1>6, <1>7, Rested DEF Fits

\* A provider ends before it has stored what it was told.
LEMMA ProviderDiesKeeps == ASSUME BrokerIInv, NEW r \in Launches, B!ProviderDies(r) PROVE BrokerIInv'
<1> USE DEF B!ProviderDies, B!Set, B!EngineSide, B!DshSide
<1>1. B!TypeOK'
  <2>1. losses' \in 0..MaxLosses
    BY LossesBounded
  <2> QED BY <2>1 DEF BrokerIInv, B!TypeOK, B!Leased
<1>2. Apart(r) /\ Leases(r) /\ UNCHANGED <<requests, step>>
  BY DEF BrokerIInv, B!TypeOK, Apart, Leases, B!Leased
<1>3. RunFits(r)'
  BY DEF BrokerIInv, B!TypeOK, RunFits, B!Leased, Over
<1>4. RecordFits(r)'
  BY DEF BrokerIInv, B!TypeOK, RunFits, RecordFits, B!NoHandle, Over
<1>5. \A q \in Calls : q.run = r /\ Asked(q) => Asked(q)'
  BY DEF BrokerIInv, B!TypeOK, Asked, RunFits, RecordFits
<1>6. \A q \in Calls : q.run = r /\ Within(q) => Within(q)'
  BY DEF BrokerIInv, B!TypeOK, Within, RunFits
<1>7. lease[r] = "none" => lease'[r] = "none"
  BY DEF BrokerIInv, B!TypeOK, RunFits
<1> QED BY <1>1, <1>2, <1>3, <1>4, <1>5, <1>6, <1>7, Rested DEF Fits

\* The plugin attaches, or fails to.
LEMMA AttachKeeps == ASSUME BrokerIInv, NEW r \in Launches, B!Attach(r) PROVE BrokerIInv'
<1> USE DEF B!Attach, B!Set, B!EngineSide, B!DshSide
<1>1. B!TypeOK'
  <2>1. losses' \in 0..MaxLosses
    BY LossesBounded
  <2>2. lease' \in [Launches -> B!Leased \cup {"none", "quarantined", "closed", "recovered"}]
    <3>1. lease \in [Launches -> B!Leased \cup {"none", "quarantined", "closed", "recovered"}]
      BY DEF BrokerIInv, B!TypeOK
    <3> QED BY <3>1 DEF B!Leased
  <2>3. entry' \in [Launches -> {"none", "prepared", "attached", "stuck"}]
    <3>1. entry \in [Launches -> {"none", "prepared", "attached", "stuck"}]
      BY DEF BrokerIInv, B!TypeOK
    <3> QED BY <3>1
  <2>4. client' \in [Launches -> {"none", "on", "drained"}]
    <3>1. client \in [Launches -> {"none", "on", "drained"}]
      BY DEF BrokerIInv, B!TypeOK
    <3> QED BY <3>1
  <2> QED BY <2>1, <2>2, <2>3, <2>4 DEF BrokerIInv, B!TypeOK
<1>2. Apart(r) /\ Leases(r) /\ UNCHANGED <<requests, step>>
  BY DEF BrokerIInv, B!TypeOK, Apart, Leases, RunFits, B!Leased
<1>3. RunFits(r)'
  BY DEF BrokerIInv, B!TypeOK, RunFits, B!Leased, Over
<1>4. RecordFits(r)'
  BY DEF BrokerIInv, B!TypeOK, RunFits, RecordFits, B!NoHandle, Over
<1>5. \A q \in Calls : q.run = r /\ Asked(q) => Asked(q)'
  BY DEF BrokerIInv, B!TypeOK, Asked, RunFits, RecordFits
<1>6. \A q \in Calls : q.run = r /\ Within(q) => Within(q)'
  BY DEF BrokerIInv, B!TypeOK, Within, B!Serving
<1>7. lease[r] = "none" => lease'[r] = "none"
  BY DEF BrokerIInv, B!TypeOK, RunFits
<1> QED BY <1>1, <1>2, <1>3, <1>4, <1>5, <1>6, <1>7, Rested DEF Fits

\* DSH saves an event.
LEMMA SaveKeeps == ASSUME BrokerIInv, NEW r \in Launches, B!Save(r) PROVE BrokerIInv'
<1> USE DEF B!Save, B!Set, B!EngineSide, B!DshSide
<1>1. B!TypeOK'
  BY DEF BrokerIInv, B!TypeOK, B!Lose, B!Fresh, B!NoHandle, B!Leased
<1>2. Apart(r) /\ Leases(r) /\ UNCHANGED <<requests, step>>
  BY DEF BrokerIInv, B!TypeOK, Apart, Leases, B!Leased
<1>3. RunFits(r)'
  BY DEF BrokerIInv, B!TypeOK, RunFits, B!Leased, Over
<1>4. RecordFits(r)'
  BY DEF BrokerIInv, B!TypeOK, RunFits, RecordFits, B!NoHandle, Over
<1>5. \A q \in Calls : q.run = r /\ Asked(q) => Asked(q)'
  BY DEF BrokerIInv, B!TypeOK, Asked, RunFits, RecordFits
<1>6. \A q \in Calls : q.run = r /\ Within(q) => Within(q)'
  BY DEF BrokerIInv, B!TypeOK, Within, RunFits
<1>7. lease[r] = "none" => lease'[r] = "none"
  BY DEF BrokerIInv, B!TypeOK, RunFits
<1> QED BY <1>1, <1>2, <1>3, <1>4, <1>5, <1>6, <1>7, Rested DEF Fits

\* What was saved becomes canonical.
LEMMA AppendSavedKeeps == ASSUME BrokerIInv, NEW r \in Launches, B!AppendSaved(r) PROVE BrokerIInv'
<1> USE DEF B!AppendSaved, B!Set, B!EngineSide, B!DshSide
<1>1. B!TypeOK'
  BY DEF BrokerIInv, B!TypeOK, B!Lose, B!Fresh, B!NoHandle, B!Leased
<1>2. Apart(r) /\ Leases(r) /\ UNCHANGED <<requests, step>>
  BY DEF BrokerIInv, B!TypeOK, Apart, Leases, B!Leased
<1>3. RunFits(r)'
  BY DEF BrokerIInv, B!TypeOK, RunFits, B!Leased, Over
<1>4. RecordFits(r)'
  BY DEF BrokerIInv, B!TypeOK, RunFits, RecordFits, B!NoHandle, Over
<1>5. \A q \in Calls : q.run = r /\ Asked(q) => Asked(q)'
  BY DEF BrokerIInv, B!TypeOK, Asked, RunFits, RecordFits
<1>6. \A q \in Calls : q.run = r /\ Within(q) => Within(q)'
  BY DEF BrokerIInv, B!TypeOK, Within, RunFits
<1>7. lease[r] = "none" => lease'[r] = "none"
  BY DEF BrokerIInv, B!TypeOK, RunFits
<1> QED BY <1>1, <1>2, <1>3, <1>4, <1>5, <1>6, <1>7, Rested DEF Fits

\* The plugin has drained.
LEMMA DrainKeeps == ASSUME BrokerIInv, NEW r \in Launches, B!Drain(r) PROVE BrokerIInv'
<1> USE DEF B!Drain, B!Set, B!EngineSide, B!DshSide
<1>1. B!TypeOK'
  BY DEF BrokerIInv, B!TypeOK, B!Lose, B!Fresh, B!NoHandle, B!Leased
<1>2. Apart(r) /\ Leases(r) /\ UNCHANGED <<requests, step>>
  BY DEF BrokerIInv, B!TypeOK, Apart, Leases, B!Leased
<1>3. RunFits(r)'
  BY DEF BrokerIInv, B!TypeOK, RunFits, B!Leased, Over
<1>4. RecordFits(r)'
  BY DEF BrokerIInv, B!TypeOK, RunFits, RecordFits, B!NoHandle, Over
<1>5. \A q \in Calls : q.run = r /\ Asked(q) => Asked(q)'
  BY DEF BrokerIInv, B!TypeOK, Asked, RunFits, RecordFits
<1>6. \A q \in Calls : q.run = r /\ Within(q) => Within(q)'
  BY DEF BrokerIInv, B!TypeOK, Within, RunFits
<1>7. lease[r] = "none" => lease'[r] = "none"
  BY DEF BrokerIInv, B!TypeOK, RunFits
<1> QED BY <1>1, <1>2, <1>3, <1>4, <1>5, <1>6, <1>7, Rested DEF Fits

\* DSH ends.
LEMMA ExitKeeps == ASSUME BrokerIInv, NEW r \in Launches, B!Exit(r) PROVE BrokerIInv'
<1> USE DEF B!Exit, B!Set, B!EngineSide, B!DshSide
<1>1. B!TypeOK'
  BY DEF BrokerIInv, B!TypeOK, B!Lose, B!Fresh, B!NoHandle, B!Leased
<1>2. Apart(r) /\ Leases(r) /\ UNCHANGED <<requests, step>>
  BY DEF BrokerIInv, B!TypeOK, Apart, Leases, B!Leased
<1>3. RunFits(r)'
  BY DEF BrokerIInv, B!TypeOK, RunFits, B!Leased, Over
<1>4. RecordFits(r)'
  BY DEF BrokerIInv, B!TypeOK, RunFits, RecordFits, B!NoHandle, Over
<1>5. \A q \in Calls : q.run = r /\ Asked(q) => Asked(q)'
  BY DEF BrokerIInv, B!TypeOK, Asked, RunFits, RecordFits
<1>6. \A q \in Calls : q.run = r /\ Within(q) => Within(q)'
  BY DEF BrokerIInv, B!TypeOK, Within, RunFits
<1>7. lease[r] = "none" => lease'[r] = "none"
  BY DEF BrokerIInv, B!TypeOK, RunFits
<1> QED BY <1>1, <1>2, <1>3, <1>4, <1>5, <1>6, <1>7, Rested DEF Fits

-----------------------------------------------------------------------------
(* The steps that put a call behind the others.                            *)

LEMMA AppendedCalls ==
    ASSUME BrokerIInv, NEW e \in Calls, requests' = Append(requests, e) PROVE requests' \in Seq(Calls)
<1>1. requests \in Seq(Calls)
  BY DEF BrokerIInv, B!TypeOK, Calls
<1> QED BY <1>1

\* The Launcher prepares a launch.
LEMMA PrepareKeeps == ASSUME BrokerIInv, NEW r \in Launches, B!Prepare(r) PROVE BrokerIInv'
<1> DEFINE e == [run |-> r, kind |-> "prepare", live |-> TRUE]
<1> USE DEF B!Prepare, B!Send, B!Set, B!EngineSide, B!DshSide
<1>1. e \in Calls /\ e.run = r /\ e.kind = "prepare"
  BY DEF Calls
<1>2. requests' = Append(requests, e) /\ step' = step /\ UNCHANGED lease
  OBVIOUS
<1>3. B!TypeOK'
  <2>1. losses' \in 0..MaxLosses
    BY LossesBounded
  <2>2. requests' \in Seq(Calls)
    BY <1>1, <1>2, AppendedCalls
  <2> HIDE DEF e
  <2> QED BY <2>1, <2>2 DEF BrokerIInv, B!TypeOK, Calls, B!Leased, B!Fresh
<1>4. Apart(r) /\ Leases(r)
  BY DEF BrokerIInv, B!TypeOK, Apart, Leases, B!Leased
<1>5. RunFits(r)' /\ RecordFits(r)'
  BY DEF BrokerIInv, B!TypeOK, RunFits, RecordFits, B!Leased, B!Fresh, Over
<1>6. \A q \in Calls : q.run = r /\ Asked(q) => Asked(q)'
  BY DEF BrokerIInv, B!TypeOK, Asked, RunFits, RecordFits
<1>7. \A q \in Calls : q.run = r /\ Within(q) => Within(q)'
  BY DEF BrokerIInv, B!TypeOK, Within, RunFits
<1>8. Asked(e)'
  BY <1>1 DEF BrokerIInv, B!TypeOK, Asked, RunFits
<1>9. e.kind = "prepare" => lease[r] = "none" /\ ~Asked(e)
  BY <1>1 DEF Asked
<1> HIDE DEF e, B!Prepare, B!Send
<1> QED BY <1>1, <1>2, <1>3, <1>4, <1>5, <1>6, <1>7, <1>8, <1>9, Sent DEF Fits

\* The handle could not be stored.
LEMMA StoreHandleFails == ASSUME BrokerIInv, NEW r \in Launches, B!StoreHandle(r), B!Send(r, "recovery") PROVE BrokerIInv'
<1> DEFINE e == [run |-> r, kind |-> "recovery", live |-> TRUE]
<1> USE DEF B!StoreHandle, B!Send, B!Set, B!EngineSide, B!DshSide
<1>0. B!Lose /\ process' = [process EXCEPT ![r] = "down"] /\ UNCHANGED handle
  BY DEF BrokerIInv, B!TypeOK
<1>1. e \in Calls /\ e.run = r /\ e.kind = "recovery"
  BY DEF Calls
<1>2. requests' = Append(requests, e) /\ step' = step /\ UNCHANGED lease
  OBVIOUS
<1>3. B!TypeOK'
  <2>1. losses' \in 0..MaxLosses
    BY <1>0, LossesBounded
  <2>2. requests' \in Seq(Calls)
    BY <1>1, <1>2, AppendedCalls
  <2> HIDE DEF e
  <2> QED BY <1>0, <2>1, <2>2 DEF BrokerIInv, B!TypeOK, Calls, B!Leased, B!Fresh
<1>4. Apart(r) /\ Leases(r)
  BY <1>0 DEF BrokerIInv, B!TypeOK, Apart, Leases, B!Leased
<1>5. RunFits(r)' /\ RecordFits(r)'
  BY <1>0 DEF BrokerIInv, B!TypeOK, RunFits, RecordFits, B!Leased, B!Fresh, Over
<1>6. \A q \in Calls : q.run = r /\ Asked(q) => Asked(q)'
  BY <1>0 DEF BrokerIInv, B!TypeOK, Asked, RunFits, RecordFits
<1>7. \A q \in Calls : q.run = r /\ Within(q) => Within(q)'
  BY <1>0 DEF BrokerIInv, B!TypeOK, Within, RunFits
<1>8. Asked(e)'
  BY <1>0, <1>1 DEF BrokerIInv, B!TypeOK, Asked, RunFits
<1>9. e.kind = "prepare" => lease[r] = "none" /\ ~Asked(e)
  BY <1>1 DEF Asked
<1> HIDE DEF e, B!StoreHandle, B!Send
<1> QED BY <1>1, <1>2, <1>3, <1>4, <1>5, <1>6, <1>7, <1>8, <1>9, Sent DEF Fits

\* DSH could not be spawned.
LEMMA AbortKeeps == ASSUME BrokerIInv, NEW r \in Launches, B!Abort(r) PROVE BrokerIInv'
<1> DEFINE e == [run |-> r, kind |-> "recovery", live |-> TRUE]
<1> USE DEF B!Abort, B!Send, B!Set, B!EngineSide, B!DshSide
<1>1. e \in Calls /\ e.run = r /\ e.kind = "recovery"
  BY DEF Calls
<1>2. requests' = Append(requests, e) /\ step' = step /\ UNCHANGED lease
  OBVIOUS
<1>3. B!TypeOK'
  <2>1. losses' \in 0..MaxLosses
    BY LossesBounded
  <2>2. requests' \in Seq(Calls)
    BY <1>1, <1>2, AppendedCalls
  <2> HIDE DEF e
  <2> QED BY <2>1, <2>2 DEF BrokerIInv, B!TypeOK, Calls, B!Leased, B!Fresh
<1>4. Apart(r) /\ Leases(r)
  BY DEF BrokerIInv, B!TypeOK, Apart, Leases, B!Leased
<1>5. RunFits(r)' /\ RecordFits(r)'
  BY DEF BrokerIInv, B!TypeOK, RunFits, RecordFits, B!Leased, B!Fresh, Over
<1>6. \A q \in Calls : q.run = r /\ Asked(q) => Asked(q)'
  BY DEF BrokerIInv, B!TypeOK, Asked, RunFits, RecordFits
<1>7. \A q \in Calls : q.run = r /\ Within(q) => Within(q)'
  BY DEF BrokerIInv, B!TypeOK, Within, RunFits
<1>8. Asked(e)'
  BY <1>1 DEF BrokerIInv, B!TypeOK, Asked, RunFits
<1>9. e.kind = "prepare" => lease[r] = "none" /\ ~Asked(e)
  BY <1>1 DEF Asked
<1> HIDE DEF e, B!Abort, B!Send
<1> QED BY <1>1, <1>2, <1>3, <1>4, <1>5, <1>6, <1>7, <1>8, <1>9, Sent DEF Fits

\* After the exit of DSH the run is closed or recovered.
LEMMA AfterExitKeeps == ASSUME BrokerIInv, NEW r \in Launches, B!AfterExit(r) PROVE BrokerIInv'
<1>0. PICK k \in {"normal", "recovery"} : k = IF handle[r].accepted /\ r \notin forced THEN "normal" ELSE "recovery"
  OBVIOUS
<1> DEFINE e == [run |-> r, kind |-> k, live |-> TRUE]
<1> USE DEF B!AfterExit, B!Send, B!Set, B!EngineSide, B!DshSide
<1>1. e \in Calls /\ e.run = r /\ e.kind = k
  BY DEF Calls
<1>2. requests' = Append(requests, e) /\ step' = step /\ UNCHANGED lease
  BY <1>0
<1>3. B!TypeOK'
  <2>1. losses' \in 0..MaxLosses
    BY LossesBounded
  <2>2. requests' \in Seq(Calls)
    BY <1>1, <1>2, AppendedCalls
  <2> HIDE DEF e
  <2> QED BY <2>1, <2>2 DEF BrokerIInv, B!TypeOK, Calls, B!Leased, B!Fresh
<1>4. Apart(r) /\ Leases(r)
  BY DEF BrokerIInv, B!TypeOK, Apart, Leases, B!Leased
<1>5. RunFits(r)' /\ RecordFits(r)'
  BY DEF BrokerIInv, B!TypeOK, RunFits, RecordFits, B!Leased, B!Fresh, Over
<1>6. \A q \in Calls : q.run = r /\ Asked(q) => Asked(q)'
  BY DEF BrokerIInv, B!TypeOK, Asked, RunFits, RecordFits
<1>7. \A q \in Calls : q.run = r /\ Within(q) => Within(q)'
  BY DEF BrokerIInv, B!TypeOK, Within, RunFits
<1>8. Asked(e)'
  BY <1>1 DEF BrokerIInv, B!TypeOK, Asked, RunFits
<1>9. e.kind = "prepare" => lease[r] = "none" /\ ~Asked(e)
  BY <1>1 DEF Asked
<1> HIDE DEF e, B!AfterExit, B!Send
<1> QED BY <1>1, <1>2, <1>3, <1>4, <1>5, <1>6, <1>7, <1>8, <1>9, Sent DEF Fits

\* The handle is stored, or the run is closed because it could not be.
LEMMA StoreHandleKeeps == ASSUME BrokerIInv, NEW r \in Launches, B!StoreHandle(r) PROVE BrokerIInv'
<1>1. CASE B!Send(r, "recovery")
  BY <1>1, StoreHandleFails
<1>2. CASE ~B!Send(r, "recovery")
  <2>0. /\ provider[r] = "patch" /\ handle' = [handle EXCEPT ![r] = B!Fresh]
        /\ provider' = [provider EXCEPT ![r] = "none"]
        /\ UNCHANGED <<requests, process, losses, lease, root, entry, drained, client, saved, forced, step, restarts>>
    BY <1>2 DEF B!StoreHandle, B!EngineSide, B!Set
  <2>1. B!TypeOK'
    BY <2>0 DEF BrokerIInv, B!TypeOK, B!Fresh, B!Leased
  <2>2. Apart(r) /\ Leases(r)
    BY <2>0 DEF BrokerIInv, B!TypeOK, Apart, Leases
  <2>3. RunFits(r)' /\ RecordFits(r)'
    BY <2>0 DEF BrokerIInv, B!TypeOK, RunFits, RecordFits, B!Fresh, Over
  <2>4. \A q \in Calls : q.run = r /\ Asked(q) => Asked(q)'
    BY <2>0 DEF BrokerIInv, B!TypeOK, Asked
  <2>5. \A q \in Calls : q.run = r /\ Within(q) => Within(q)'
    BY <2>0 DEF Within
  <2> QED BY <2>0, <2>1, <2>2, <2>3, <2>4, <2>5, Rested DEF Fits
<1> QED BY <1>1, <1>2

\* The calls of a provider that is gone have nobody to answer.
LEMMA DeafCalls ==
    ASSUME BrokerIInv, NEW r \in Launches
    PROVE  /\ B!Deaf(r) \in Seq(Calls) /\ Len(B!Deaf(r)) = Len(requests) /\ Len(requests) \in Nat
           /\ \A i \in 1..Len(requests) :
                 B!Deaf(r)[i].run = requests[i].run /\ B!Deaf(r)[i].kind = requests[i].kind
<1>1. requests \in Seq(Calls) /\ Len(requests) \in Nat /\ DOMAIN requests = 1..Len(requests)
  BY DEF BrokerIInv, B!TypeOK, Calls
<1>2. ASSUME NEW i \in 1..Len(requests)
      PROVE  /\ B!Deaf(r)[i] \in Calls
             /\ B!Deaf(r)[i].run = requests[i].run /\ B!Deaf(r)[i].kind = requests[i].kind
  <2>1. requests[i] \in Calls
    BY <1>1
  <2>2. [requests[i] EXCEPT !.live = FALSE] \in Calls
    BY <2>1 DEF Calls
  <2>3. B!Deaf(r)[i] = IF requests[i].run = r THEN [requests[i] EXCEPT !.live = FALSE] ELSE requests[i]
    BY <1>1 DEF B!Deaf
  <2> QED BY <2>1, <2>2, <2>3 DEF Calls
<1>3. B!Deaf(r) \in [1..Len(requests) -> Calls]
  <2>1. B!Deaf(r) = [i \in 1..Len(requests) |-> B!Deaf(r)[i]]
    BY <1>1 DEF B!Deaf
  <2> QED BY <1>2, <2>1
<1>4. B!Deaf(r) \in Seq(Calls) /\ Len(B!Deaf(r)) = Len(requests)
  BY <1>1, <1>3
<1> QED BY <1>1, <1>2, <1>4

\* The provider waits no longer.
LEMMA TimeoutKeeps == ASSUME BrokerIInv, NEW r \in Launches, B!Timeout(r) PROVE BrokerIInv'
<1> DEFINE d == B!Deaf(r)
           e == [run |-> r, kind |-> "recovery", live |-> TRUE]
<1>1. /\ d \in Seq(Calls) /\ Len(d) = Len(requests) /\ Len(requests) \in Nat
      /\ \A i \in 1..Len(requests) : d[i].run = requests[i].run /\ d[i].kind = requests[i].kind
  BY DeafCalls
<1>2. e \in Calls /\ e.run = r /\ e.kind = "recovery"
  BY DEF Calls
<1>3. /\ B!Disappointed(r, d) /\ provider[r] \in {"prepare", "normal", "recovery"} /\ B!Lose
      /\ UNCHANGED <<lease, root, entry, drained, client, saved, forced, handle, step, restarts>>
  BY DEF B!Timeout, B!EngineSide
<1> HIDE DEF d, e
<1>4. \/ /\ provider[r] = "normal" /\ provider' = [provider EXCEPT ![r] = "recovery"]
         /\ requests' = Append(d, e) /\ process' = process
      \/ /\ provider[r] = "prepare" /\ provider' = [provider EXCEPT ![r] = "none"]
         /\ requests' = d /\ process' = [process EXCEPT ![r] = "down"]
      \/ /\ provider[r] = "recovery" /\ provider' = [provider EXCEPT ![r] = "none"]
         /\ requests' = d /\ process' = process
  BY <1>3 DEF B!Disappointed, B!Set, e
<1>5. /\ Len(Append(d, e)) = Len(d) + 1 /\ Append(d, e)[Len(d) + 1] = e /\ Append(d, e) \in Seq(Calls)
      /\ \A i \in 1..Len(d) : Append(d, e)[i] = d[i]
  BY <1>1, <1>2, Put
<1>6. /\ requests' \in Seq(Calls) /\ Len(requests') \in {Len(requests), Len(requests) + 1}
      /\ \A i \in 1..Len(requests) : requests'[i].run = requests[i].run /\ requests'[i].kind = requests[i].kind
      /\ Len(requests') = Len(requests) + 1 => requests'[Len(requests) + 1] = e /\ process[r] = "down" /\ process' = process
  <2>1. provider[r] = "normal" => process[r] = "down"
    BY DEF BrokerIInv, RecordFits
  <2>2. CASE provider[r] = "normal"
    <3>1. requests' = Append(d, e) /\ process' = process /\ process[r] = "down"
      BY <1>4, <2>1, <2>2
    <3> QED BY <1>1, <1>5, <3>1
  <2>3. CASE provider[r] # "normal"
    <3>1. requests' = d /\ Len(requests) # Len(requests) + 1
      BY <1>1, <1>4, <2>3
    <3> QED BY <1>1, <3>1
  <2> QED BY <2>2, <2>3
<1>7. B!TypeOK'
  <2>1. losses' \in 0..MaxLosses
    BY <1>3, LossesBounded
  <2>2. requests' \in Seq(Calls)
    BY <1>6
  <2>3. provider' \in [Launches -> {"none", "prepare", "patch", "stop", "normal", "recovery", "writeClosed", "writeRecovered"}]
    <3>1. provider \in [Launches -> {"none", "prepare", "patch", "stop", "normal", "recovery", "writeClosed", "writeRecovered"}]
      BY DEF BrokerIInv, B!TypeOK
    <3>2. provider' = [provider EXCEPT ![r] = "recovery"] \/ provider' = [provider EXCEPT ![r] = "none"]
      BY <1>4
    <3> QED BY <3>1, <3>2
  <2>4. process' \in [Launches -> {"off", "up", "asked", "down"}]
    <3>1. process \in [Launches -> {"off", "up", "asked", "down"}]
      BY DEF BrokerIInv, B!TypeOK
    <3>2. process' = process \/ process' = [process EXCEPT ![r] = "down"]
      BY <1>4
    <3> QED BY <3>1, <3>2
  <2> QED BY <1>3, <2>1, <2>2, <2>3, <2>4 DEF BrokerIInv, B!TypeOK, Calls
<1>8. Apart(r) /\ Leases(r)
  BY <1>3, <1>4 DEF BrokerIInv, B!TypeOK, Apart, Leases
<1>9. process'[r] = process[r] \/ process'[r] = "down"
  BY <1>4 DEF BrokerIInv, B!TypeOK
<1>10. RunFits(r)'
  BY <1>3, <1>9 DEF BrokerIInv, RunFits
<1>11. RecordFits(r)'
  BY <1>3, <1>4 DEF BrokerIInv, B!TypeOK, RecordFits, Over
<1>12. \A q \in Calls : q.run = r /\ Asked(q) => Asked(q)'
  BY <1>3, <1>4 DEF BrokerIInv, B!TypeOK, Asked
<1>13. \A q \in Calls : q.run = r /\ Within(q) => Within(q)'
  BY <1>3 DEF Within
<1>14. CallsFit' /\ StepFits'
  <2>1. Grown
    BY <1>6 DEF Grown
  <2>2. ASSUME NEW q \in Calls, Len(requests') = Len(requests) + 1, q = requests'[Len(requests) + 1]
        PROVE  Asked(q)' /\ q.kind # "prepare"
    BY <1>2, <1>6, <2>2 DEF Asked
  <2> QED BY <1>3, <1>8, <1>12, <1>13, <2>1, <2>2, CallsGrow
<1> QED BY <1>7, <1>8, <1>10, <1>11, <1>14, Assembled DEF Fits

-----------------------------------------------------------------------------
(* The steps of the Engine.                                                *)

\* The first call goes on.
LEMMA Gone ==
    ASSUME BrokerIInv, NEW r \in Launches, B!TypeOK', Apart(r), Leases(r), Fits(r)', UNCHANGED requests,
           requests # <<>>, Head(requests).run = r, step' # "start",
           \A q \in Calls : q.run = r /\ Asked(q) => Asked(q)',
           \A q \in Calls : q = Head(requests) => Within(q)',
           Head(requests).kind = "prepare" \/ lease[r] # "none"
    PROVE  BrokerIInv'
<1>1. /\ requests \in Seq(Calls) /\ Len(requests) \in Nat /\ Len(requests) >= 1
      /\ Head(requests) = requests[1] /\ Head(requests) \in Calls
      /\ \A i \in 1..Len(requests) : requests[i] \in Calls
  <2>1. requests \in Seq(Calls)
    BY DEF BrokerIInv, B!TypeOK, Calls
  <2> QED BY <2>1, Taken
<1>2. \A q \in Calls : Asked(q) => Asked(q)'
  BY DEF Apart, Asked, Calls
<1>3. CallsFit'
  <2>1. ASSUME NEW i \in 1..Len(requests'), NEW q, q = requests'[i] PROVE Asked(q)'
    BY <1>1, <1>2, <2>1 DEF BrokerIInv, CallsFit
  <2>2. \A i, k \in 1..Len(requests') : requests'[i].kind = "prepare" /\ requests'[k].kind = "prepare"
                                         /\ requests'[i].run = requests'[k].run => i = k
    BY DEF BrokerIInv, CallsFit
  <2>3. ASSUME NEW i \in 1..Len(requests'), requests'[i].kind = "prepare", i > 1 \/ step' = "start"
        PROVE  lease'[requests'[i].run] = "none"
    <3>1. i \in 1..Len(requests) /\ requests[i] \in Calls /\ requests[i].kind = "prepare" /\ i > 1
      BY <1>1, <2>3
    <3>2. lease[requests[i].run] = "none" /\ requests[i].run \in Launches
      BY <3>1 DEF BrokerIInv, CallsFit, Calls
    <3>3. requests[i].run # r
      <4>1. 1 \in 1..Len(requests) /\ i # 1
        BY <1>1, <3>1
      <4> QED BY <1>1, <3>1, <3>2, <4>1 DEF BrokerIInv, CallsFit
    <3> QED BY <3>2, <3>3 DEF Apart
  <2> QED BY <2>1, <2>2, <2>3 DEF CallsFit
<1>4. StepFits'
  <2>1. \A q : q = Head(requests') => Within(q)'
    BY <1>1
  <2> QED BY <2>1 DEF StepFits
<1> QED BY <1>3, <1>4, Assembled

\* The first call, what it asks for and how far it has come.
LEMMA OfFirst ==
    ASSUME BrokerIInv, NEW r \in Launches, requests # <<>>, B!First.run = r
    PROVE  /\ Head(requests) \in Calls /\ Head(requests).run = r /\ Asked(Head(requests))
           /\ step # "start" => Within(Head(requests))
           /\ step = "start" /\ Head(requests).kind = "prepare" => lease[r] = "none"
<1>1. requests \in Seq(Calls)
  BY DEF BrokerIInv, B!TypeOK, Calls
<1>2. Head(requests) = requests[1] /\ Head(requests) \in Calls /\ 1 \in 1..Len(requests)
  BY <1>1, Taken
<1> QED BY <1>2 DEF BrokerIInv, CallsFit, StepFits, B!First

\* A call is refused; the row of its run may change.
LEMMA RefusedKeeps ==
    ASSUME BrokerIInv, NEW r \in Launches, requests # <<>>, B!First.run = r, B!Refuse(r), B!Lose \/ UNCHANGED losses,
           UNCHANGED <<root, entry, drained, client, saved, forced, handle, restarts>>,
           NEW v \in {lease[r], "quarantined", "recovery-required", "cleanup-pending"},
           lease' = [lease EXCEPT ![r] = v], v \in B!Leased => lease[r] \in B!Leased \/ ~B!Held(r),
           v # lease[r] => /\ lease[r] \notin Over /\ (process[r] = "down" \/ client[r] = "none")
                           /\ entry[r] = "prepared" => v \in B!Leased /\ process[r] = "down"
                           /\ Head(requests).kind = "prepare" \/ lease[r] # "none"
    PROVE  BrokerIInv'
<1>1. /\ step' = "start" /\ requests' \in Seq(Calls)
      /\ \/ requests' = Tail(requests)
         \/ \E e \in Calls : /\ e.run = r /\ e.kind = "recovery" /\ process'[r] = "down"
                             /\ requests' = Append(Tail(requests), e)
      /\ process' = process \/ process' = [process EXCEPT ![r] = "down"]
  BY Refused DEF B!First
<1>2. PICK w : /\ provider' = [provider EXCEPT ![r] = w]
               /\ w \in {provider[r], "none", "recovery"}
               /\ w = "recovery" => process'[r] = "down"
  BY Refused DEF B!First
<1>3. B!TypeOK'
  <2>1. losses' \in 0..MaxLosses
    BY LossesBounded
  <2>2. provider' \in [Launches -> {"none", "prepare", "patch", "stop", "normal", "recovery", "writeClosed", "writeRecovered"}]
    BY <1>2 DEF BrokerIInv, B!TypeOK
  <2>3. process' \in [Launches -> {"off", "up", "asked", "down"}]
    <3>1. process \in [Launches -> {"off", "up", "asked", "down"}]
      BY DEF BrokerIInv, B!TypeOK
    <3> QED BY <1>1, <3>1
  <2>4. lease' \in [Launches -> B!Leased \cup {"none", "quarantined", "closed", "recovered"}]
    <3>1. lease \in [Launches -> B!Leased \cup {"none", "quarantined", "closed", "recovered"}]
      BY DEF BrokerIInv, B!TypeOK
    <3> QED BY <3>1 DEF B!Leased
  <2>5. step' \in {"start", "lease", "work", "remove", "finish"}
    BY <1>1
  <2> QED BY <1>1, <2>1, <2>2, <2>3, <2>4, <2>5 DEF BrokerIInv, B!TypeOK, Calls
<1>4. lease'[r] = v /\ provider'[r] = w /\ process'[r] \in {process[r], "down"}
  BY <1>1, <1>2 DEF BrokerIInv, B!TypeOK
<1>5. Apart(r)
  BY <1>1, <1>2 DEF BrokerIInv, B!TypeOK, Apart
<1>6. Leases(r)
  BY <1>4 DEF Leases
<1>7. RunFits(r) /\ RecordFits(r)
  BY DEF BrokerIInv
<1>8. RunFits(r)'
  <2>1. CASE v = lease[r]
    BY <1>4, <1>7, <2>1 DEF RunFits
  <2>2. CASE v # lease[r]
    BY <1>4, <1>7, <2>2 DEF RunFits, Over, B!Leased
  <2> QED BY <2>1, <2>2
<1>9. RecordFits(r)'
  <2>1. CASE v = lease[r]
    BY <1>2, <1>4, <1>7, <2>1 DEF RecordFits, Over
  <2>2. CASE v # lease[r]
    BY <1>2, <1>4, <1>7, <2>2 DEF RecordFits, Over
  <2> QED BY <2>1, <2>2
<1>10. /\ process[r] = "down" => process'[r] = "down"
       /\ client'[r] = client[r]
       /\ Head(requests).kind # "prepare" =>
             entry'[r] \in {entry[r], "none"} /\ (lease[r] = "none" /\ entry[r] = "none" => lease'[r] = "none")
  BY <1>4
<1>11. Head(requests).run = r
  BY DEF B!First
<1> QED BY <1>1, <1>3, <1>5, <1>6, <1>8, <1>9, <1>10, <1>11, Popped DEF Fits

\* A run is prepared: it has the lease, or is refused it.
LEMMA TakeLeaseKeeps == ASSUME BrokerIInv, NEW r \in Launches, B!TakeLease(r) PROVE BrokerIInv'
<1>1. /\ requests # <<>> /\ B!First.run = r /\ B!First = Head(requests) /\ Head(requests).kind = "prepare"
      /\ step = "start" /\ UNCHANGED <<root, entry, drained, client, saved, forced, handle, restarts>>
  BY DEF B!TakeLease, B!Doing, B!Elsewhere, B!First
<1>2. /\ Head(requests) \in Calls /\ Head(requests).run = r /\ Asked(Head(requests)) /\ lease[r] = "none"
  BY <1>1, OfFirst
<1>3. RunFits(r) /\ RecordFits(r)
  BY DEF BrokerIInv
<1>4. root[r] = "none" /\ entry[r] = "none" /\ client[r] = "none" /\ process[r] \in {"off", "down"}
  BY <1>1, <1>2, <1>3 DEF RunFits, Asked
<1>5. CASE B!Held(r)
  <2>1. lease' = [lease EXCEPT ![r] = "quarantined"] /\ B!Refuse(r) /\ UNCHANGED losses
    BY <1>5 DEF B!TakeLease, B!Set
  <2>2. "quarantined" \notin B!Leased /\ lease[r] \notin Over /\ entry[r] # "prepared"
    BY <1>2, <1>4 DEF B!Leased, Over
  <2>3. "quarantined" \in {lease[r], "quarantined", "recovery-required", "cleanup-pending"}
    OBVIOUS
  <2> QED BY <1>1, <1>2, <1>4, <2>1, <2>2, <2>3, RefusedKeeps
<1>6. CASE ~B!Held(r)
  <2>1. /\ lease' = [lease EXCEPT ![r] = "preparing"] /\ step' = "work"
        /\ UNCHANGED <<requests, provider, process, losses>>
    BY <1>6 DEF B!TakeLease, B!Set, B!Go
  <2>2. B!TypeOK'
    BY <1>1, <2>1 DEF BrokerIInv, B!TypeOK, B!Leased
  <2>3. Apart(r) /\ Leases(r)
    BY <1>1, <1>6, <2>1 DEF BrokerIInv, B!TypeOK, Apart, Leases
  <2>4. lease'[r] = "preparing"
    BY <2>1 DEF BrokerIInv, B!TypeOK
  <2>5. RunFits(r)'
    BY <1>1, <1>3, <1>4, <2>1, <2>4 DEF RunFits, B!Leased, Over
  <2>6. RecordFits(r)'
    BY <1>1, <1>2, <1>3, <2>1, <2>4 DEF RecordFits, Over
  <2>7. \A q \in Calls : q.run = r /\ Asked(q) => Asked(q)'
    BY <1>1, <2>1 DEF Asked
  <2>8. \A q \in Calls : q = Head(requests) => Within(q)'
    BY <1>1, <1>2, <1>4, <2>1, <2>4 DEF Within
  <2> QED BY <1>1, <1>2, <2>1, <2>2, <2>3, <2>5, <2>6, <2>7, <2>8, Gone DEF Fits
<1> QED BY <1>5, <1>6

\* The run's directory is made, and the provider is answered.
LEMMA MaterializeKeeps == ASSUME BrokerIInv, NEW r \in Launches, B!Materialize(r) PROVE BrokerIInv'
<1>1. /\ requests # <<>> /\ B!First.run = r /\ B!First = Head(requests) /\ Head(requests).kind = "prepare"
      /\ step # "start" /\ UNCHANGED <<drained, client, saved, forced, handle, restarts>>
  BY DEF B!Materialize, B!Doing, B!Elsewhere, B!First
<1>2. /\ Head(requests) \in Calls /\ Head(requests).run = r /\ Asked(Head(requests)) /\ Within(Head(requests))
  BY <1>1, OfFirst
<1>3. RunFits(r) /\ RecordFits(r)
  BY DEF BrokerIInv
<1>4. /\ lease[r] = "preparing" /\ entry[r] = "none" /\ client[r] = "none" /\ process[r] \in {"off", "down"}
      /\ step = "finish" => root[r] = "there"
  BY <1>1, <1>2 DEF Within, Asked
<1>5. ASSUME NEW v \in {"partial", "there"}, step = "work", root' = [root EXCEPT ![r] = v], UNCHANGED <<lease, entry>>,
             step' = IF v = "partial" THEN "work" ELSE "finish", UNCHANGED <<requests, provider, process, losses>>
      PROVE  BrokerIInv'
  <2>1. B!TypeOK'
    BY <1>1, <1>5 DEF BrokerIInv, B!TypeOK
  <2>2. Apart(r) /\ Leases(r)
    BY <1>1, <1>5 DEF BrokerIInv, B!TypeOK, Apart, Leases
  <2>3. root'[r] = v
    BY <1>5 DEF BrokerIInv, B!TypeOK
  <2>4. RunFits(r)' /\ RecordFits(r)'
    BY <1>1, <1>3, <1>4, <1>5, <2>3 DEF RunFits, RecordFits, Over
  <2>5. \A q \in Calls : q.run = r /\ Asked(q) => Asked(q)'
    BY <1>1, <1>5 DEF Asked
  <2>6. \A q \in Calls : q = Head(requests) => Within(q)'
    BY <1>1, <1>2, <1>4, <1>5, <2>3 DEF Within
  <2>7. step' # "start"
    BY <1>5
  <2> QED BY <1>1, <1>2, <1>5, <2>1, <2>2, <2>4, <2>5, <2>6, <2>7, Gone DEF Fits
<1>6. CASE B!Lose /\ lease' = [lease EXCEPT ![r] = "quarantined"] /\ B!Refuse(r) /\ UNCHANGED <<root, entry>>
  <2>1. "quarantined" \notin B!Leased /\ lease[r] \notin Over /\ entry[r] # "prepared"
    BY <1>4 DEF B!Leased, Over
  <2>2. "quarantined" \in {lease[r], "quarantined", "recovery-required", "cleanup-pending"}
    OBVIOUS
  <2> QED BY <1>1, <1>4, <1>6, <2>1, <2>2, RefusedKeeps
<1>7. CASE step = "finish" /\ entry' = [entry EXCEPT ![r] = "prepared"] /\ B!Answer(r, "patch") /\ UNCHANGED <<lease, root>>
  <2>1. /\ step' = "start" /\ requests' = Tail(requests) /\ UNCHANGED <<process, losses>>
        /\ provider' = [provider EXCEPT ![r] = "patch"] \/ provider' = provider
    BY <1>7 DEF B!Answer, B!Set
  <2>2. B!TypeOK'
    <3>1. requests' \in Seq(Calls)
      <4>1. requests \in Seq(Calls)
        BY DEF BrokerIInv, B!TypeOK, Calls
      <4> QED BY <1>1, <2>1, <4>1, Taken
    <3>2. provider' \in [Launches -> {"none", "prepare", "patch", "stop", "normal", "recovery", "writeClosed", "writeRecovered"}]
      <4>1. provider \in [Launches -> {"none", "prepare", "patch", "stop", "normal", "recovery", "writeClosed", "writeRecovered"}]
        BY DEF BrokerIInv, B!TypeOK
      <4> QED BY <2>1, <4>1
    <3> QED BY <1>1, <1>7, <2>1, <3>1, <3>2 DEF BrokerIInv, B!TypeOK, Calls
  <2>3. Apart(r) /\ Leases(r)
    BY <1>1, <1>7, <2>1 DEF BrokerIInv, B!TypeOK, Apart, Leases
  <2>4. entry'[r] = "prepared" /\ provider'[r] \in {"patch", provider[r]}
    BY <1>7, <2>1 DEF BrokerIInv, B!TypeOK
  <2>5. RunFits(r)'
    BY <1>1, <1>3, <1>4, <1>7, <2>1, <2>4 DEF RunFits, B!Leased, Over
  <2>6. RecordFits(r)'
    BY <1>1, <1>3, <1>7, <2>1, <2>4 DEF RecordFits, Over
  <2> QED BY <1>1, <2>1, <2>2, <2>3, <2>5, <2>6, Popped DEF Fits
<1>8. CASE step = "work" /\ root' = [root EXCEPT ![r] = "partial"] /\ B!Go("work") /\ UNCHANGED <<lease, entry>>
  <2>1. "partial" \in {"partial", "there"} /\ "partial" = "partial"
    OBVIOUS
  <2> QED BY <1>5, <1>8, <2>1 DEF B!Go
<1>9. CASE step = "work" /\ root' = [root EXCEPT ![r] = "there"] /\ B!Go("finish") /\ UNCHANGED <<lease, entry>>
  <2>1. "there" \in {"partial", "there"} /\ "there" # "partial"
    OBVIOUS
  <2> QED BY <1>5, <1>9, <2>1 DEF B!Go
<1> QED BY <1>6, <1>7, <1>8, <1>9 DEF B!Materialize, B!Set

\* What a close or a recovery finds when it begins.
LEMMA MayBegin ==
    ASSUME BrokerIInv, NEW r \in Launches
    PROVE  /\ B!MayClose(r) => /\ client[r] = "drained" /\ r \notin saved /\ root[r] = "there" /\ lease[r] # "none"
                               /\ lease[r] \in B!Leased \/ ~B!Held(r)
           /\ B!MayDiscard(r) => /\ r \notin saved /\ root[r] = "there" /\ lease[r] \in B!Leased
           /\ B!MayRecover(r) => /\ root[r] = "there" /\ entry[r] \in {"none", "attached"} /\ lease[r] # "none"
                                 /\ lease[r] \in B!Leased \/ ~B!Held(r)
<1>1. RunFits(r) /\ entry[r] \in {"none", "prepared", "attached", "stuck"}
  BY DEF BrokerIInv, B!TypeOK
<1> QED BY <1>1 DEF RunFits, B!MayClose, B!MayDiscard, B!MayRecover, B!MayLease, B!NeverAttached, B!Leased

\* A close or a recovery begins, or is refused.
LEMMA BeginKeeps == ASSUME BrokerIInv, NEW r \in Launches, B!Begin(r) PROVE BrokerIInv'
<1>1. /\ requests # <<>> /\ B!First.run = r /\ B!First = Head(requests) /\ Head(requests).kind \in {"normal", "recovery"}
      /\ step = "start" /\ UNCHANGED <<root, entry, drained, client, saved, forced, handle, restarts>>
  BY DEF B!Begin, B!Doing, B!Elsewhere, B!First
<1>2. Head(requests) \in Calls /\ Head(requests).run = r /\ Asked(Head(requests))
  BY <1>1, OfFirst
<1>3. RunFits(r) /\ RecordFits(r) /\ process[r] = "down" /\ entry[r] \in {"none", "prepared", "attached", "stuck"}
  BY <1>1, <1>2 DEF BrokerIInv, B!TypeOK, Asked
<1>4. ASSUME NEW v \in {"draining", "recovering"}, NEW at \in {"work", "remove"},
             lease' = [lease EXCEPT ![r] = v], B!Go(at), root[r] = "there", lease[r] # "none",
             lease[r] \in B!Leased \/ ~B!Held(r),
             v = "draining" => Head(requests).kind = "normal" /\ r \in drained /\ at = "remove",
             v = "recovering" => Head(requests).kind = "recovery",
             at = "work" => entry[r] \in {"none", "attached"}, at = "remove" => r \notin saved
      PROVE  BrokerIInv'
  <2>1. step' = at /\ UNCHANGED <<requests, provider, process, losses>>
    BY <1>4 DEF B!Go
  <2>2. B!TypeOK'
    <3>1. lease' \in [Launches -> B!Leased \cup {"none", "quarantined", "closed", "recovered"}]
      <4>1. lease \in [Launches -> B!Leased \cup {"none", "quarantined", "closed", "recovered"}]
        BY DEF BrokerIInv, B!TypeOK
      <4> QED BY <1>4, <4>1 DEF B!Leased
    <3> QED BY <1>1, <2>1, <3>1 DEF BrokerIInv, B!TypeOK
  <2>3. lease'[r] = v
    BY <1>4 DEF BrokerIInv, B!TypeOK
  <2>4. Apart(r) /\ Leases(r)
    BY <1>1, <1>4, <2>1, <2>3 DEF BrokerIInv, B!TypeOK, Apart, Leases
  <2>5. RunFits(r)'
    BY <1>1, <1>3, <1>4, <2>1, <2>3 DEF RunFits, B!Leased, Over
  <2>6. RecordFits(r)'
    BY <1>1, <1>3, <1>4, <2>1, <2>3 DEF RunFits, RecordFits, Over
  <2>7. \A q \in Calls : q.run = r /\ Asked(q) => Asked(q)'
    BY <1>1, <2>1 DEF Asked
  <2>8. \A q \in Calls : q = Head(requests) => Within(q)'
    BY <1>1, <1>2, <1>4, <2>1, <2>3 DEF Within
  <2>9. step' # "start"
    BY <2>1
  <2> QED BY <1>1, <1>2, <1>4, <2>1, <2>2, <2>4, <2>5, <2>6, <2>7, <2>8, <2>9, Gone DEF Fits
<1>5. CASE B!Doing(r, "normal") /\ B!MayClose(r) /\ lease' = [lease EXCEPT ![r] = "draining"] /\ B!Go("remove")
  <2>1. /\ r \in drained /\ r \notin saved /\ root[r] = "there" /\ lease[r] # "none"
        /\ lease[r] \in B!Leased \/ ~B!Held(r)
    BY <1>5, MayBegin DEF B!MayClose
  <2>2. Head(requests).kind = "normal"
    BY <1>5 DEF B!Doing, B!First
  <2> QED BY <1>4, <1>5, <2>1, <2>2
<1>6. CASE B!Doing(r, "recovery") /\ B!MayDiscard(r) /\ lease' = [lease EXCEPT ![r] = "recovering"] /\ B!Go("remove")
  <2>1. r \notin saved /\ root[r] = "there" /\ lease[r] # "none" /\ lease[r] \in B!Leased
    BY <1>6, MayBegin DEF B!Leased
  <2>2. Head(requests).kind = "recovery"
    BY <1>6 DEF B!Doing, B!First
  <2> QED BY <1>4, <1>6, <2>1, <2>2
<1>7. CASE B!Doing(r, "recovery") /\ B!MayRecover(r) /\ lease' = [lease EXCEPT ![r] = "recovering"] /\ B!Go("work")
  <2>1. /\ entry[r] \in {"none", "attached"} /\ root[r] = "there" /\ lease[r] # "none"
        /\ lease[r] \in B!Leased \/ ~B!Held(r)
    BY <1>7, MayBegin
  <2>2. Head(requests).kind = "recovery"
    BY <1>7 DEF B!Doing, B!First
  <2> QED BY <1>4, <1>7, <2>1, <2>2
<1>8. CASE B!Refuse(r) /\ UNCHANGED losses /\ lease' = B!LeftToRecovery(r) /\ entry[r] = "attached" /\ B!MayLease(r)
  <2>1. lease' = [lease EXCEPT ![r] = "recovery-required"] /\ (lease[r] \in B!Leased \/ ~B!Held(r))
    BY <1>8 DEF B!LeftToRecovery, B!Set, B!MayLease
  <2>2. lease[r] \notin Over /\ lease[r] # "none" /\ entry[r] # "prepared"
    BY <1>3, <1>8 DEF RunFits
  <2>3. "recovery-required" \in {lease[r], "quarantined", "recovery-required", "cleanup-pending"}
    OBVIOUS
  <2> QED BY <1>1, <1>3, <1>8, <2>1, <2>2, <2>3, RefusedKeeps
<1>9. CASE B!Refuse(r) /\ UNCHANGED losses /\ lease' = lease
  <2>1. lease' = [lease EXCEPT ![r] = lease[r]] /\ (lease[r] \in B!Leased => lease[r] \in B!Leased)
    BY <1>9 DEF BrokerIInv, B!TypeOK
  <2>2. lease[r] \in {lease[r], "quarantined", "recovery-required", "cleanup-pending"}
    OBVIOUS
  <2> QED BY <1>1, <1>9, <2>1, <2>2, RefusedKeeps
<1>10. \/ B!Doing(r, "normal") /\ B!MayClose(r) /\ lease' = [lease EXCEPT ![r] = "draining"] /\ B!Go("remove")
       \/ B!Doing(r, "recovery") /\ B!MayDiscard(r) /\ lease' = [lease EXCEPT ![r] = "recovering"] /\ B!Go("remove")
       \/ B!Doing(r, "recovery") /\ B!MayRecover(r) /\ lease' = [lease EXCEPT ![r] = "recovering"] /\ B!Go("work")
       \/ B!Refuse(r) /\ UNCHANGED losses /\ (lease' = lease \/ lease' = B!LeftToRecovery(r))
  BY DEF B!Begin, B!Set
<1>11. lease' = B!LeftToRecovery(r) => lease' = lease \/ (entry[r] = "attached" /\ B!MayLease(r))
  BY DEF B!LeftToRecovery
<1> QED BY <1>5, <1>6, <1>7, <1>8, <1>9, <1>10, <1>11

\* What DSH stored beyond the committed prefix becomes canonical.
LEMMA RecoverSavedKeeps == ASSUME BrokerIInv, NEW r \in Launches, B!RecoverSaved(r) PROVE BrokerIInv'
<1>1. /\ requests # <<>> /\ B!First.run = r /\ B!First = Head(requests) /\ Head(requests).kind = "recovery"
      /\ step = "work" /\ step' = "remove" /\ saved' = saved \ {r}
      /\ UNCHANGED <<lease, root, entry, drained, client, forced, handle, restarts, requests, provider, process, losses>>
  BY DEF B!RecoverSaved, B!Doing, B!Elsewhere, B!First, B!EngineSide, B!Go
<1>2. /\ Head(requests) \in Calls /\ Head(requests).run = r /\ Within(Head(requests))
  BY <1>1, OfFirst
<1>3. lease[r] = "recovering" /\ root[r] = "there"
  BY <1>1, <1>2 DEF Within
<1>4. B!TypeOK'
  BY <1>1 DEF BrokerIInv, B!TypeOK
<1>5. Apart(r) /\ Leases(r)
  BY <1>1 DEF Apart, Leases
<1>6. RunFits(r)' /\ RecordFits(r)'
  BY <1>1 DEF BrokerIInv, RunFits, RecordFits
<1>7. \A q \in Calls : q.run = r /\ Asked(q) => Asked(q)'
  BY <1>1 DEF Asked
<1>8. \A q \in Calls : q = Head(requests) => Within(q)'
  BY <1>1, <1>2, <1>3 DEF Within
<1> QED BY <1>1, <1>2, <1>3, <1>4, <1>5, <1>6, <1>7, <1>8, Gone DEF Fits

\* The run's directory is removed.
LEMMA RemoveDirectoryKeeps == ASSUME BrokerIInv, NEW r \in Launches, B!RemoveDirectory(r) PROVE BrokerIInv'
<1>1. /\ requests # <<>> /\ B!First.run = r /\ B!First = Head(requests)
      /\ step = "remove" /\ step' = "finish" /\ root' = [root EXCEPT ![r] = "removed"]
      /\ UNCHANGED <<lease, entry, drained, client, saved, forced, handle, restarts, requests, provider, process, losses>>
  BY DEF B!RemoveDirectory, B!Elsewhere, B!First, B!Go, B!Set
<1>2. /\ Head(requests) \in Calls /\ Head(requests).run = r /\ Asked(Head(requests)) /\ Within(Head(requests))
  BY <1>1, OfFirst
<1>3. /\ Head(requests).kind # "prepare" /\ r \notin saved /\ process[r] = "down"
      /\ lease[r] = IF Head(requests).kind = "normal" THEN "draining" ELSE "recovering"
      /\ Head(requests).kind = "normal" => r \in drained
  BY <1>1, <1>2 DEF Within, Asked
<1>4. B!TypeOK'
  BY <1>1 DEF BrokerIInv, B!TypeOK
<1>5. Apart(r) /\ Leases(r)
  BY <1>1 DEF BrokerIInv, B!TypeOK, Apart, Leases
<1>6. root'[r] = "removed"
  BY <1>1 DEF BrokerIInv, B!TypeOK
<1>7. RunFits(r) /\ RecordFits(r)
  BY DEF BrokerIInv
<1>8. RunFits(r)' /\ RecordFits(r)'
  BY <1>1, <1>3, <1>6, <1>7 DEF RunFits, RecordFits, Over
<1>9. \A q \in Calls : q.run = r /\ Asked(q) => Asked(q)'
  BY <1>1 DEF Asked
<1>10. \A q \in Calls : q = Head(requests) => Within(q)'
  BY <1>1, <1>2, <1>3, <1>6 DEF Within
<1>11. lease[r] # "none" /\ step' # "start"
  BY <1>1, <1>3
<1> QED BY <1>1, <1>2, <1>4, <1>5, <1>8, <1>9, <1>10, <1>11, Gone DEF Fits

\* A close or a recovery is done.
LEMMA FinishKeeps == ASSUME BrokerIInv, NEW r \in Launches, B!Finish(r) PROVE BrokerIInv'
<1> DEFINE k == Head(requests).kind
           end == IF k = "normal" THEN "closed" ELSE "recovered"
           note == IF k = "normal" THEN "writeClosed" ELSE "writeRecovered"
<1>1. /\ requests # <<>> /\ B!First.run = r /\ B!First = Head(requests) /\ k # "prepare" /\ step = "finish"
      /\ lease' = [lease EXCEPT ![r] = end] /\ entry' = [entry EXCEPT ![r] = "none"] /\ drained' = drained \ {r}
      /\ step' = "start" /\ requests' = Tail(requests)
      /\ provider' = [provider EXCEPT ![r] = note] \/ provider' = provider
      /\ UNCHANGED <<root, client, saved, forced, handle, restarts, process, losses>>
  BY DEF B!Finish, B!Elsewhere, B!First, B!Answer, B!Set
<1>2. /\ Head(requests) \in Calls /\ Head(requests).run = r /\ Asked(Head(requests)) /\ Within(Head(requests))
  BY <1>1, OfFirst
<1>3. /\ root[r] = "removed" /\ r \notin saved /\ process[r] = "down"
      /\ lease[r] = IF k = "normal" THEN "draining" ELSE "recovering"
      /\ k = "normal" => r \in drained
  BY <1>1, <1>2 DEF Within, Asked
<1>4. end \in Over /\ note \in {"writeClosed", "writeRecovered"} /\ (end = "closed" <=> k = "normal")
      /\ (note = "writeClosed" <=> end = "closed")
  BY DEF Over
<1> HIDE DEF end, note, k
<1>5. B!TypeOK'
  <2>1. requests' \in Seq(Calls)
    <3>1. requests \in Seq(Calls)
      BY DEF BrokerIInv, B!TypeOK, Calls
    <3> QED BY <1>1, <3>1, Taken
  <2>2. provider' \in [Launches -> {"none", "prepare", "patch", "stop", "normal", "recovery", "writeClosed", "writeRecovered"}]
    <3>1. provider \in [Launches -> {"none", "prepare", "patch", "stop", "normal", "recovery", "writeClosed", "writeRecovered"}]
      BY DEF BrokerIInv, B!TypeOK
    <3> QED BY <1>1, <1>4, <3>1
  <2>3. lease' \in [Launches -> B!Leased \cup {"none", "quarantined", "closed", "recovered"}]
    <3>1. lease \in [Launches -> B!Leased \cup {"none", "quarantined", "closed", "recovered"}]
      BY DEF BrokerIInv, B!TypeOK
    <3> QED BY <1>1, <1>4, <3>1 DEF Over
  <2> QED BY <1>1, <2>1, <2>2, <2>3 DEF BrokerIInv, B!TypeOK, Calls
<1>6. lease'[r] = end /\ entry'[r] = "none" /\ provider'[r] \in {note, provider[r]}
  BY <1>1 DEF BrokerIInv, B!TypeOK
<1>7. Apart(r)
  BY <1>1 DEF BrokerIInv, B!TypeOK, Apart
<1>8. Leases(r)
  BY <1>4, <1>6 DEF Leases, B!Leased, Over
<1>9. RunFits(r) /\ RecordFits(r)
  BY DEF BrokerIInv
<1>10. RunFits(r)'
  BY <1>1, <1>3, <1>4, <1>6, <1>9 DEF RunFits, Over
<1>11. RecordFits(r)'
  BY <1>1, <1>3, <1>4, <1>6, <1>9 DEF RecordFits, Over
<1>12. Head(requests).run = r /\ client'[r] = client[r] /\ process'[r] = process[r] /\ lease[r] # "none"
  BY <1>1, <1>3
<1> QED BY <1>1, <1>5, <1>6, <1>7, <1>8, <1>10, <1>11, <1>12, Popped DEF Fits

\* A close or a recovery fails.
LEMMA FailKeeps == ASSUME BrokerIInv, NEW r \in Launches, B!Fail(r) PROVE BrokerIInv'
<1>1. /\ requests # <<>> /\ B!First.run = r /\ B!First = Head(requests) /\ Head(requests).kind # "prepare"
      /\ step \in {"work", "remove", "finish"} /\ B!Lose /\ B!Refuse(r)
      /\ UNCHANGED <<root, entry, drained, client, saved, forced, handle, restarts>>
      /\ \/ lease' = [lease EXCEPT ![r] = "recovery-required"]
         \/ lease' = [lease EXCEPT ![r] = "cleanup-pending"]
         \/ step = "work" /\ lease' = [lease EXCEPT ![r] = "quarantined"]
  BY DEF B!Fail, B!Elsewhere, B!First, B!Set
<1>2. /\ Head(requests) \in Calls /\ Head(requests).run = r /\ Asked(Head(requests)) /\ Within(Head(requests))
  BY <1>1, OfFirst
<1>3. /\ lease[r] \in {"draining", "recovering"} /\ process[r] = "down"
      /\ step = "work" => entry[r] # "prepared"
  BY <1>1, <1>2 DEF Within, Asked
<1>4. lease[r] \in B!Leased /\ lease[r] \notin Over /\ lease[r] # "none"
  BY <1>3 DEF B!Leased, Over
<1>5. PICK v \in {"recovery-required", "cleanup-pending", "quarantined"} :
         lease' = [lease EXCEPT ![r] = v] /\ (v = "quarantined" => step = "work")
  BY <1>1
<1>6. v \in {lease[r], "quarantined", "recovery-required", "cleanup-pending"}
  OBVIOUS
<1>7. v = "quarantined" \/ v \in B!Leased
  BY DEF B!Leased
<1> QED BY <1>1, <1>3, <1>4, <1>5, <1>6, <1>7, RefusedKeeps

\* The Engine is started again: what is asked of it is a recovery of what was to be closed.
LEMMA EngineDiesKeeps == ASSUME BrokerIInv, B!EngineDies PROVE BrokerIInv'
<1> DEFINE W == {r \in Launches : provider[r] = "normal"}
<1>1. PICK again \in B!SetToSeqs(W) :
         requests' = [i \in DOMAIN again |-> [run |-> again[i], kind |-> "recovery", live |-> TRUE]]
  BY DEF B!EngineDies
<1>2. /\ restarts < MaxRestarts /\ restarts' = restarts + 1
      /\ entry' = [r \in Launches |-> "none"] /\ drained' = {} /\ step' = "start"
      /\ UNCHANGED <<lease, root, client, saved, forced, handle, losses>>
  BY DEF B!EngineDies
<1>3. /\ provider' = [r \in Launches |-> IF provider[r] = "normal" THEN "recovery"
                                           ELSE IF provider[r] \in {"prepare", "recovery"} THEN "none"
                                           ELSE provider[r]]
      /\ process' = [r \in Launches |-> IF provider[r] = "prepare" THEN "down" ELSE process[r]]
  BY DEF B!EngineDies
<1>4. /\ again \in Seq(W) /\ Len(again) \in Nat /\ DOMAIN again = 1..Len(again)
  <2>1. IsFiniteSet(W) /\ Cardinality(W) \in Nat
    BY LaunchAssumption, FS_Subset, FS_CardinalityType DEF LaunchAssumption
  <2>2. again \in [1..Cardinality(W) -> W]
    BY DEF B!SetToSeqs, B!Cardinality, Cardinality
  <2> HIDE DEF W
  <2> QED BY <2>1, <2>2
<1>5. \A r \in W : process[r] = "down" /\ r \in Launches
  BY DEF BrokerIInv, RecordFits
<1>6. /\ requests' \in Seq(Calls) /\ Len(requests') = Len(again)
      /\ \A i \in 1..Len(requests') : requests'[i].kind = "recovery" /\ requests'[i].run \in W
  <2> HIDE DEF W
  <2>1. requests' \in [1..Len(again) -> Calls]
    BY <1>1, <1>4, <1>5 DEF Calls
  <2>2. \A i \in 1..Len(again) : requests'[i] = [run |-> again[i], kind |-> "recovery", live |-> TRUE] /\ again[i] \in W
    BY <1>1, <1>4
  <2>3. requests' \in Seq(Calls) /\ Len(requests') = Len(again)
    BY <1>4, <2>1
  <2>4. ASSUME NEW i \in 1..Len(again) PROVE requests'[i].kind = "recovery" /\ requests'[i].run \in W
    <3>1. requests'[i] = [run |-> again[i], kind |-> "recovery", live |-> TRUE] /\ again[i] \in W
      BY <2>2
    <3>2. requests'[i].kind = "recovery" /\ requests'[i].run = again[i]
      BY <3>1
    <3> QED BY <3>1, <3>2
  <2> QED BY <2>3, <2>4
<1>7. B!TypeOK'
  <2>1. restarts' \in 0..MaxRestarts
    BY <1>2, LaunchAssumption DEF BrokerIInv, B!TypeOK, LaunchAssumption
  <2>2. provider' \in [Launches -> {"none", "prepare", "patch", "stop", "normal", "recovery", "writeClosed", "writeRecovered"}]
    BY <1>3 DEF BrokerIInv, B!TypeOK
  <2>3. process' \in [Launches -> {"off", "up", "asked", "down"}]
    BY <1>3 DEF BrokerIInv, B!TypeOK
  <2> QED BY <1>2, <1>6, <2>1, <2>2, <2>3 DEF BrokerIInv, B!TypeOK, Calls
<1>8. ASSUME NEW r \in Launches PROVE RunFits(r)' /\ RecordFits(r)'
  <2>1. RunFits(r) /\ RecordFits(r)
    BY DEF BrokerIInv
  <2>2. process'[r] \in {process[r], "down"} /\ entry'[r] = "none"
        /\ provider'[r] = IF provider[r] = "normal" THEN "recovery"
                          ELSE IF provider[r] \in {"prepare", "recovery"} THEN "none" ELSE provider[r]
    BY <1>2, <1>3
  <2>3. RunFits(r)'
    BY <1>2, <2>1, <2>2 DEF RunFits
  <2>4. RecordFits(r)'
    BY <1>2, <2>1, <2>2 DEF RecordFits
  <2> QED BY <2>3, <2>4
<1>9. OneLease' /\ StepFits'
  BY <1>2 DEF BrokerIInv, OneLease, StepFits
<1>10. CallsFit'
  <2>1. ASSUME NEW i \in 1..Len(requests'), NEW q, q = requests'[i] PROVE Asked(q)' /\ q.kind # "prepare"
    <3>1. q.kind = "recovery" /\ q.run \in Launches /\ process[q.run] = "down"
      BY <1>5, <1>6, <2>1
    <3>2. process'[q.run] = "down"
      BY <1>3, <3>1
    <3> QED BY <3>1, <3>2 DEF Asked
  <2> QED BY <2>1 DEF CallsFit
<1> QED BY <1>7, <1>8, <1>9, <1>10 DEF BrokerIInv

-----------------------------------------------------------------------------
(* Any number of launches, restarts and lost calls.                        *)

LEMMA BrokerStep == ASSUME BrokerIInv, B!Next PROVE BrokerIInv'
<1>1. ASSUME NEW r \in Launches,
             B!Prepare(r) \/ B!StoreHandle(r) \/ B!Spawn(r) \/ B!Abort(r) \/ B!BeforeStop(r) \/ B!StoreAcceptance(r)
             \/ B!AfterExit(r) \/ B!StoreReceipt(r) \/ B!Timeout(r) \/ B!ProviderDies(r)
      PROVE  BrokerIInv'
  BY <1>1, PrepareKeeps, StoreHandleKeeps, SpawnKeeps, AbortKeeps, BeforeStopKeeps, StoreAcceptanceKeeps,
     AfterExitKeeps, StoreReceiptKeeps, TimeoutKeeps, ProviderDiesKeeps
<1>2. ASSUME NEW r \in Launches, B!Attach(r) \/ B!Save(r) \/ B!AppendSaved(r) \/ B!Drain(r) \/ B!Exit(r)
      PROVE  BrokerIInv'
  BY <1>2, AttachKeeps, SaveKeeps, AppendSavedKeeps, DrainKeeps, ExitKeeps
<1>3. ASSUME NEW r \in Launches,
             B!TakeLease(r) \/ B!Materialize(r) \/ B!Begin(r) \/ B!RecoverSaved(r) \/ B!RemoveDirectory(r)
             \/ B!Finish(r) \/ B!Fail(r)
      PROVE  BrokerIInv'
  BY <1>3, TakeLeaseKeeps, MaterializeKeeps, BeginKeeps, RecoverSavedKeeps, RemoveDirectoryKeeps, FinishKeeps, FailKeeps
<1>4. CASE B!EngineDies
  BY <1>4, EngineDiesKeeps
<1> QED BY <1>1, <1>2, <1>3, <1>4 DEF B!Next

\* Nothing changes.
LEMMA BrokerRests == ASSUME BrokerIInv, UNCHANGED launches PROVE BrokerIInv'
<1> USE DEF launches
<1>1. B!TypeOK' /\ OneLease'
  BY DEF BrokerIInv, B!TypeOK, OneLease
<1>2. \A r \in Launches : RunFits(r)' /\ RecordFits(r)'
  BY DEF BrokerIInv, RunFits, RecordFits
<1>3. CallsFit'
  BY DEF BrokerIInv, CallsFit, Asked
<1>4. StepFits'
  BY DEF BrokerIInv, StepFits, Within
<1> QED BY <1>1, <1>2, <1>3, <1>4 DEF BrokerIInv

\* Whatever the launches, the Launcher's processes and the Engine do, with any number of restarts
\* and lost calls: at most one DSH captures, a run that is recorded as closed has drained, a
\* directory goes only when what was captured in it is canonical, and the provider's receipt is
\* earned (external-lifecycle-provider.ts, runtime-broker.ts, lifecycle.ts, lease.ts).
THEOREM BrokersSafe == FocusSpec => []BrokerInv
<1> DEFINE Inv == focus = "broker" => BrokerIInv
<1>1. FocusInit => Inv
  BY BrokerInit DEF FocusInit
<1>2. Inv /\ [FocusNext]_<<focus, vars, launches, artifacts>> => Inv'
  <2> SUFFICES ASSUME Inv, [FocusNext]_<<focus, vars, launches, artifacts>>, focus' = "broker" PROVE BrokerIInv'
    OBVIOUS
  <2>1. CASE focus = "broker" /\ FocusNext /\ B!Next
    BY <2>1, BrokerStep
  <2>2. CASE UNCHANGED <<focus, launches>>
    <3>1. BrokerIInv
      BY <2>2
    <3> QED BY <2>2, <3>1, BrokerRests DEF launches
  <2>3. focus = "broker"
    BY DEF FocusNext
  <2> QED BY <2>1, <2>2, <2>3 DEF FocusNext
<1>3. Inv => BrokerInv
  BY BrokerHolds DEF BrokerInv
<1> QED BY <1>1, <1>2, <1>3, PTL DEF FocusSpec
=============================================================================
