------------------------- MODULE CrawlerFetchProofs -------------------------
(***************************************************************************)
(* Theorems about CrawlerFetch, for any number of previews, any hosts,     *)
(* pages, retries and delay: fetches of a domain stay a delay apart, no    *)
(* preview waits for longer than those ahead of it explain, a preview      *)
(* fails for a reason, and what it shows is what its page says.            *)
(***************************************************************************)
EXTENDS CrawlerFetch, TLAPS, FiniteSetTheorems, WellFoundedInduction

\* Every step is one of a preview's, or of the clock.
LEMMA NextSteps ==
  ASSUME Next
  PROVE  \/ Tick
         \/ \E p \in Requests : \/ Arrive(p) \/ CheckService(p) \/ MakeService(p) \/ TakeService(p)
                                \/ CheckRobots(p) \/ Acquire(p) \/ Wake(p) \/ Fetch(p) \/ Show(p)
BY DEF Next, Run

\* A fetch that brings no page: p backs off when a retry is left, or gives up.
LEMMA FetchStep ==
  ASSUME Shape, NEW p \in Requests, Fetch(p)
  PROVE  /\ DOMAIN proc' = Requests /\ DOMAIN proc'[p] = Fields
         /\ \A q \in Requests \ {p} : proc'[q] = proc[q]
         /\ proc[p].pc = "fetch" /\ UNCHANGED <<clock, service, last, remade, started>>
         /\ proc'[p].call = proc[p].call /\ proc'[p].service = proc[p].service
         /\ proc'[p].attempt = proc[p].attempt
         /\ proc'[p].answer \in Answers \ {"ok"}
         /\ proc'[p].pc = IF proc'[p].answer \in Retryable /\ proc[p].attempt < proc[p].call.retries
                          THEN "backoff" ELSE "fetch_failed"
<1>1. \E a \in Answers \ {"ok"} : \E pc, until :
        /\ pc = IF a \in Retryable /\ proc[p].attempt < proc[p].call.retries
                THEN "backoff" ELSE "fetch_failed"
        /\ proc' = [proc EXCEPT ![p] = [@ EXCEPT !.answer = a, !.pc = pc, !.until = until]]
  BY DEF Fetch
<1>2. PICK a \in Answers \ {"ok"} : \E pc, until :
        /\ pc = IF a \in Retryable /\ proc[p].attempt < proc[p].call.retries
                THEN "backoff" ELSE "fetch_failed"
        /\ proc' = [proc EXCEPT ![p] = [@ EXCEPT !.answer = a, !.pc = pc, !.until = until]]
  BY <1>1
<1>3. /\ DOMAIN proc' = Requests /\ DOMAIN proc'[p] = Fields
      /\ \A q \in Requests \ {p} : proc'[q] = proc[q]
      /\ proc'[p].call = proc[p].call /\ proc'[p].service = proc[p].service
      /\ proc'[p].attempt = proc[p].attempt /\ proc'[p].answer = a
      /\ proc'[p].pc = IF a \in Retryable /\ proc[p].attempt < proc[p].call.retries
                       THEN "backoff" ELSE "fetch_failed"
  BY <1>2 DEF Shape, Fields
<1>4. proc[p].pc = "fetch" /\ UNCHANGED <<clock, service, last, remade, started>>
  BY DEF Fetch
<1>. QED BY <1>3, <1>4

\* Who wakes fetches when its slot has come, and asks for another one after a backoff.
LEMMA WakeStep ==
  ASSUME Shape, NEW p \in Requests, Wake(p)
  PROVE  /\ DOMAIN proc' = Requests /\ DOMAIN proc'[p] = Fields
         /\ \A q \in Requests \ {p} : proc'[q] = proc[q]
         /\ UNCHANGED <<clock, service, last, remade>>
         /\ proc'[p].call = proc[p].call /\ proc'[p].service = proc[p].service
         /\ proc'[p].until = proc[p].until
         /\ \/ /\ proc[p].pc = "sleep" /\ proc'[p].pc = "fetch"
               /\ proc'[p].attempt = proc[p].attempt /\ started' = started \cup {Begun(p)}
            \/ /\ proc[p].pc = "backoff" /\ proc'[p].pc = "acquire"
               /\ proc'[p].attempt = proc[p].attempt + 1 /\ started' = started
<1>1. proc[p].pc \in Sleeping /\ UNCHANGED <<clock, service, last, remade>>
  BY DEF Wake
<1>2. CASE proc[p].pc = "sleep"
  <2>1. proc' = [proc EXCEPT ![p].pc = "fetch"] /\ started' = started \cup {Begun(p)}
    BY <1>2 DEF Wake, Goto
  <2>. QED BY <1>1, <1>2, <2>1 DEF Shape, Fields
<1>3. CASE proc[p].pc = "backoff"
  <2>1. /\ proc' = [proc EXCEPT ![p] = [@ EXCEPT !.pc = "acquire", !.attempt = proc[p].attempt + 1]]
        /\ started' = started
    BY <1>3 DEF Wake
  <2>. QED BY <1>1, <1>3, <2>1 DEF Shape, Fields
<1>. QED BY <1>1, <1>2, <1>3 DEF Sleeping

\* A step of p leaves the local state of the others as it is.
LEMMA OthersKeep ==
  ASSUME Shape, NEW p \in Requests,
         \/ Arrive(p) \/ CheckService(p) \/ MakeService(p) \/ TakeService(p)
         \/ CheckRobots(p) \/ Acquire(p) \/ Wake(p) \/ Fetch(p) \/ Show(p)
  PROVE  /\ DOMAIN proc' = Requests
         /\ DOMAIN proc'[p] = Fields
         /\ \A q \in Requests \ {p} : proc'[q] = proc[q]
<1>1. CASE Arrive(p)
  <2>1. PICK c \in Calls : proc' = [proc EXCEPT ![p] = [@ EXCEPT !.pc = "check", !.call = c]]
    BY <1>1 DEF Arrive
  <2>. QED BY <2>1 DEF Shape, Fields
<1>2. CASE CheckService(p) BY <1>2 DEF CheckService, Goto, Shape, Fields
<1>3. CASE MakeService(p) BY <1>3 DEF MakeService, Goto, Shape, Fields
<1>4. CASE TakeService(p) BY <1>4 DEF TakeService, Shape, Fields
<1>5. CASE CheckRobots(p) BY <1>5 DEF CheckRobots, Goto, Shape, Fields
<1>6. CASE Acquire(p) BY <1>6 DEF Acquire, Shape, Fields
<1>7. CASE Wake(p) BY <1>7, WakeStep
<1>8. CASE Fetch(p) BY <1>8, FetchStep
<1>9. CASE Show(p)
  <2>1. PICK page \in Pages : proc' = [proc EXCEPT ![p] =
          [@ EXCEPT !.answer = "ok", !.pc = "shown", !.page = page,
                    !.records = DedupeRecords(ParseHtml(proc[p].call.url, page))]]
    BY <1>9 DEF Show
  <2>. QED BY <2>1 DEF Shape, Fields
<1>. QED BY <1>1, <1>2, <1>3, <1>4, <1>5, <1>6, <1>7, <1>8, <1>9

\* The waiting time is a number, and what the limiter keeps moves on by the delay.
LEMMA WaitIsEnough ==
  ASSUME NEW now \in Nat, NEW before \in Nat
  PROVE  LET wait == Larger(0, Delay - (now - before))
         IN  wait \in Nat /\ now + wait >= before + Delay
BY DelayAssumption DEF Larger

\* What the limiter keeps for the domain of p, and the slot p gets by acquiring.
LEMMA AcquireStep ==
  ASSUME Shape, NEW p \in Requests, Acquire(p)
  PROVE  LET s == proc[p].service
             d == DomainKey(proc[p].call.url)
         IN  /\ s \in Requests /\ d \in Hosts
             /\ proc'[p].until \in Nat
             /\ proc'[p].until >= last[s][d] + Delay
             /\ last' = [last EXCEPT ![s][d] = proc'[p].until]
             /\ proc[p].pc = "acquire" /\ proc'[p].pc = "sleep"
             /\ proc'[p].service = s /\ proc'[p].call = proc[p].call
             /\ proc'[p].attempt = proc[p].attempt
             /\ UNCHANGED <<clock, service, remade, started>>
<1>. DEFINE s == proc[p].service
            d == DomainKey(proc[p].call.url)
            wait == Larger(0, Delay - (clock - last[s][d]))
<1>1. proc[p].pc = "acquire" /\ s \in Requests /\ proc[p].call \in Calls
  BY DEF Acquire, Shape, Working
<1>2. d \in Hosts
  BY <1>1, CallsAssumption DEF DomainKey
<1>3. clock \in Nat /\ last[s][d] \in Nat
  BY <1>1, <1>2 DEF Shape
<1>4. wait \in Nat /\ clock + wait >= last[s][d] + Delay
  BY <1>3, WaitIsEnough
<1>5. /\ last' = [last EXCEPT ![s][d] = clock + wait]
      /\ proc' = [proc EXCEPT ![p] = [@ EXCEPT !.pc = "sleep", !.until = clock + wait]]
      /\ UNCHANGED <<clock, service, remade, started>>
  BY DEF Acquire
<1>. HIDE DEF s, d, wait
<1>6. /\ proc'[p].until = clock + wait /\ proc'[p].pc = "sleep" /\ proc'[p].service = proc[p].service
      /\ proc'[p].call = proc[p].call /\ proc'[p].attempt = proc[p].attempt
  BY <1>5 DEF Shape, Fields
<1>7. proc'[p].until \in Nat /\ proc'[p].until >= last[s][d] + Delay
  BY <1>3, <1>4, <1>6
<1>8. last' = [last EXCEPT ![s][d] = proc'[p].until]
  BY <1>5, <1>6
<1>9. s = proc[p].service /\ d = DomainKey(proc[p].call.url)
  BY DEF s, d
<1>. QED BY <1>1, <1>2, <1>5, <1>6, <1>7, <1>8, <1>9

-----------------------------------------------------------------------------
(* The shape of the state.                                                 *)

\* The fetch of a thread that wakes.
LEMMA BegunTyped ==
  ASSUME Shape, NEW p \in Requests, Waits(p)
  PROVE  LET f == Begun(p)
         IN  /\ f.service = proc[p].service /\ f.host = DomainKey(proc[p].call.url)
             /\ f.slot = Slot(p) /\ f.began = clock
             /\ f.service \in Requests /\ f.host \in Hosts /\ f.slot \in Nat /\ f.began \in Nat
BY CallsAssumption DEF Shape, Waits, Working, Sleeping, Begun, Slot, DomainKey

\* The initial state has the shape.
LEMMA ShapeInit == Init => Shape
<1>. SUFFICES ASSUME Init PROVE Shape
  OBVIOUS
<1>1. /\ clock \in Nat /\ service = Nothing /\ remade = FALSE /\ started = {}
      /\ last \in [Requests -> [Hosts -> Nat]]
  BY StartAssumption DEF Init
<1>2. DOMAIN proc = Requests /\ \A p \in Requests : DOMAIN proc[p] = Fields /\ proc[p].pc = "new"
  BY DEF Init, NewPreview, Fields
<1>. QED BY <1>1, <1>2 DEF Shape, Waits, Working, Sleeping

\* Every step keeps the shape.
LEMMA ShapeStep ==
  ASSUME Shape, [Next]_vars
  PROVE  Shape'
<1>1. CASE UNCHANGED vars
  BY <1>1 DEF vars, Shape, Waits
<1>2. CASE Tick
  BY <1>2 DEF Tick, Shape, Waits
<1>3. ASSUME NEW p \in Requests,
             \/ Arrive(p) \/ CheckService(p) \/ MakeService(p) \/ TakeService(p)
             \/ CheckRobots(p) \/ Acquire(p) \/ Wake(p) \/ Fetch(p) \/ Show(p)
      PROVE  Shape'
  <2>1. /\ DOMAIN proc' = Requests /\ DOMAIN proc'[p] = Fields
        /\ \A q \in Requests \ {p} : proc'[q] = proc[q]
    BY <1>3, OthersKeep
  <2>. SUFFICES
         /\ clock' \in Nat /\ service' \in Requests \cup {Nothing}
         /\ (service # Nothing => service' # Nothing)
         /\ last' \in [Requests -> [Hosts -> Nat]] /\ remade' \in BOOLEAN
         /\ \A f \in started' : f.service \in Requests /\ f.host \in Hosts /\ f.slot \in Nat /\ f.began \in Nat
         /\ proc'[p].pc \in {"new"} \cup GettingService \cup Working \cup Ended
         /\ proc'[p].pc # "new" => proc'[p].call \in Calls
         /\ proc'[p].pc = "take" => service' # Nothing
         /\ proc'[p].pc \in Working => proc'[p].service \in Requests
         /\ proc'[p].pc = "sleep" => proc'[p].until \in Nat
    BY <2>1, <1>3 DEF Shape, Waits
  <2>. USE <2>1 DEF Shape, Fields, Waits, GettingService, Working, Sleeping, Ended
  <2>2. CASE Arrive(p) BY <2>2 DEF Arrive
  <2>3. CASE CheckService(p) BY <2>3 DEF CheckService, Goto
  <2>4. CASE MakeService(p) BY <2>4, CallsAssumption DEF MakeService, Goto
  <2>5. CASE TakeService(p) BY <2>5 DEF TakeService
  <2>6. CASE CheckRobots(p) BY <2>6 DEF CheckRobots, Goto
  <2>7. CASE Acquire(p)
    <3>. DEFINE s == proc[p].service
                d == DomainKey(proc[p].call.url)
    <3>1. /\ s \in Requests /\ d \in Hosts /\ proc'[p].until \in Nat
          /\ last' = [last EXCEPT ![s][d] = proc'[p].until]
          /\ proc'[p].pc = "sleep" /\ proc'[p].service = s /\ proc[p].pc = "acquire"
          /\ proc'[p].call = proc[p].call
          /\ UNCHANGED <<clock, service, remade, started>>
      BY <2>7, AcquireStep
    <3>. HIDE DEF d
    <3>. QED BY <3>1
  <2>8. CASE Wake(p)
    <3>1. \A f \in started' : f.service \in Requests /\ f.host \in Hosts /\ f.slot \in Nat /\ f.began \in Nat
      <4>1. \A f \in started : f.service \in Requests /\ f.host \in Hosts /\ f.slot \in Nat /\ f.began \in Nat
        OBVIOUS
      <4>. QED BY <2>8, <4>1, WakeStep, BegunTyped
    <3>. QED BY <2>8, <3>1, WakeStep
  <2>9. CASE Fetch(p) BY <2>9, FetchStep
  <2>10. CASE Show(p) BY <2>10 DEF Show
  <2>. QED BY <1>3, <2>2, <2>3, <2>4, <2>5, <2>6, <2>7, <2>8, <2>9, <2>10
<1>. QED BY <1>1, <1>2, <1>3, NextSteps

-----------------------------------------------------------------------------
(* Fetches of a domain are spaced.                                         *)

\* The service is made when nobody works, or it is made twice.
LEMMA OneServiceStep ==
  ASSUME Shape, Shape', OneService, [Next]_vars
  PROVE  OneService'
<1>1. CASE UNCHANGED vars
  BY <1>1 DEF vars, OneService
<1>2. CASE Tick
  BY <1>2 DEF Tick, OneService
<1>3. ASSUME NEW p \in Requests,
             \/ Arrive(p) \/ CheckService(p) \/ MakeService(p) \/ TakeService(p)
             \/ CheckRobots(p) \/ Acquire(p) \/ Wake(p) \/ Fetch(p) \/ Show(p)
      PROVE  OneService'
  <2>1. /\ DOMAIN proc' = Requests /\ DOMAIN proc'[p] = Fields
        /\ \A q \in Requests \ {p} : proc'[q] = proc[q]
    BY <1>3, OthersKeep
  <2>. USE <2>1 DEF GettingService, Working, Sleeping, Ended
  <2>2. CASE MakeService(p)
    <3>1. /\ proc[p].pc = "make" /\ proc'[p].pc = "take" /\ started' = started
          /\ ~remade' => ~remade /\ service = Nothing
      BY <2>2 DEF MakeService, Goto, Shape, Fields
    <3>2. ~remade' => started = {} /\ \A q \in Requests : proc[q].pc \notin Working
      <4>1. \A q \in Requests : proc[q].pc \in Working => proc[q].service # Nothing
        BY CallsAssumption DEF Shape
      <4>2. \A f \in started : f.service # Nothing
        BY CallsAssumption DEF Shape
      <4>3. ~remade' => /\ \A q \in Requests : proc[q].pc \in Working => proc[q].service = Nothing
                        /\ \A f \in started : f.service = Nothing
        BY <3>1 DEF OneService
      <4>. HIDE DEF Working
      <4>. QED BY <4>1, <4>2, <4>3
    <3>. QED BY <3>1, <3>2 DEF OneService
  <2>3. CASE ~MakeService(p)
    <3>1. /\ service' = service /\ remade' = remade
          /\ proc'[p].pc \in Working => \/ proc[p].pc \in Working /\ proc'[p].service = proc[p].service
                                        \/ proc'[p].service = service
      <4>. USE <2>3 DEF Shape, Fields
      <4>1. CASE Arrive(p) BY <4>1 DEF Arrive
      <4>2. CASE CheckService(p) BY <4>2 DEF CheckService, Goto
      <4>3. CASE TakeService(p) BY <4>3 DEF TakeService
      <4>4. CASE CheckRobots(p) BY <4>4 DEF CheckRobots, Goto
      <4>5. CASE Acquire(p) BY <4>5, AcquireStep
      <4>6. CASE Wake(p) BY <4>6, WakeStep
      <4>7. CASE Fetch(p) BY <4>7, FetchStep
      <4>8. CASE Show(p) BY <4>8 DEF Show
      <4>. QED BY <1>3, <2>3, <4>1, <4>2, <4>3, <4>4, <4>5, <4>6, <4>7, <4>8
    <3>2. \A f \in started' : f \in started \/ (Wake(p) /\ proc[p].pc \in Working /\ f.service = proc[p].service)
      <4>1. CASE Wake(p)
        BY <4>1, WakeStep, BegunTyped DEF Waits
      <4>2. CASE ~Wake(p)
        <5>1. started' = started
          BY <1>3, <2>3, <4>2 DEF Arrive, CheckService, TakeService, CheckRobots, Acquire, Fetch, Show
        <5>. QED BY <5>1
      <4>. QED BY <4>1, <4>2
    <3>3. ASSUME ~remade' PROVE \A f \in started' : f.service = service'
      BY <3>1, <3>2, <3>3 DEF OneService
    <3>4. ASSUME ~remade', NEW q \in Requests, proc'[q].pc \in Working PROVE proc'[q].service = service'
      BY <3>1, <3>4 DEF OneService
    <3>. QED BY <3>3, <3>4 DEF OneService
  <2>. QED BY <2>2, <2>3
<1>. QED BY <1>1, <1>2, <1>3, NextSteps

\* Slots stay apart: an acquisition gives one that is a delay after all of its limiter,
\* and a thread that wakes takes its slot with it.
LEMMA SlotsStep ==
  ASSUME Shape, Shape', SlotsApart, [Next]_vars
  PROVE  SlotsApart'
<1>1. CASE UNCHANGED vars
  BY <1>1 DEF vars, SlotsApart, Waits, Slot, SameLimiter
<1>2. CASE Tick
  BY <1>2 DEF Tick, SlotsApart, Waits, Slot, SameLimiter
<1>3. ASSUME NEW p \in Requests, Acquire(p)
      PROVE  SlotsApart'
  <2>. DEFINE s == proc[p].service
              d == DomainKey(proc[p].call.url)
              slot == proc'[p].until
  <2>1. /\ s \in Requests /\ d \in Hosts /\ slot \in Nat /\ slot >= last[s][d] + Delay
        /\ last' = [last EXCEPT ![s][d] = slot] /\ started' = started
        /\ proc'[p].service = s /\ DomainKey(proc'[p].call.url) = d /\ proc'[p].pc = "sleep"
    BY <1>3, AcquireStep
  <2>2. \A q \in Requests \ {p} : proc'[q] = proc[q]
    BY <1>3, OthersKeep
  <2>3. /\ \A q \in Requests : Waits(q) => /\ proc[q].service \in Requests
                                           /\ DomainKey(proc[q].call.url) \in Hosts
                                           /\ Slot(q) \in Nat
        /\ \A f \in started : f.service \in Requests /\ f.host \in Hosts /\ f.slot \in Nat /\ f.began \in Nat
    BY CallsAssumption DEF Shape, Waits, Slot, Working, Sleeping, DomainKey
  <2>. HIDE DEF s, d, slot
  <2>4. last[s][d] \in Nat
    BY <2>1 DEF Shape
  <2>5. ASSUME NEW u \in Requests, NEW e \in Hosts
        PROVE  last'[u][e] = (IF u = s /\ e = d THEN slot ELSE last[u][e]) /\ last[u][e] \in Nat
    BY <2>1 DEF Shape
  <2>6. \A u \in Requests, e \in Hosts : last[u][e] <= last'[u][e] /\ last'[u][e] \in Nat
    <3>. SUFFICES ASSUME NEW u \in Requests, NEW e \in Hosts PROVE last[u][e] <= last'[u][e] /\ last'[u][e] \in Nat
      OBVIOUS
    <3>1. CASE u = s /\ e = d
      <4>1. last'[u][e] = slot /\ last[u][e] = last[s][d]
        BY <2>5, <3>1
      <4>. QED BY <2>1, <2>4, <4>1, DelayAssumption
    <3>2. CASE ~(u = s /\ e = d)
      <4>1. last'[u][e] = last[u][e] /\ last[u][e] \in Nat
        BY <2>5, <3>2
      <4>. QED BY <4>1
    <3>. QED BY <3>1, <3>2
  <2>7. \A q \in Requests : Waits(q) /\ proc[q].service = s /\ DomainKey(proc[q].call.url) = d
                              => Slot(q) + Delay <= slot
    <3>. SUFFICES ASSUME NEW q \in Requests, Waits(q), proc[q].service = s, DomainKey(proc[q].call.url) = d
                  PROVE  Slot(q) + Delay <= slot
      OBVIOUS
    <3>1. Slot(q) <= last[s][d] /\ Slot(q) \in Nat
      BY <2>3 DEF SlotsApart
    <3>. QED BY <2>1, <2>4, <3>1, DelayAssumption
  <2>8. \A f \in started : f.service = s /\ f.host = d => f.slot + Delay <= slot
    <3>. SUFFICES ASSUME NEW f \in started, f.service = s, f.host = d PROVE f.slot + Delay <= slot
      OBVIOUS
    <3>1. f.slot <= last[s][d] /\ f.slot \in Nat
      BY <2>3 DEF SlotsApart
    <3>. QED BY <2>1, <2>4, <3>1, DelayAssumption
  <2>9. \A q \in Requests : /\ q = p => Slot(q)' = slot /\ proc'[q].service = s /\ DomainKey(proc'[q].call.url) = d
                            /\ q # p => proc'[q] = proc[q] /\ Slot(q)' = Slot(q) /\ (Waits(q)' <=> Waits(q))
    BY <2>1, <2>2 DEF Slot, Waits, slot
  <2>10. ASSUME NEW q \in Requests, Waits(q)'
         PROVE  Slot(q)' <= last'[proc'[q].service][DomainKey(proc'[q].call.url)]
    <3>1. CASE q = p
      <4>1. last'[s][d] = slot
        BY <2>1, <2>5
      <4>. QED BY <2>1, <2>9, <3>1, <4>1
    <3>2. CASE q # p
      <4>. DEFINE u == proc[q].service
                  e == DomainKey(proc[q].call.url)
      <4>1. proc'[q] = proc[q] /\ Waits(q) /\ Slot(q)' = Slot(q) /\ u \in Requests /\ e \in Hosts /\ Slot(q) \in Nat
        BY <2>3, <2>9, <2>10, <3>2
      <4>2. Slot(q) <= last[u][e]
        BY <4>1 DEF SlotsApart
      <4>3. last[u][e] <= last'[u][e] /\ last[u][e] \in Nat /\ last'[u][e] \in Nat
        BY <2>5, <2>6, <4>1
      <4>. QED BY <4>1, <4>2, <4>3
    <3>. QED BY <3>1, <3>2
  <2>11. ASSUME NEW f \in started PROVE f.slot <= last'[f.service][f.host] /\ f.slot <= f.began
    <3>1. f.slot <= last[f.service][f.host] /\ f.slot <= f.began
      BY DEF SlotsApart
    <3>2. /\ last[f.service][f.host] <= last'[f.service][f.host]
          /\ last[f.service][f.host] \in Nat /\ last'[f.service][f.host] \in Nat /\ f.slot \in Nat
      BY <2>3, <2>5, <2>6
    <3>. QED BY <3>1, <3>2
  <2>12. ASSUME NEW q \in Requests, NEW r \in Requests, q # r, Waits(q)', Waits(r)', SameLimiter(q, r)'
         PROVE  Distance(Slot(q)', Slot(r)') >= Delay
    <3>1. CASE q # p /\ r # p
      <4>1. Waits(q) /\ Waits(r) /\ SameLimiter(q, r) /\ Slot(q)' = Slot(q) /\ Slot(r)' = Slot(r)
        BY <2>9, <2>12, <3>1 DEF SameLimiter
      <4>. QED BY <2>12, <4>1 DEF SlotsApart
    <3>2. CASE q = p
      <4>1. Waits(r) /\ proc[r].service = s /\ DomainKey(proc[r].call.url) = d /\ Slot(r)' = Slot(r) /\ Slot(q)' = slot
        BY <2>9, <2>12, <3>2 DEF SameLimiter
      <4>2. Slot(r) + Delay <= slot /\ Slot(r) \in Nat
        BY <4>1, <2>3, <2>7
      <4>. QED BY <4>1, <4>2, <2>1, DelayAssumption DEF Distance
    <3>3. CASE r = p
      <4>1. Waits(q) /\ proc[q].service = s /\ DomainKey(proc[q].call.url) = d /\ Slot(q)' = Slot(q) /\ Slot(r)' = slot
        BY <2>9, <2>12, <3>3 DEF SameLimiter
      <4>2. Slot(q) + Delay <= slot /\ Slot(q) \in Nat
        BY <4>1, <2>3, <2>7
      <4>. QED BY <4>1, <4>2, <2>1, DelayAssumption DEF Distance
    <3>. QED BY <3>1, <3>2, <3>3
  <2>13. ASSUME NEW q \in Requests, NEW f \in started, Waits(q)', f.service = proc'[q].service,
                f.host = DomainKey(proc'[q].call.url)
         PROVE  Distance(Slot(q)', f.slot) >= Delay
    <3>1. CASE q # p
      <4>1. Waits(q) /\ f.service = proc[q].service /\ f.host = DomainKey(proc[q].call.url) /\ Slot(q)' = Slot(q)
        BY <2>9, <2>13, <3>1
      <4>. QED BY <4>1 DEF SlotsApart
    <3>2. CASE q = p
      <4>1. Slot(q)' = slot /\ f.slot + Delay <= slot /\ f.slot \in Nat
        BY <2>3, <2>8, <2>9, <2>13, <3>2
      <4>. QED BY <4>1, <2>1, DelayAssumption DEF Distance
    <3>. QED BY <3>1, <3>2
  <2>14. \A f, g \in started :
           f # g /\ f.service = g.service /\ f.host = g.host => Distance(f.slot, g.slot) >= Delay
    BY DEF SlotsApart
  <2>. QED BY <2>1, <2>10, <2>11, <2>12, <2>13, <2>14 DEF SlotsApart
<1>4. ASSUME NEW p \in Requests,
             \/ Arrive(p) \/ CheckService(p) \/ MakeService(p) \/ TakeService(p)
             \/ CheckRobots(p) \/ Wake(p) \/ Fetch(p) \/ Show(p)
      PROVE  SlotsApart'
  <2>1. /\ DOMAIN proc' = Requests /\ DOMAIN proc'[p] = Fields
        /\ \A q \in Requests \ {p} : proc'[q] = proc[q]
    BY <1>4, OthersKeep
  <2>2. last' = last /\ proc'[p].pc # "sleep"
    <3>. USE DEF Shape, Fields, Sleeping
    <3>1. CASE Arrive(p) BY <3>1 DEF Arrive
    <3>2. CASE CheckService(p) BY <3>2 DEF CheckService, Goto
    <3>3. CASE MakeService(p) BY <3>3 DEF MakeService, Goto
    <3>4. CASE TakeService(p) BY <3>4 DEF TakeService
    <3>5. CASE CheckRobots(p) BY <3>5 DEF CheckRobots, Goto
    <3>6. CASE Wake(p) BY <3>6, WakeStep
    <3>7. CASE Fetch(p) BY <3>7, FetchStep
    <3>8. CASE Show(p) BY <3>8 DEF Show
    <3>. QED BY <1>4, <3>1, <3>2, <3>3, <3>4, <3>5, <3>6, <3>7, <3>8
  <2>3. \A q \in Requests : Waits(q)' => /\ q # p /\ Waits(q) /\ proc'[q] = proc[q] /\ Slot(q)' = Slot(q)
    BY <2>1, <2>2 DEF Waits, Slot
  <2>4. \A f \in started' : f \in started \/ (Waits(p) /\ Slot(p) <= clock /\ f = Begun(p))
    <3>1. CASE Wake(p)
      BY <3>1, WakeStep DEF Wake, Waits, Slot
    <3>2. CASE ~Wake(p)
      <4>1. started' = started
        BY <1>4, <3>2 DEF Arrive, CheckService, MakeService, TakeService, CheckRobots, Fetch, Show
      <4>. QED BY <4>1
    <3>. QED BY <3>1, <3>2
  <2>. DEFINE b == Begun(p)
  <2>5. Waits(p) => /\ b.service = proc[p].service /\ b.host = DomainKey(proc[p].call.url)
                    /\ b.slot = Slot(p) /\ b.began = clock /\ b.slot \in Nat
    BY BegunTyped
  <2>6. \A f \in started : f.slot \in Nat
    BY DEF Shape
  <2>. HIDE DEF b
  <2>7. ASSUME NEW f \in started' PROVE f.slot <= last'[f.service][f.host] /\ f.slot <= f.began
    <3>1. CASE f \in started
      BY <2>2, <3>1 DEF SlotsApart
    <3>2. CASE Waits(p) /\ Slot(p) <= clock /\ f = b
      BY <2>2, <2>5, <3>2 DEF SlotsApart
    <3>. QED BY <2>4, <3>1, <3>2 DEF b
  <2>8. ASSUME NEW q \in Requests, NEW f \in started', Waits(q)', f.service = proc'[q].service,
               f.host = DomainKey(proc'[q].call.url)
        PROVE  Distance(Slot(q)', f.slot) >= Delay
    <3>1. q # p /\ Waits(q) /\ proc'[q] = proc[q] /\ Slot(q)' = Slot(q)
      BY <2>3, <2>8
    <3>2. CASE f \in started
      BY <2>8, <3>1, <3>2 DEF SlotsApart
    <3>3. CASE Waits(p) /\ f = b
      <4>1. SameLimiter(q, p) /\ f.slot = Slot(p)
        BY <2>5, <2>8, <3>1, <3>3 DEF SameLimiter
      <4>. QED BY <3>1, <3>3, <4>1 DEF SlotsApart
    <3>. QED BY <2>4, <3>2, <3>3 DEF b
  <2>9. ASSUME NEW f \in started, Waits(p), b.service = f.service, b.host = f.host
        PROVE  Distance(b.slot, f.slot) >= Delay /\ Distance(f.slot, b.slot) >= Delay
    <3>1. Distance(Slot(p), f.slot) >= Delay /\ b.slot = Slot(p) /\ b.slot \in Nat /\ f.slot \in Nat
      BY <2>5, <2>6, <2>9 DEF SlotsApart
    <3>. QED BY <3>1, DelayAssumption DEF Distance
  <2>10. ASSUME NEW f \in started', NEW g \in started', f # g, f.service = g.service, f.host = g.host
         PROVE  Distance(f.slot, g.slot) >= Delay
    <3>1. CASE f \in started /\ g \in started
      BY <2>10, <3>1 DEF SlotsApart
    <3>2. CASE f \in started /\ g = b /\ Waits(p)
      BY <2>9, <2>10, <3>2
    <3>3. CASE g \in started /\ f = b /\ Waits(p)
      BY <2>9, <2>10, <3>3
    <3>. QED BY <2>4, <2>10, <3>1, <3>2, <3>3 DEF b
  <2>11. \A q \in Requests : Waits(q)' => Slot(q)' <= last'[proc'[q].service][DomainKey(proc'[q].call.url)]
    BY <2>2, <2>3 DEF SlotsApart
  <2>12. \A q, r \in Requests :
           q # r /\ Waits(q)' /\ Waits(r)' /\ SameLimiter(q, r)' => Distance(Slot(q)', Slot(r)') >= Delay
    BY <2>3 DEF SlotsApart, SameLimiter
  <2>. QED BY <2>7, <2>8, <2>10, <2>11, <2>12 DEF SlotsApart
<1>. QED BY <1>1, <1>2, <1>3, <1>4, NextSteps

\* The invariant behind the spacing holds, from the start and over every step.
LEMMA SpacingInvariant == Spec => []SpacingInv
<1>1. Init => OneService /\ SlotsApart
  BY DEF Init, NewPreview, OneService, SlotsApart, Waits, GettingService, Working, Sleeping
<1>2. Init => SpacingInv
  BY <1>1, ShapeInit DEF SpacingInv
<1>3. SpacingInv /\ [Next]_vars => SpacingInv'
  BY ShapeStep, OneServiceStep, SlotsStep DEF SpacingInv
<1>. QED BY <1>2, <1>3, PTL DEF Spec

\* However many previews fetch from one domain at once, whatever they wait and however
\* late they wake: of two fetches the second begins no earlier than the delay after the
\* first, less what the first was late, unless the service was made twice.
THEOREM FetchesAreSpaced == Spec => []FetchesSpaced
<1>1. ASSUME SpacingInv, NEW f \in started, NEW g \in started, f # g, f.host = g.host, f.slot <= g.slot,
             f.service = g.service \/ ~remade
      PROVE  g.began - f.began >= Delay - Late(f)
  <2>1. f.service = g.service
    BY <1>1 DEF SpacingInv, OneService
  <2>2. Distance(f.slot, g.slot) >= Delay /\ g.slot <= g.began
    BY <1>1, <2>1 DEF SpacingInv, SlotsApart
  <2>3. f.slot \in Nat /\ g.slot \in Nat /\ f.began \in Nat /\ g.began \in Nat
    BY <1>1 DEF SpacingInv, Shape
  <2>4. g.slot >= f.slot + Delay
    BY <1>1, <2>2, <2>3, DelayAssumption DEF Distance
  <2>. QED BY <2>2, <2>3, <2>4, DelayAssumption DEF Late
<1>2. SpacingInv => FetchesSpaced
  BY <1>1 DEF FetchesSpaced
<1>. QED BY <1>2, SpacingInvariant, PTL

-----------------------------------------------------------------------------
(* A failure has a reason.                                                 *)

\* An attempt follows a backoff only, and a backoff an attempt that was not the last.
LEMMA FailureStep ==
  ASSUME FailureInv, [Next]_vars
  PROVE  AttemptsCounted' /\ FailsForAReason'
<1>1. CASE UNCHANGED vars \/ Tick
  BY <1>1 DEF vars, Tick, FailureInv, AttemptsCounted, FailsForAReason
<1>2. ASSUME NEW p \in Requests,
             \/ Arrive(p) \/ CheckService(p) \/ MakeService(p) \/ TakeService(p)
             \/ CheckRobots(p) \/ Acquire(p) \/ Wake(p) \/ Fetch(p) \/ Show(p)
      PROVE  AttemptsCounted' /\ FailsForAReason'
  <2>. DEFINE tries == proc[p].call.retries
              Good(q) == /\ q.pc = "new" => q.attempt = 0
                         /\ q.pc # "new" => q.attempt \in 0 .. q.call.retries
                         /\ q.pc = "backoff" => q.attempt < q.call.retries
                         /\ q.pc = "fetch_failed" => q.answer \notin Retryable \cup {"ok"} \/ q.attempt = q.call.retries
  <2>1. /\ DOMAIN proc' = Requests /\ DOMAIN proc'[p] = Fields
        /\ \A q \in Requests \ {p} : proc'[q] = proc[q]
    BY <1>2, OthersKeep DEF FailureInv
  <2>2. /\ Shape /\ Good(proc[p])
        /\ proc[p].pc # "new" => tries \in Nat /\ proc[p].attempt \in Nat
    BY CallsAssumption DEF FailureInv, Shape, AttemptsCounted, FailsForAReason
  <2>3. Good(proc'[p])
    <3>. USE <2>2 DEF Shape, Fields
    <3>1. CASE Arrive(p)
      <4>1. PICK c \in Calls : proc' = [proc EXCEPT ![p] = [@ EXCEPT !.pc = "check", !.call = c]]
        BY <3>1 DEF Arrive
      <4>2. proc'[p].pc = "check" /\ proc'[p].call = c /\ proc'[p].attempt = proc[p].attempt
        BY <4>1
      <4>3. proc[p].pc = "new" /\ c.retries \in Nat
        BY <3>1, CallsAssumption DEF Arrive
      <4>. QED BY <4>2, <4>3
    <3>2. CASE CheckService(p) BY <3>2 DEF CheckService, Goto
    <3>3. CASE MakeService(p) BY <3>3 DEF MakeService, Goto
    <3>4. CASE TakeService(p) BY <3>4 DEF TakeService
    <3>5. CASE CheckRobots(p) BY <3>5 DEF CheckRobots, Goto
    <3>6. CASE Acquire(p) BY <3>6, AcquireStep
    <3>7. CASE Wake(p) BY <3>7, WakeStep
    <3>8. CASE Fetch(p) BY <3>8, FetchStep
    <3>9. CASE Show(p) BY <3>9 DEF Show
    <3>. QED BY <1>2, <3>1, <3>2, <3>3, <3>4, <3>5, <3>6, <3>7, <3>8, <3>9
  <2>4. \A q \in Requests : Good(proc[q]) 
    BY DEF FailureInv, AttemptsCounted, FailsForAReason
  <2>5. \A q \in Requests : Good(proc'[q])
    BY <2>1, <2>3, <2>4
  <2>. QED BY <2>5 DEF AttemptsCounted, FailsForAReason
<1>. QED BY <1>1, <1>2, NextSteps

\* For any number of retries, a preview that fails has had the last of its attempts or
\* an answer that no retry is for.
THEOREM FailuresHaveAReason == Spec => []FailsForAReason
<1>1. Init => FailureInv
  BY ShapeInit DEF Init, NewPreview, FailureInv, AttemptsCounted, FailsForAReason
<1>2. FailureInv /\ [Next]_vars => FailureInv'
  BY ShapeStep, FailureStep DEF FailureInv
<1>3. FailureInv => FailsForAReason
  BY DEF FailureInv
<1>. QED BY <1>1, <1>2, <1>3, PTL DEF Spec

-----------------------------------------------------------------------------
(* Nobody waits for longer than those ahead of it explain.                 *)

Less == {p \in Nat \X Nat : p[1] < p[2]}

\* The order of the numbers is well-founded.
LEMMA LessWF == IsWellFoundedOn(Less, Nat)
<1>1. OpToRel(<, Nat) = Less
  BY Zenon DEF OpToRel, Less
<1>. QED BY <1>1, NatLessThanWellFounded, Zenon

\* Some numbers have a least one.
LEMMA LeastNat ==
  ASSUME NEW T, T \subseteq Nat, T # {}
  PROVE  \E m \in T : \A n \in T : m <= n
<1>1. PICK m \in T : \A n \in T : ~ (<<n, m>> \in Less)
  BY LessWF, WFMin
<1>2. ASSUME NEW n \in T PROVE m <= n
  <2>1. m \in Nat /\ n \in Nat
    OBVIOUS
  <2>2. ~(n < m)
    BY <1>1, <2>1 DEF Less
  <2>. QED BY <2>1, <2>2
<1>. QED BY <1>2

\* Sleepers have numbers for slots, and their limiter keeps one for their host.
LEMMA SleepersTyped ==
  ASSUME Shape
  PROVE  /\ clock \in Nat
         /\ \A s \in Requests, h \in Hosts : last[s][h] \in Nat
         /\ \A p \in Requests : proc[p].pc = "sleep" =>
              /\ Slot(p) \in Nat /\ proc[p].service \in Requests
              /\ DomainKey(proc[p].call.url) \in Hosts
BY CallsAssumption DEF Shape, Waits, Slot, Working, Sleeping, DomainKey

\* A slot is the delay after the last one of its limiter, or at once.
LEMMA AcquireSlot ==
  ASSUME Shape, NEW p \in Requests, Acquire(p)
  PROVE  LET before == last[proc[p].service][DomainKey(proc[p].call.url)]
         IN  /\ before \in Nat
             /\ proc'[p].until = IF before + Delay > clock THEN before + Delay ELSE clock
<1>. DEFINE s == proc[p].service
            d == DomainKey(proc[p].call.url)
            wait == Larger(0, Delay - (clock - last[s][d]))
<1>1. last[s][d] \in Nat /\ clock \in Nat
  <2>1. s \in Requests /\ d \in Hosts
    BY AcquireStep
  <2>. QED BY <2>1, SleepersTyped
<1>2. proc' = [proc EXCEPT ![p] = [@ EXCEPT !.pc = "sleep", !.until = clock + wait]]
  BY DEF Acquire
<1>3. wait = IF last[s][d] + Delay > clock THEN last[s][d] + Delay - clock ELSE 0
  BY <1>1, DelayAssumption DEF Larger
<1>. HIDE DEF wait, s, d
<1>4. proc'[p].until = clock + wait
  BY <1>2 DEF Shape, Fields
<1>5. proc'[p].until = IF last[s][d] + Delay > clock THEN last[s][d] + Delay ELSE clock
  BY <1>1, <1>3, <1>4, DelayAssumption
<1>. QED BY <1>1, <1>5 DEF s, d

\* The chain gets a link by an acquisition, and loses those only whose time has come.
LEMMA ChainStep ==
  ASSUME Shape, Shape', SlotsChained, [Next]_vars
  PROVE  SlotsChained'
<1>. DEFINE Asleep(q, s, h, t) == /\ proc[q].pc = "sleep" /\ Slot(q) = t /\ proc[q].service = s
                                  /\ DomainKey(proc[q].call.url) = h
            AsleepNext(q, s, h, t) == /\ proc'[q].pc = "sleep" /\ proc'[q].until = t
                                      /\ proc'[q].service = s
                                      /\ DomainKey(proc'[q].call.url) = h
            Active == {q \in Requests : proc[q].pc # "new"}
<1>1. CASE UNCHANGED vars
  BY <1>1 DEF vars, SlotsChained, Slot, SameLimiter
<1>2. CASE Tick
  <2>1. last' = last /\ proc' = proc /\ clock' = clock + 1 /\ clock \in Nat
    BY <1>2 DEF Tick, Shape
  <2>2. /\ IsFiniteSet(Active)
        /\ \A s \in Requests, h \in Hosts :
             last[s][h] > clock => \E q \in Requests : Asleep(q, s, h, last[s][h])
    BY DEF SlotsChained
  <2>3. \A s \in Requests, h \in Hosts : last[s][h] > clock' => last[s][h] > clock
    BY <2>1, SleepersTyped
  <2>4. \A p \in Requests : proc[p].pc = "sleep" /\ Slot(p) > clock' + Delay => Slot(p) > clock + Delay
    BY <2>1, SleepersTyped, DelayAssumption
  <2>. QED BY <2>1, <2>2, <2>3, <2>4 DEF SlotsChained, Slot, SameLimiter
<1>3. ASSUME NEW p \in Requests,
             \/ Arrive(p) \/ CheckService(p) \/ MakeService(p) \/ TakeService(p)
             \/ CheckRobots(p) \/ Acquire(p) \/ Wake(p) \/ Fetch(p) \/ Show(p)
      PROVE  /\ \A q \in Requests \ {p} : proc'[q] = proc[q]
             /\ IsFiniteSet(Active)'
  <2>1. /\ DOMAIN proc' = Requests
        /\ \A q \in Requests \ {p} : proc'[q] = proc[q]
    BY <1>3, OthersKeep
  <2>2. IsFiniteSet(Active) /\ IsFiniteSet(Active \cup {p})
    BY FS_AddElement DEF SlotsChained
  <2>3. Active' \subseteq Active \cup {p}
    BY <2>1
  <2>. HIDE DEF Active
  <2>. QED BY <2>1, <2>2, <2>3, FS_Subset
<1>4. ASSUME NEW p \in Requests, Acquire(p)
      PROVE  SlotsChained'
  <2>0. PICK u, d, slot : u = proc[p].service /\ d = DomainKey(proc[p].call.url) /\ slot = proc'[p].until
    OBVIOUS
  <2>1. /\ u \in Requests /\ d \in Hosts /\ slot \in Nat
        /\ last' = [last EXCEPT ![u][d] = slot]
        /\ proc[p].pc = "acquire" /\ clock' = clock
        /\ AsleepNext(p, u, d, slot)
    BY <1>4, <2>0, AcquireStep
  <2>2. last[u][d] \in Nat /\ slot = IF last[u][d] + Delay > clock THEN last[u][d] + Delay ELSE clock
    BY <1>4, <2>0, AcquireSlot
  <2>3. (\A q \in Requests \ {p} : proc'[q] = proc[q]) /\ IsFiniteSet(Active)'
    BY <1>3, <1>4
  <2>4. ASSUME NEW q \in Requests, NEW s, NEW h, NEW t, Asleep(q, s, h, t)
        PROVE  AsleepNext(q, s, h, t) /\ q # p
    BY <2>1, <2>3, <2>4 DEF Slot
  <2>5. ASSUME NEW s \in Requests, NEW h \in Hosts, last'[s][h] > clock
        PROVE  \E q \in Requests : AsleepNext(q, s, h, last'[s][h])
    <3>1. CASE s = u /\ h = d
      <4>1. last'[s][h] = slot
        BY <2>1, <3>1 DEF Shape
      <4>. QED BY <2>1, <3>1, <4>1
    <3>2. CASE ~(s = u /\ h = d)
      <4>1. last'[s][h] = last[s][h]
        BY <2>1, <3>2 DEF Shape
      <4>2. PICK q \in Requests : Asleep(q, s, h, last[s][h])
        BY <2>5, <4>1 DEF SlotsChained
      <4>. QED BY <2>4, <4>1, <4>2
    <3>. QED BY <3>1, <3>2
  <2>6. ASSUME NEW q \in Requests, proc'[q].pc = "sleep", Slot(q)' > clock + Delay
        PROVE  \E r \in Requests : (proc[r].pc = "sleep" /\ SameLimiter(q, r) /\ Slot(r) = Slot(q) - Delay)'
    <3>1. CASE q = p
      <4>1. Slot(q)' = slot /\ slot = last[u][d] + Delay /\ last[u][d] > clock
        <5>1. clock \in Nat /\ Slot(q)' = slot
          BY <2>0, <3>1, SleepersTyped DEF Slot
        <5>. QED BY <2>2, <2>6, <5>1, DelayAssumption
      <4>2. PICK r \in Requests : Asleep(r, u, d, last[u][d])
        BY <2>1, <4>1 DEF SlotsChained
      <4>3. AsleepNext(r, u, d, last[u][d])
        BY <2>4, <4>2
      <4>4. last[u][d] = slot - Delay
        BY <2>2, <4>1, DelayAssumption
      <4>. QED BY <2>1, <3>1, <4>1, <4>3, <4>4 DEF SameLimiter, Slot
    <3>2. CASE q # p
      <4>1. proc'[q] = proc[q] /\ Slot(q)' = Slot(q)
        BY <2>3, <3>2 DEF Slot
      <4>2. PICK r \in Requests : proc[r].pc = "sleep" /\ SameLimiter(q, r) /\ Slot(r) = Slot(q) - Delay
        BY <2>6, <4>1 DEF SlotsChained
      <4>3. r # p
        BY <2>1, <4>2
      <4>4. proc'[r] = proc[r]
        BY <2>3, <4>3
      <4>. QED BY <4>1, <4>2, <4>4 DEF SameLimiter, Slot
    <3>. QED BY <3>1, <3>2
  <2>. QED BY <2>1, <2>3, <2>5, <2>6 DEF SlotsChained, Slot
<1>5. ASSUME NEW p \in Requests,
             \/ Arrive(p) \/ CheckService(p) \/ MakeService(p) \/ TakeService(p)
             \/ CheckRobots(p) \/ Wake(p) \/ Fetch(p) \/ Show(p)
      PROVE  SlotsChained'
  <2>1. (\A q \in Requests \ {p} : proc'[q] = proc[q]) /\ IsFiniteSet(Active)'
    BY <1>3, <1>5
  <2>2. /\ last' = last /\ clock' = clock /\ proc'[p].pc # "sleep"
        /\ proc[p].pc = "sleep" => Slot(p) <= clock
    <3>. USE DEF Shape, Fields, Sleeping, Slot
    <3>1. CASE Arrive(p) BY <3>1 DEF Arrive
    <3>2. CASE CheckService(p) BY <3>2 DEF CheckService, Goto
    <3>3. CASE MakeService(p) BY <3>3 DEF MakeService, Goto
    <3>4. CASE TakeService(p) BY <3>4 DEF TakeService
    <3>5. CASE CheckRobots(p) BY <3>5 DEF CheckRobots, Goto
    <3>6. CASE Wake(p)
      <4>1. proc[p].until <= clock
        BY <3>6 DEF Wake
      <4>. QED BY <3>6, <4>1, WakeStep
    <3>7. CASE Fetch(p) BY <3>7, FetchStep
    <3>8. CASE Show(p) BY <3>8 DEF Show
    <3>. QED BY <1>5, <3>1, <3>2, <3>3, <3>4, <3>5, <3>6, <3>7, <3>8
  <2>3. ASSUME NEW q \in Requests, proc[q].pc = "sleep", Slot(q) > clock
        PROVE  proc'[q] = proc[q]
    <3>1. q # p
      BY <2>2, <2>3, SleepersTyped
    <3>. QED BY <2>1, <3>1
  <2>4. ASSUME NEW s \in Requests, NEW h \in Hosts, last[s][h] > clock
        PROVE  \E q \in Requests : AsleepNext(q, s, h, last[s][h])
    <3>1. PICK q \in Requests : Asleep(q, s, h, last[s][h])
      BY <2>4 DEF SlotsChained
    <3>2. proc'[q] = proc[q]
      BY <2>3, <2>4, <3>1
    <3>. QED BY <2>2, <3>1, <3>2 DEF Slot
  <2>5. ASSUME NEW q \in Requests, proc'[q].pc = "sleep", Slot(q)' > clock + Delay
        PROVE  \E r \in Requests : (proc[r].pc = "sleep" /\ SameLimiter(q, r) /\ Slot(r) = Slot(q) - Delay)'
    <3>1. q # p /\ proc'[q] = proc[q] /\ Slot(q)' = Slot(q)
      BY <2>1, <2>2, <2>5 DEF Slot
    <3>2. PICK r \in Requests : proc[r].pc = "sleep" /\ SameLimiter(q, r) /\ Slot(r) = Slot(q) - Delay
      BY <2>5, <3>1 DEF SlotsChained
    <3>3. Slot(r) > clock
      BY <2>5, <3>1, <3>2, SleepersTyped, DelayAssumption
    <3>4. proc'[r] = proc[r]
      BY <2>3, <3>2, <3>3
    <3>. QED BY <3>1, <3>2, <3>4 DEF SameLimiter, Slot
  <2>6. \A s \in Requests, h \in Hosts :
          last'[s][h] > clock' => \E q \in Requests : AsleepNext(q, s, h, last[s][h])
    BY <2>2, <2>4
  <2>. QED BY <2>1, <2>2, <2>5, <2>6 DEF SlotsChained, Slot
<1>. QED BY <1>1, <1>2, <1>4, <1>5, NextSteps

\* A further request ahead makes up for a further delay.
LEMMA OneMoreDelay ==
  ASSUME NEW m \in Nat, NEW n \in Nat, m + 1 <= n
  PROVE  Delay * m + Delay <= Delay * n /\ Delay * m \in Nat /\ Delay * n \in Nat
<1>1. Delay \in Nat /\ Delay * (m + 1) = Delay * m + Delay
  BY DelayAssumption
<1>2. PICK k \in Nat : n = (m + 1) + k
  <2>1. n - (m + 1) \in Nat /\ n = (m + 1) + (n - (m + 1))
    OBVIOUS
  <2>. QED BY <2>1
<1>3. Delay * n = Delay * (m + 1) + Delay * k /\ Delay * k \in Nat /\ Delay * m \in Nat
  BY <1>1, <1>2
<1>. QED BY <1>1, <1>3

\* The sleeper of the least slot that is too late has one before it, by the chain.
LEMMA ChainBounds ==
  ASSUME WaitingInv
  PROVE  WaitBounded
<1>. DEFINE Ahead(p) == {q \in Requests : /\ proc[q].pc = "sleep" /\ SameLimiter(q, p)
                                          /\ Slot(q) <= Slot(p)}
            InTime(p) == Slot(p) - clock <= Delay * Cardinality(Ahead(p))
            late == {p \in Requests : proc[p].pc = "sleep" /\ ~InTime(p)}
<1>1. Shape /\ SlotsChained
  BY DEF WaitingInv
<1>2. ASSUME NEW p \in Requests
      PROVE  IsFiniteSet(Ahead(p)) /\ Cardinality(Ahead(p)) \in Nat
  <2>1. Ahead(p) \subseteq {q \in Requests : proc[q].pc # "new"}
    OBVIOUS
  <2>2. IsFiniteSet({q \in Requests : proc[q].pc # "new"})
    BY <1>1 DEF SlotsChained
  <2>3. IsFiniteSet(Ahead(p))
    BY <2>1, <2>2, FS_Subset
  <2>. QED BY <2>3, FS_CardinalityType
<1>3. ASSUME NEW p \in Requests, NEW before \in SUBSET Ahead(p), p \in Ahead(p), p \notin before
      PROVE  Cardinality(before) + 1 <= Cardinality(Ahead(p)) /\ Cardinality(before) \in Nat
  <2>. HIDE DEF Ahead
  <2>1. IsFiniteSet(before) /\ IsFiniteSet(Ahead(p))
    BY <1>2, FS_Subset
  <2>2. Cardinality(before \cup {p}) = Cardinality(before) + 1
    BY <1>3, <2>1, FS_AddElement
  <2>3. Cardinality(before \cup {p}) <= Cardinality(Ahead(p))
    BY <1>3, <2>1, FS_Subset
  <2>. QED BY <2>1, <2>2, <2>3, FS_CardinalityType
<1>4. late = {}
  <2>1. SUFFICES ASSUME late # {} PROVE FALSE
    OBVIOUS
  <2>2. \A p \in late : Slot(p) \in Nat
    BY <1>1, SleepersTyped
  <2>3. PICK p \in late : \A q \in late : Slot(p) <= Slot(q)
    <3>. DEFINE slots == {Slot(q) : q \in late}
    <3>. HIDE DEF late
    <3>1. slots \subseteq Nat /\ slots # {}
      BY <2>1, <2>2
    <3>. HIDE DEF slots
    <3>2. PICK m \in slots : \A n \in slots : m <= n
      BY <3>1, LeastNat
    <3>. QED BY <3>2 DEF slots
  <2>4. /\ p \in Requests /\ proc[p].pc = "sleep" /\ ~InTime(p)
        /\ Slot(p) \in Nat /\ clock \in Nat /\ p \in Ahead(p)
    BY <1>1, <2>2, <2>3, SleepersTyped DEF SameLimiter
  <2>5. CASE Slot(p) <= clock + Delay
    <3>1. Cardinality({}) + 1 <= Cardinality(Ahead(p)) /\ Cardinality({}) = 0
      BY <1>3, <2>4, FS_EmptySet
    <3>0. PICK n \in Nat : n = Cardinality(Ahead(p))
      BY <1>2, <2>4
    <3>. HIDE DEF Ahead
    <3>4. 0 + 1 <= n
      BY <3>0, <3>1
    <3>5. Delay * 0 + Delay <= Delay * n /\ Delay * n \in Nat
      BY <3>4, OneMoreDelay
    <3>2. Delay <= Delay * Cardinality(Ahead(p)) /\ Delay * Cardinality(Ahead(p)) \in Nat
      BY <3>0, <3>5, DelayAssumption
    <3>3. InTime(p)
      BY <2>4, <2>5, <3>2, DelayAssumption
    <3>. QED BY <2>4, <3>3
  <2>6. CASE Slot(p) > clock + Delay
    <3>1. PICK q \in Requests : proc[q].pc = "sleep" /\ SameLimiter(p, q) /\ Slot(q) = Slot(p) - Delay
      BY <1>1, <2>4, <2>6 DEF SlotsChained
    <3>2. Slot(q) \in Nat /\ Slot(q) < Slot(p)
      BY <1>1, <2>4, <3>1, SleepersTyped, DelayAssumption
    <3>3. q \notin late
      BY <2>3, <2>4, <3>2
    <3>4. Slot(q) - clock <= Delay * Cardinality(Ahead(q))
      BY <3>1, <3>3
    <3>5. Ahead(q) \subseteq Ahead(p) /\ p \notin Ahead(q)
      <4>1. \A r \in Requests : proc[r].pc = "sleep" /\ Slot(r) <= Slot(q) => Slot(r) <= Slot(p)
        BY <1>1, <2>4, <3>2, SleepersTyped
      <4>2. \A r \in Requests : SameLimiter(r, q) => SameLimiter(r, p)
        BY <3>1 DEF SameLimiter
      <4>3. ~(Slot(p) <= Slot(q))
        BY <2>4, <3>2
      <4>. QED BY <4>1, <4>2, <4>3
    <3>6. Cardinality(Ahead(q)) + 1 <= Cardinality(Ahead(p)) /\ Cardinality(Ahead(q)) \in Nat
      BY <1>3, <2>4, <3>5
    <3>. HIDE DEF Ahead
    <3>7. /\ Delay * Cardinality(Ahead(q)) + Delay <= Delay * Cardinality(Ahead(p))
          /\ Delay * Cardinality(Ahead(q)) \in Nat /\ Delay * Cardinality(Ahead(p)) \in Nat
      BY <1>2, <2>4, <3>6, OneMoreDelay
    <3>8. InTime(p)
      BY <2>4, <3>1, <3>2, <3>4, <3>7, DelayAssumption
    <3>. QED BY <2>4, <3>8
  <2>. QED BY <2>4, <2>5, <2>6, DelayAssumption
<1>5. ASSUME NEW p \in Requests, proc[p].pc = "sleep"
      PROVE  LET ahead == {q \in Requests : /\ proc[q].pc = "sleep" /\ proc[q].service = proc[p].service
                                            /\ DomainKey(proc[q].call.url) = DomainKey(proc[p].call.url)}
             IN  Slot(p) - clock <= Delay * Cardinality(ahead)
  <2>. DEFINE ahead == {q \in Requests : /\ proc[q].pc = "sleep" /\ proc[q].service = proc[p].service
                                         /\ DomainKey(proc[q].call.url) = DomainKey(proc[p].call.url)}
  <2>1. InTime(p)
    BY <1>4, <1>5
  <2>2. Ahead(p) \subseteq ahead /\ ahead \subseteq {q \in Requests : proc[q].pc # "new"}
    BY DEF SameLimiter
  <2>3. IsFiniteSet(ahead)
    BY <1>1, <2>2, FS_Subset DEF SlotsChained
  <2>4. /\ Cardinality(Ahead(p)) <= Cardinality(ahead)
        /\ Cardinality(Ahead(p)) \in Nat /\ Cardinality(ahead) \in Nat
    BY <1>2, <2>2, <2>3, FS_Subset, FS_CardinalityType
  <2>5. Slot(p) \in Nat /\ clock \in Nat
    BY <1>1, <1>5, SleepersTyped
  <2>. HIDE DEF Ahead, ahead
  <2>6. Delay * Cardinality(Ahead(p)) <= Delay * Cardinality(ahead)
    <3>1. CASE Cardinality(Ahead(p)) = Cardinality(ahead)
      <4>1. Delay * Cardinality(ahead) \in Nat
        BY <2>4, DelayAssumption
      <4>. QED BY <3>1, <4>1
    <3>2. CASE Cardinality(Ahead(p)) + 1 <= Cardinality(ahead)
      BY <2>4, <3>2, OneMoreDelay, DelayAssumption
    <3>. QED BY <2>4, <3>1, <3>2
  <2>7. Delay * Cardinality(Ahead(p)) \in Nat /\ Delay * Cardinality(ahead) \in Nat
    BY <2>4, DelayAssumption
  <2>8. Slot(p) - clock <= Delay * Cardinality(ahead)
    BY <2>1, <2>5, <2>6, <2>7
  <2>. QED BY <2>8 DEF ahead
<1>. QED BY <1>5 DEF WaitBounded

\* For any delay, and however many previews ask for one domain at once and wake late: a
\* preview waits for no longer than a delay for each that waits there, itself included.
THEOREM WaitsAreBounded == Spec => []WaitBounded
<1>1. Init => WaitingInv
  <2>. SUFFICES ASSUME Init PROVE WaitingInv
    OBVIOUS
  <2>1. Shape /\ clock \in Nat
    BY ShapeInit DEF Shape
  <2>2. \A p \in Requests : proc[p].pc = "new"
    BY DEF Init, NewPreview
  <2>3. \A s \in Requests, h \in Hosts : last[s][h] = 0
    BY DEF Init
  <2>4. {p \in Requests : proc[p].pc # "new"} = {}
    BY <2>2
  <2>5. IsFiniteSet({p \in Requests : proc[p].pc # "new"})
    BY <2>4, FS_EmptySet
  <2>. QED BY <2>1, <2>2, <2>3, <2>5 DEF WaitingInv, SlotsChained
<1>2. WaitingInv /\ [Next]_vars => WaitingInv'
  BY ShapeStep, ChainStep DEF WaitingInv
<1>. QED BY <1>1, <1>2, ChainBounds, PTL DEF Spec

-----------------------------------------------------------------------------
(* What a preview shows of its page.                                       *)

\* A loop over L places that keeps to S has its values.
LEMMA LoopExists ==
  ASSUME NEW S, NEW start \in S, NEW L \in Nat, NEW f \in [1 .. L -> [S -> S]]
  PROVE  \E g \in [0 .. L -> S] : g[0] = start /\ \A n \in 1 .. L : g[n] = f[n][g[n - 1]]
<1>. DEFINE Runs(g, m) == /\ g \in [0 .. m -> S] /\ g[0] = start
                          /\ \A n \in 1 .. m : g[n] = f[n][g[n - 1]]
            stuck == {m \in 0 .. L : ~\E g : Runs(g, m)}
<1>0. SUFFICES ASSUME ~\E g : Runs(g, L) PROVE FALSE
  OBVIOUS
<1>1. stuck # {}
  <2>. HIDE DEF Runs
  <2>1. L \in stuck
    BY <1>0
  <2>. QED BY <2>1
<1>2. PICK m \in stuck : \A k \in stuck : m <= k
  <2>1. stuck \subseteq Nat
    OBVIOUS
  <2>. HIDE DEF stuck
  <2>. QED BY <1>1, <2>1, LeastNat
<1>3. m \in 0 .. L /\ ~\E g : Runs(g, m)
  OBVIOUS
<1>4. CASE m = 0
  <2>. DEFINE g == [n \in 0 .. 0 |-> start]
  <2>1. Runs(g, m)
    BY <1>4
  <2>. QED BY <1>3, <2>1
<1>5. CASE m # 0
  <2>1. m - 1 \in 0 .. L /\ m - 1 < m /\ m \in 1 .. L
    BY <1>3, <1>5
  <2>2. m - 1 \notin stuck
    <3>. HIDE DEF stuck
    <3>. QED BY <1>2, <2>1
  <2>3. PICK g : Runs(g, m - 1)
    BY <2>1, <2>2
  <2>. DEFINE h == [n \in 0 .. m |-> IF n = m THEN f[m][g[m - 1]] ELSE g[n]]
  <2>4. g[m - 1] \in S /\ f[m][g[m - 1]] \in S
    BY <2>1, <2>3
  <2>5. h \in [0 .. m -> S] /\ h[0] = start
    BY <1>3, <1>5, <2>1, <2>3, <2>4
  <2>6. ASSUME NEW n \in 1 .. m PROVE h[n] = f[n][h[n - 1]]
    <3>1. CASE n = m
      BY <2>1, <3>1
    <3>2. CASE n # m
      <4>1. n \in 1 .. m - 1 /\ n - 1 \in 0 .. m - 1 /\ n \in 0 .. m /\ n - 1 \in 0 .. m /\ n - 1 # m
        BY <2>1, <3>2
      <4>2. h[n] = g[n] /\ h[n - 1] = g[n - 1]
        BY <3>2, <4>1
      <4>. HIDE DEF h
      <4>. QED BY <2>3, <4>1, <4>2
    <3>. QED BY <3>1, <3>2
  <2>. HIDE DEF h
  <2>7. Runs(h, m)
    BY <2>5, <2>6
  <2>. QED BY <1>3, <2>7
<1>. QED BY <1>4, <1>5

\* A property of the first place, and of each that follows one that has it, is one
\* of all places.
LEMMA LoopInduction ==
  ASSUME NEW L \in Nat, NEW good, good \subseteq 0 .. L, 0 \in good,
         \A n \in 1 .. L : n - 1 \in good => n \in good
  PROVE  good = 0 .. L
<1>1. SUFFICES ASSUME (0 .. L) \ good # {} PROVE FALSE
  OBVIOUS
<1>2. (0 .. L) \ good \subseteq Nat
  OBVIOUS
<1>3. PICK m \in (0 .. L) \ good : \A k \in (0 .. L) \ good : m <= k
  BY <1>1, <1>2, LeastNat
<1>4. m \in 1 .. L /\ m - 1 \in 0 .. L /\ m - 1 < m
  BY <1>3
<1>. QED BY <1>3, <1>4

\* _unique_matches: what the matches say, each once.
LEMMA UniqueSays ==
  ASSUME NEW M, NEW ms \in Seq(M)
  PROVE  LET u == UniqueMatches(ms)
         IN  /\ u \in Seq(M)
             /\ {u[k].says : k \in 1 .. Len(u)} = {ms[i].says : i \in 1 .. Len(ms)}
             /\ \A j, k \in 1 .. Len(u) : u[j].says = u[k].says => j = k
<1>. DEFINE L == Len(ms)
            Good(g) == g = [n \in 0 .. L |->
                              IF n = 0 THEN <<>>
                              ELSE IF \E k \in DOMAIN g[n - 1] : g[n - 1][k].says = ms[n].says
                                   THEN g[n - 1] ELSE Append(g[n - 1], ms[n])]
            ordered == CHOOSE g : Good(g)
            Step(seen, n) == IF \E k \in DOMAIN seen : seen[k].says = ms[n].says
                             THEN seen ELSE Append(seen, ms[n])
            f == [n \in 1 .. L |-> [seen \in Seq(M) |-> Step(seen, n)]]
<1>1. UniqueMatches(ms) = ordered[L]
  BY DEF UniqueMatches
<1>2. L \in Nat /\ <<>> \in Seq(M)
  OBVIOUS
<1>3. ASSUME NEW seen \in Seq(M), NEW n \in 1 .. L
      PROVE  Step(seen, n) \in Seq(M) /\ f[n][seen] = Step(seen, n)
  OBVIOUS
<1>4. f \in [1 .. L -> [Seq(M) -> Seq(M)]]
  <2>. HIDE DEF Step
  <2>. QED BY <1>3
<1>5. \E g : Good(g)
  <2>. DEFINE S == Seq(M)
  <2>0. <<>> \in S /\ f \in [1 .. L -> [S -> S]]
    BY <1>2, <1>4
  <2>. HIDE DEF f, S, L
  <2>a. PICK T, K, h, start : T = S /\ K = L /\ h = f /\ start = <<>>
    OBVIOUS
  <2>b. start \in T /\ K \in Nat /\ h \in [1 .. K -> [T -> T]]
    BY <1>2, <2>0, <2>a
  <2>c. PICK g \in [0 .. K -> T] : g[0] = start /\ \A n \in 1 .. K : g[n] = h[n][g[n - 1]]
    BY <2>b, LoopExists
  <2>1. /\ g \in [0 .. L -> S]
        /\ g[0] = <<>> /\ \A n \in 1 .. L : g[n] = f[n][g[n - 1]]
    BY <2>a, <2>c
  <2>2. ASSUME NEW n \in 0 .. L
        PROVE  g[n] = IF n = 0 THEN <<>>
                      ELSE IF \E k \in DOMAIN g[n - 1] : g[n - 1][k].says = ms[n].says
                           THEN g[n - 1] ELSE Append(g[n - 1], ms[n])
    <3>1. CASE n = 0
      BY <2>1, <3>1
    <3>2. CASE n # 0
      <4>a. n \in 1 .. L /\ n - 1 \in 0 .. L
        BY <1>2, <3>2
      <4>b. g[n - 1] \in S
        BY <2>1, <4>a
      <4>1. n \in 1 .. L /\ g[n - 1] \in Seq(M)
        BY <4>a, <4>b DEF S
      <4>2. g[n] = Step(g[n - 1], n)
        BY <1>3, <2>1, <4>1
      <4>. QED BY <3>2, <4>2
    <3>. QED BY <3>1, <3>2
  <2>3. g = [n \in 0 .. L |-> g[n]]
    BY <2>1
  <2>4. Good(g)
    BY <2>2, <2>3
  <2>. QED BY <2>4
<1>6. Good(ordered)
  <2>. HIDE DEF Good
  <2>. QED BY <1>5
<1>7. ordered[0] = <<>> /\ \A n \in 1 .. L : ordered[n] = Step(ordered[n - 1], n)
  <2>. HIDE DEF ordered
  <2>1. ordered[0] = <<>>
    BY <1>2, <1>6
  <2>2. ASSUME NEW n \in 1 .. L PROVE ordered[n] = Step(ordered[n - 1], n)
    <3>1. n \in 0 .. L /\ n # 0
      BY <1>2
    <3>2. ordered[n] = IF \E k \in DOMAIN ordered[n - 1] : ordered[n - 1][k].says = ms[n].says
                       THEN ordered[n - 1] ELSE Append(ordered[n - 1], ms[n])
      <4>. HIDE DEF L
      <4>. QED BY <1>6, <3>1
    <3>. QED BY <3>2
  <2>. QED BY <2>1, <2>2
<1>. DEFINE Once(u, n) == /\ u \in Seq(M)
                          /\ \A k \in 1 .. Len(u) : \E i \in 1 .. n : u[k].says = ms[i].says
                          /\ \A i \in 1 .. n : \E k \in 1 .. Len(u) : u[k].says = ms[i].says
                          /\ \A j, k \in 1 .. Len(u) : u[j].says = u[k].says => j = k
            good == {n \in 0 .. L : Once(ordered[n], n)}
<1>8. ASSUME NEW seen, NEW n \in 1 .. L, Once(seen, n - 1)
      PROVE  Once(Step(seen, n), n)
  <2>1. /\ seen \in Seq(M) /\ DOMAIN seen = 1 .. Len(seen) /\ Len(seen) \in Nat
        /\ \A i \in 1 .. n : i \in 1 .. n - 1 \/ i = n
        /\ \A i \in 1 .. n - 1 : i \in 1 .. n
        /\ n \in 1 .. n /\ ms[n] \in M
    BY <1>2, <1>8
  <2>2. CASE \E k \in DOMAIN seen : seen[k].says = ms[n].says
    <3>1. Step(seen, n) = seen
      BY <2>2
    <3>2. \A k \in 1 .. Len(seen) : \E i \in 1 .. n : seen[k].says = ms[i].says
      BY <1>8, <2>1
    <3>3. \A i \in 1 .. n : \E k \in 1 .. Len(seen) : seen[k].says = ms[i].says
      BY <1>8, <2>1, <2>2
    <3>. HIDE DEF Step
    <3>. QED BY <1>8, <2>1, <3>1, <3>2, <3>3
  <2>3. CASE ~\E k \in DOMAIN seen : seen[k].says = ms[n].says
    <3>. DEFINE more == Append(seen, ms[n])
    <3>1. Step(seen, n) = more
      BY <2>3
    <3>2. /\ more \in Seq(M) /\ Len(more) = Len(seen) + 1 /\ more[Len(seen) + 1] = ms[n]
          /\ \A k \in 1 .. Len(seen) : more[k] = seen[k]
      BY <2>1
    <3>. HIDE DEF more, Step
    <3>3. \A k \in 1 .. Len(more) : k \in 1 .. Len(seen) \/ k = Len(seen) + 1
      BY <2>1, <3>2
    <3>4. Len(seen) + 1 \in 1 .. Len(more) /\ \A k \in 1 .. Len(seen) : k \in 1 .. Len(more)
      BY <2>1, <3>2
    <3>5. \A k \in 1 .. Len(more) : \E i \in 1 .. n : more[k].says = ms[i].says
      BY <1>8, <2>1, <3>2, <3>3
    <3>6. ASSUME NEW i \in 1 .. n PROVE \E k \in 1 .. Len(more) : more[k].says = ms[i].says
      <4>1. CASE i = n
        BY <3>2, <3>4, <4>1
      <4>2. CASE i \in 1 .. n - 1
        <5>1. PICK k \in 1 .. Len(seen) : seen[k].says = ms[i].says
          BY <1>8, <4>2
        <5>. QED BY <3>2, <3>4, <5>1
      <4>. QED BY <2>1, <4>1, <4>2
    <3>7. ASSUME NEW j \in 1 .. Len(more), NEW k \in 1 .. Len(more), more[j].says = more[k].says
          PROVE  j = k
      BY <1>8, <2>1, <2>3, <3>2, <3>3, <3>7
    <3>. QED BY <3>1, <3>2, <3>5, <3>6, <3>7
  <2>. QED BY <2>2, <2>3
<1>9. good = 0 .. L
  <2>1. 0 \in good
    <3>1. Once(<<>>, 0)
      BY <1>2
    <3>. HIDE DEF Once, ordered
    <3>. QED BY <1>2, <1>7, <3>1
  <2>2. ASSUME NEW n \in 1 .. L, n - 1 \in good PROVE n \in good
    <3>. HIDE DEF Once, Step, ordered, L
    <3>1. Once(ordered[n - 1], n - 1) /\ n \in 0 .. L
      BY <1>2, <2>2
    <3>2. Once(ordered[n], n)
      BY <1>7, <1>8, <3>1
    <3>. QED BY <3>1, <3>2
  <2>3. good \subseteq 0 .. L
    OBVIOUS
  <2>. HIDE DEF good
  <2>. QED BY <1>2, <2>1, <2>2, <2>3, LoopInduction
<1>10. Once(ordered[L], L)
  <2>. HIDE DEF Once, ordered
  <2>. QED BY <1>2, <1>9
<1>. DEFINE u == UniqueMatches(ms)
<1>11. Once(u, L)
  <2>. HIDE DEF ordered, f, Good, Step, Once
  <2>. QED BY <1>1, <1>10
<1>. HIDE DEF u, ordered, f, Good, Step
<1>12. {u[k].says : k \in 1 .. Len(u)} = {ms[i].says : i \in 1 .. Len(ms)}
  <2>1. \A k \in 1 .. Len(u) : u[k].says \in {ms[i].says : i \in 1 .. Len(ms)}
    BY <1>11
  <2>2. \A i \in 1 .. Len(ms) : ms[i].says \in {u[k].says : k \in 1 .. Len(u)}
    BY <1>11
  <2>. QED BY <2>1, <2>2, Zenon
<1>13. u \in Seq(M) /\ \A j, k \in 1 .. Len(u) : u[j].says = u[k].says => j = k
  BY <1>11
<1>. QED BY <1>12, <1>13 DEF u

\* dedupe_records keeps every record when no two are of one contact.
LEMMA DedupeKeeps ==
  ASSUME NEW R, NEW records \in Seq(R),
         \A j, k \in 1 .. Len(records) : SameContact(records[j], records[k]) => j = k
  PROVE  DedupeRecords(records) = records
<1>. DEFINE L == Len(records)
            Good(g) == g = [n \in 0 .. L |->
                              IF n = 0 THEN <<>>
                              ELSE IF \E k \in DOMAIN g[n - 1] : SameContact(g[n - 1][k], records[n])
                                   THEN g[n - 1] ELSE Append(g[n - 1], records[n])]
            deduped == CHOOSE g : Good(g)
            front == [n \in 0 .. L |-> [k \in 1 .. n |-> records[k]]]
<1>1. DedupeRecords(records) = deduped[L]
  BY DEF DedupeRecords
<1>2. L \in Nat /\ records = [k \in 1 .. L |-> records[k]] /\ \A k \in 1 .. L : records[k] \in R
  OBVIOUS
<1>3. ASSUME NEW n \in 0 .. L
      PROVE  /\ front[n] \in Seq(R) /\ Len(front[n]) = n /\ DOMAIN front[n] = 1 .. n
             /\ \A k \in 1 .. n : front[n][k] = records[k]
  <2>1. \A k \in 1 .. n : records[k] \in R
    BY <1>2
  <2>2. n \in Nat /\ front[n] = [k \in 1 .. n |-> records[k]]
    BY <1>2
  <2>. HIDE DEF L, front
  <2>3. front[n] \in [1 .. n -> R]
    BY <2>1, <2>2
  <2>. QED BY <2>2, <2>3
<1>4. ASSUME NEW n \in 1 .. L
      PROVE  /\ ~\E k \in DOMAIN front[n - 1] : SameContact(front[n - 1][k], records[n])
             /\ front[n] = Append(front[n - 1], records[n])
  <2>1. n - 1 \in 0 .. L /\ n \in 0 .. L /\ \A k \in 1 .. n - 1 : k \in 1 .. L /\ k # n
    BY <1>2
  <2>2. ~\E k \in DOMAIN front[n - 1] : SameContact(front[n - 1][k], records[n])
    <3>. HIDE DEF front, L
    <3>1. \A k \in 1 .. n - 1 : ~SameContact(records[k], records[n])
      BY <2>1 DEF L
    <3>2. DOMAIN front[n - 1] = 1 .. n - 1 /\ \A k \in 1 .. n - 1 : front[n - 1][k] = records[k]
      BY <1>3, <2>1
    <3>. QED BY <3>1, <3>2
  <2>3. front[n] = Append(front[n - 1], records[n])
    <3>. HIDE DEF front, L
    <3>1. front[n - 1] \in Seq(R) /\ Len(front[n - 1]) = n - 1 /\ records[n] \in R
      BY <1>2, <1>3, <2>1
    <3>2. front[n] \in Seq(R) /\ Len(front[n]) = n /\ \A k \in 1 .. n : front[n][k] = records[k]
      BY <1>3, <2>1
    <3>3. \A k \in 1 .. n - 1 : front[n - 1][k] = records[k]
      BY <1>3, <2>1
    <3>4. \A k \in 1 .. n : k \in 1 .. n - 1 \/ k = n
      BY <2>1
    <3>. DEFINE more == Append(front[n - 1], records[n])
    <3>5. more \in Seq(R) /\ Len(more) = n /\ \A k \in 1 .. n - 1 : more[k] = front[n - 1][k]
      BY <2>1, <3>1
    <3>6. more[n] = records[n]
      BY <2>1, <3>1
    <3>. HIDE DEF more
    <3>7. \A k \in 1 .. n : front[n][k] = more[k]
      BY <3>2, <3>3, <3>4, <3>5, <3>6
    <3>8. front[n] = more
      BY <3>2, <3>5, <3>7
    <3>. QED BY <3>8 DEF more
  <2>. QED BY <2>2, <2>3
<1>5. Good(front)
  <2>1. ASSUME NEW n \in 0 .. L
        PROVE  front[n] = IF n = 0 THEN <<>>
                          ELSE IF \E k \in DOMAIN front[n - 1] : SameContact(front[n - 1][k], records[n])
                               THEN front[n - 1] ELSE Append(front[n - 1], records[n])
    <3>1. CASE n = 0
      <4>1. front[0] \in Seq(R) /\ Len(front[0]) = 0
        BY <1>3, <3>1
      <4>. HIDE DEF front
      <4>. QED BY <3>1, <4>1
    <3>2. CASE n # 0
      <4>1. n \in 1 .. L
        BY <1>2, <3>2
      <4>. HIDE DEF front, L
      <4>. QED BY <1>4, <3>2, <4>1
    <3>. QED BY <3>1, <3>2
  <2>2. front = [n \in 0 .. L |-> front[n]]
    OBVIOUS
  <2>. HIDE DEF front
  <2>. QED BY <2>1, <2>2
<1>6. Good(deduped)
  <2>. HIDE DEF Good
  <2>. QED BY <1>5
<1>7. ASSUME NEW g, Good(g) PROVE g[0] = <<>> /\ \A n \in 1 .. L : g[n] = front[n] \/ g[n - 1] # front[n - 1]
  <2>1. g[0] = <<>>
    BY <1>2, <1>7
  <2>2. ASSUME NEW n \in 1 .. L, g[n - 1] = front[n - 1] PROVE g[n] = front[n]
    <3>1. n \in 0 .. L /\ n # 0
      BY <1>2
    <3>2. g[n] = IF \E k \in DOMAIN g[n - 1] : SameContact(g[n - 1][k], records[n])
                 THEN g[n - 1] ELSE Append(g[n - 1], records[n])
      <4>. HIDE DEF L, front
      <4>. QED BY <1>7, <3>1
    <3>. HIDE DEF front, Good
    <3>. QED BY <1>4, <2>2, <3>2
  <2>. QED BY <2>1, <2>2
<1>. DEFINE good == {n \in 0 .. L : deduped[n] = front[n]}
<1>8. good = 0 .. L
  <2>. HIDE DEF deduped, Good, L
  <2>1. 0 \in good
    <3>1. 0 \in 0 .. L /\ front[0] = <<>> 
      <4>1. front[0] \in Seq(R) /\ Len(front[0]) = 0
        BY <1>2, <1>3
      <4>. HIDE DEF front
      <4>. QED BY <1>2, <4>1
    <3>. HIDE DEF front
    <3>. QED BY <1>6, <1>7, <3>1
  <2>2. ASSUME NEW n \in 1 .. L, n - 1 \in good PROVE n \in good
    <3>. HIDE DEF front
    <3>1. n \in 0 .. L
      BY <1>2
    <3>. QED BY <1>6, <1>7, <2>2, <3>1
  <2>3. good \subseteq 0 .. L
    OBVIOUS
  <2>. HIDE DEF good
  <2>. QED BY <1>2, <2>1, <2>2, <2>3, LoopInduction
<1>9. deduped[L] = front[L]
  <2>. HIDE DEF deduped, front
  <2>. QED BY <1>2, <1>8
<1>10. front[L] = records
  BY <1>2
<1>. HIDE DEF deduped, front
<1>. QED BY <1>1, <1>9, <1>10

\* The parts of a confidence are a full score at most.
LEMMA ConfidenceBounded ==
  ASSUME NEW company, NEW title, NEW contacts, NEW long
  PROVE  BaseConfidence(company, title, contacts, long) <= 100
<1>1. \A b, n : If(b, n) = n \/ If(b, n) = 0
  BY Zenon DEF If
<1>. QED BY <1>1 DEF BaseConfidence

\* A sequence that names each member of a set once has as many places.
LEMMA OneEach ==
  ASSUME NEW f, NEW n \in Nat, DOMAIN f = 1 .. n,
         \A j, k \in 1 .. n : f[j] = f[k] => j = k
  PROVE  Cardinality({f[k] : k \in 1 .. n}) = n
<1>. DEFINE T == {f[k] : k \in 1 .. n}
            g == [k \in 1 .. n |-> f[k]]
<1>1. g \in Bijection(1 .. n, T)
  <2>1. g \in [1 .. n -> T] /\ \A t \in T : \E k \in 1 .. n : g[k] = t
    OBVIOUS
  <2>2. \A j, k \in 1 .. n : g[j] = g[k] => j = k
    OBVIOUS
  <2>. HIDE DEF g, T
  <2>. QED BY <2>1, <2>2 DEF Bijection, Injection, Surjection, IsInjective
<1>2. IsFiniteSet(1 .. n) /\ Cardinality(1 .. n) = n
  BY FS_Interval
<1>. HIDE DEF g, T
<1>3. ExistsBijection(1 .. n, T)
  BY <1>1 DEF ExistsBijection
<1>4. Cardinality(T) = n
  BY <1>2, <1>3, FS_Bijection
<1>. QED BY <1>4 DEF T

\* What is made of a page shows it.
LEMMA PageShown ==
  ASSUME NEW url, NEW page \in Pages
  PROVE  ShowsPage(DedupeRecords(ParseHtml(url, page)), page)
<1>. DEFINE mails    == {page.emails[n].says : n \in DOMAIN page.emails}
            u        == UniqueMatches(page.emails)
            contacts == ExtractContacts(page)
            company  == ExtractCompanyName(page, url)
            score    == BaseConfidence(company, page.title, contacts, page.long)
            Record(email) ==
              [company |-> company, website |-> WebsiteOrigin(url), title |-> page.title, email |-> email,
               phone |-> FirstOf(contacts.phones), whatsapp |-> FirstOf(contacts.whatsapps),
               source |-> url, confidence |-> score]
            parsed   == ParseHtml(url, page)
<1>0. SUFFICES /\ DedupeRecords(parsed) = parsed
               /\ Len(parsed) = Larger(1, Cardinality(mails))
               /\ {parsed[n].email : n \in DOMAIN parsed} = IF mails = {} THEN {Nothing} ELSE mails
               /\ \A n \in DOMAIN parsed : parsed[n].confidence <= 100
  BY DEF ShowsPage
<1>1. score <= 100
  BY ConfidenceBounded
<1>2. /\ u \in Seq(ToSet(page.emails))
      /\ {u[k].says : k \in 1 .. Len(u)} = mails
      /\ \A j, k \in 1 .. Len(u) : u[j].says = u[k].says => j = k
  <2>1. page.emails \in Seq(ToSet(page.emails))
    BY PagesAssumption
  <2>2. DOMAIN page.emails = 1 .. Len(page.emails)
    BY <2>1
  <2>. HIDE DEF u
  <2>3. /\ u \in Seq(ToSet(page.emails))
        /\ {u[k].says : k \in 1 .. Len(u)} = {page.emails[i].says : i \in 1 .. Len(page.emails)}
        /\ \A j, k \in 1 .. Len(u) : u[j].says = u[k].says => j = k
    BY <2>1, UniqueSays DEF u
  <2>. QED BY <2>2, <2>3
<1>3. Len(u) \in Nat
  BY <1>2
<1>4. /\ contacts.emails = [k \in 1 .. Len(u) |-> u[k].says]
      /\ contacts.emails = <<>> <=> Len(u) = 0
  <2>1. contacts.emails = [k \in 1 .. Len(u) |-> u[k].says]
    BY DEF ExtractContacts, Says
  <2>. HIDE DEF u, contacts
  <2>2. Len(u) = 0 => contacts.emails = <<>>
    BY <2>1
  <2>3. contacts.emails = <<>> => Len(u) = 0
    BY <1>3, <2>1
  <2>. QED BY <2>1, <2>2, <2>3
<1>5. Cardinality(mails) = Len(u)
  <2>. DEFINE f == [k \in 1 .. Len(u) |-> u[k].says]
  <2>. HIDE DEF u, mails
  <2>1. DOMAIN f = 1 .. Len(u) /\ (\A j, k \in 1 .. Len(u) : f[j] = f[k] => j = k)
        /\ {f[k] : k \in 1 .. Len(u)} = mails
    BY <1>2
  <2>. HIDE DEF f
  <2>2. Cardinality({f[k] : k \in 1 .. Len(u)}) = Len(u)
    BY <1>3, <2>1, OneEach
  <2>. QED BY <2>1, <2>2
<1>6. parsed = IF contacts.emails = <<>> THEN <<Record(Nothing)>>
               ELSE [n \in 1 .. Len(contacts.emails) |-> Record(contacts.emails[n])]
  BY DEF ParseHtml
<1>7. \A e : Record(e).email = e /\ Record(e).website = WebsiteOrigin(url) /\ Record(e).confidence = score
  OBVIOUS
<1>. HIDE DEF u, mails, contacts, company, score, Record, parsed
<1>8. CASE Len(u) = 0
  <2>1. parsed = <<Record(Nothing)>>
    BY <1>4, <1>6, <1>8
  <2>2. DedupeRecords(parsed) = parsed
    <3>. DEFINE R == {Record(Nothing)}
    <3>1. parsed \in Seq(R) /\ Len(parsed) = 1
      BY <2>1
    <3>2. \A j, k \in 1 .. Len(parsed) : SameContact(parsed[j], parsed[k]) => j = k
      BY <3>1
    <3>. HIDE DEF R
    <3>. QED BY <3>1, <3>2, DedupeKeeps
  <2>3. mails = {} /\ Cardinality(mails) = 0
    BY <1>2, <1>5, <1>8
  <2>4. Len(parsed) = 1 /\ DOMAIN parsed = {1} /\ parsed[1].email = Nothing /\ parsed[1].confidence = score
    BY <1>7, <2>1
  <2>5. Larger(1, Cardinality(mails)) = 1
    BY <2>3 DEF Larger
  <2>6. {parsed[n].email : n \in DOMAIN parsed} = IF mails = {} THEN {Nothing} ELSE mails
    BY <2>3, <2>4
  <2>. QED BY <1>1, <2>2, <2>4, <2>5, <2>6
<1>9. CASE Len(u) # 0
  <2>1. Len(contacts.emails) = Len(u)
    BY <1>3, <1>4
  <2>2. parsed = [n \in 1 .. Len(u) |-> Record(u[n].says)]
    BY <1>3, <1>4, <1>6, <1>9, <2>1
  <2>3. DedupeRecords(parsed) = parsed
    <3>. DEFINE R == {Record(u[n].says) : n \in 1 .. Len(u)}
    <3>0. parsed \in [1 .. Len(u) -> R]
      BY <2>2
    <3>1. parsed \in Seq(R) /\ Len(parsed) = Len(u)
      BY <1>3, <3>0
    <3>2. ASSUME NEW j \in 1 .. Len(parsed), NEW k \in 1 .. Len(parsed), SameContact(parsed[j], parsed[k])
          PROVE  j = k
      <4>1. parsed[j].email = u[j].says /\ parsed[k].email = u[k].says
        BY <1>7, <2>2, <3>1
      <4>. QED BY <1>2, <3>1, <3>2, <4>1 DEF SameContact
    <3>. HIDE DEF R
    <3>. QED BY <3>1, <3>2, DedupeKeeps
  <2>4. Len(parsed) = Len(u) /\ DOMAIN parsed = 1 .. Len(u)
    BY <1>3, <2>2
  <2>5. \A n \in 1 .. Len(u) : parsed[n].email = u[n].says /\ parsed[n].confidence = score
    BY <1>7, <2>2
  <2>6. {parsed[n].email : n \in DOMAIN parsed} = mails
    BY <1>2, <2>4, <2>5
  <2>7. mails # {}
    <3>1. 1 \in 1 .. Len(u)
      BY <1>3, <1>9
    <3>. QED BY <1>2, <3>1
  <2>8. Larger(1, Cardinality(mails)) = Len(u)
    BY <1>3, <1>5, <1>9 DEF Larger
  <2>. QED BY <1>1, <2>3, <2>4, <2>5, <2>6, <2>7, <2>8
<1>. QED BY <1>3, <1>8, <1>9

\* For any pages: a preview shows the addresses of its page, each once.
THEOREM PreviewsShowThePage == Spec => []PreviewIsThePage
<1>1. Init => Shape /\ PreviewIsThePage
  <2>. SUFFICES ASSUME Init PROVE PreviewIsThePage
    BY ShapeInit
  <2>1. \A p \in Requests : proc[p].pc = "new"
    BY DEF Init, NewPreview
  <2>. QED BY <2>1 DEF PreviewIsThePage
<1>2. ASSUME Shape, PreviewIsThePage, [Next]_vars PROVE PreviewIsThePage'
  <2>1. CASE UNCHANGED vars
    BY <1>2, <2>1 DEF vars, PreviewIsThePage
  <2>2. CASE Tick
    BY <1>2, <2>2 DEF Tick, PreviewIsThePage
  <2>3. ASSUME NEW p \in Requests,
               \/ Arrive(p) \/ CheckService(p) \/ MakeService(p) \/ TakeService(p)
               \/ CheckRobots(p) \/ Acquire(p) \/ Wake(p) \/ Fetch(p) \/ Show(p)
        PROVE  PreviewIsThePage'
    <3>1. /\ DOMAIN proc' = Requests /\ DOMAIN proc'[p] = Fields
          /\ \A q \in Requests \ {p} : proc'[q] = proc[q]
      BY <1>2, <2>3, OthersKeep
    <3>2. CASE proc'[p].pc # "shown"
      BY <1>2, <3>1, <3>2 DEF PreviewIsThePage
    <3>3. CASE Show(p)
      <4>1. PICK page \in Pages : proc' = [proc EXCEPT ![p] =
               [@ EXCEPT !.answer = "ok", !.pc = "shown", !.page = page,
                         !.records = DedupeRecords(ParseHtml(proc[p].call.url, page))]]
        BY <3>3 DEF Show
      <4>2. proc'[p].page = page /\ proc'[p].records = DedupeRecords(ParseHtml(proc[p].call.url, page))
        BY <1>2, <4>1 DEF Shape, Fields
      <4>3. ShowsPage(proc'[p].records, proc'[p].page)
        BY <4>2, PageShown
      <4>. QED BY <1>2, <3>1, <4>3 DEF PreviewIsThePage
    <3>4. CASE ~Show(p)
      <4>1. proc'[p].pc # "shown"
        <5>. USE DEF Shape, Fields
        <5>1. CASE Arrive(p) BY <1>2, <5>1 DEF Arrive
        <5>2. CASE CheckService(p) BY <1>2, <5>2 DEF CheckService, Goto
        <5>3. CASE MakeService(p) BY <1>2, <5>3 DEF MakeService, Goto
        <5>4. CASE TakeService(p) BY <1>2, <5>4 DEF TakeService
        <5>5. CASE CheckRobots(p) BY <1>2, <5>5 DEF CheckRobots, Goto
        <5>6. CASE Acquire(p) BY <1>2, <5>6, AcquireStep
        <5>7. CASE Wake(p) BY <1>2, <5>7, WakeStep
        <5>8. CASE Fetch(p) BY <1>2, <5>8, FetchStep
        <5>. QED BY <2>3, <3>4, <5>1, <5>2, <5>3, <5>4, <5>5, <5>6, <5>7, <5>8
      <4>. QED BY <3>2, <4>1
    <3>. QED BY <3>3, <3>4
  <2>. QED BY <1>2, <2>1, <2>2, <2>3, NextSteps
<1>3. Shape /\ PreviewIsThePage /\ [Next]_vars => (Shape /\ PreviewIsThePage)'
  BY <1>2, ShapeStep
<1>. QED BY <1>1, <1>3, PTL DEF Spec
=============================================================================
