---------------------------- MODULE CrawlerFetch ----------------------------
(***************************************************************************)
(* The web crawler behind /api/v1/crawler (services/crawler_service.py,    *)
(* crawler/limiter.py, robots.py): concurrent previews share one service,  *)
(* whose limiter spaces the fetches of a domain, and retry what failed.    *)
(*                                                                         *)
(* Each preview is a thread.  The service is made by the first request     *)
(* that finds none, without a lock.  The limiter hands out a slot under    *)
(* its lock and the thread sleeps outside of it, possibly for longer than  *)
(* asked.  Time is in half seconds; it passes while a thread sleeps, and   *)
(* otherwise up to a bound.  The remote site answers as it pleases.        *)
(***************************************************************************)
EXTENDS CrawlParse

CONSTANTS
  Requests,    \* previews, each made at most once
  Calls,       \* their arguments: [url, retries : Nat, respect : BOOLEAN]
  Pages,       \* the pages a site may send
  Hosts,       \* the hosts in the URLs, without www
  Delay,       \* crawler_per_domain_delay
  StartTimes,  \* the monotonic clock when the server starts
  Horizon      \* bound: until when time passes although no thread sleeps

ASSUME DelayAssumption == Delay \in Nat \ {0}
ASSUME StartAssumption == StartTimes \subseteq Nat /\ Horizon \in Nat
ASSUME CallsAssumption ==
  /\ \A c \in Calls : c.url.host \in Hosts /\ c.retries \in Nat /\ c.respect \in BOOLEAN
  /\ Nothing \notin Requests
ASSUME PagesAssumption == \A page \in Pages : page.emails \in Seq(ToSet(page.emails))

VARIABLES
  clock,
  service, \* the global service, named by the request that made it
  last,    \* _last_request_at of each service's limiter
  proc,    \* the local state of each preview
  remade,  \* a service was made although there was one (history)
  started  \* the fetches that have begun (history): [by, attempt, service, host,
           \*   slot : what the limiter gave, began : when the thread woke]

vars == <<clock, service, last, proc, remade, started>>

Answers   == {"ok", "busy", "lost", "refused", "broken"}
Retryable == {"busy", "lost"}   \* 429 and 5xx; timeouts and connection errors
RobotsAnswers == {"allow", "deny", "forbidden", "missing", "failed"}

NewPreview == [pc |-> "new", call |-> Nothing, service |-> Nothing, attempt |-> 0, until |-> 0,
               answer |-> Nothing, page |-> Nothing, records |-> <<>>]

GettingService == {"check", "make", "take"}
Sleeping == {"sleep", "backoff"}
Ended    == {"shown", "robots_disallowed", "fetch_failed"}

Goto(p, pc) == proc' = [proc EXCEPT ![p].pc = pc]

Init ==
  /\ clock \in StartTimes
  /\ service = Nothing
  /\ last = [s \in Requests |-> [h \in Hosts |-> 0]]
  /\ proc = [p \in Requests |-> NewPreview]
  /\ remade = FALSE
  /\ started = {}

-----------------------------------------------------------------------------
(* get_crawler_service: test, construction, and a second reading.          *)

Arrive(p) ==
  /\ proc[p].pc = "new"
  /\ \E c \in Calls : proc' = [proc EXCEPT ![p] = [@ EXCEPT !.pc = "check", !.call = c]]
  /\ UNCHANGED <<clock, service, last, remade, started>>

CheckService(p) ==
  /\ proc[p].pc = "check"
  /\ Goto(p, IF service = Nothing THEN "make" ELSE "take")
  /\ UNCHANGED <<clock, service, last, remade, started>>

MakeService(p) ==
  /\ proc[p].pc = "make"
  /\ service' = p
  /\ remade' = (remade \/ service # Nothing)
  /\ Goto(p, "take")
  /\ UNCHANGED <<clock, last, started>>

TakeService(p) ==
  /\ proc[p].pc = "take"
  /\ proc' = [proc EXCEPT ![p] = [@ EXCEPT !.pc = "robots", !.service = service]]
  /\ UNCHANGED <<clock, service, last, remade, started>>

\* robots.txt is fetched outside of the limiter; 401 and 403 deny, and what is not
\* there, or cannot be had, allows.
CheckRobots(p) ==
  /\ proc[p].pc = "robots"
  /\ \E a \in RobotsAnswers :
       Goto(p, IF proc[p].call.respect /\ a \in {"deny", "forbidden"} THEN "robots_disallowed" ELSE "acquire")
  /\ UNCHANGED <<clock, service, last, remade, started>>

-----------------------------------------------------------------------------
(* fetch_html and the limiter.                                             *)

\* The host, without www.
DomainKey(url) == url.host

Larger(a, b) == IF a > b THEN a ELSE b

\* Bug: the time of the call is kept, and not that of the slot.
AcquireNow(p) ==
  LET s == proc[p].service  d == DomainKey(proc[p].call.url)
      wait == Larger(0, Delay - (clock - last[s][d]))
  IN  /\ proc[p].pc = "acquire"
      /\ last' = [last EXCEPT ![s][d] = clock]
      /\ proc' = [proc EXCEPT ![p] = [@ EXCEPT !.pc = "sleep", !.until = clock + wait]]
      /\ UNCHANGED <<clock, service, remade, started>>

\* Bug: the delay is added when the slot is kept and again when it is read.
AcquireTwice(p) ==
  LET s == proc[p].service  d == DomainKey(proc[p].call.url)
      wait == Larger(0, Delay - (clock - last[s][d]))
  IN  /\ proc[p].pc = "acquire"
      /\ last' = [last EXCEPT ![s][d] = clock + wait + Delay]
      /\ proc' = [proc EXCEPT ![p] = [@ EXCEPT !.pc = "sleep", !.until = clock + wait]]
      /\ UNCHANGED <<clock, service, remade, started>>

Acquire(p) ==
  LET s == proc[p].service  d == DomainKey(proc[p].call.url)
      wait == Larger(0, Delay - (clock - last[s][d]))
  IN  /\ proc[p].pc = "acquire"
      /\ last' = [last EXCEPT ![s][d] = clock + wait]
      /\ proc' = [proc EXCEPT ![p] = [@ EXCEPT !.pc = "sleep", !.until = clock + wait]]
      /\ UNCHANGED <<clock, service, remade, started>>

Begun(p) == [by |-> p, attempt |-> proc[p].attempt, service |-> proc[p].service,
             host |-> DomainKey(proc[p].call.url), slot |-> proc[p].until, began |-> clock]

Wake(p) ==
  /\ proc[p].pc \in Sleeping
  /\ proc[p].until <= clock
  /\ IF proc[p].pc = "sleep"
     THEN Goto(p, "fetch") /\ started' = started \cup {Begun(p)}
     ELSE /\ proc' = [proc EXCEPT ![p] = [@ EXCEPT !.pc = "acquire", !.attempt = proc[p].attempt + 1]]
          /\ UNCHANGED started
  /\ UNCHANGED <<clock, service, last, remade>>

BackoffSleep(attempt) == Larger(0, IF 2 ^ attempt < 20 THEN 2 ^ attempt ELSE 20)

\* Bug: one attempt too few.
FetchOnce(p) ==
  /\ proc[p].pc = "fetch"
  /\ \E a \in Answers \ {"ok"} :
       proc' = [proc EXCEPT ![p] =
         [@ EXCEPT !.answer = a,
                   !.pc = IF a \in Retryable /\ proc[p].attempt + 1 < proc[p].call.retries
                          THEN "backoff" ELSE "fetch_failed",
                   !.until = clock + BackoffSleep(proc[p].attempt)]]
  /\ UNCHANGED <<clock, service, last, remade, started>>

\* Bug: an error of the third kind is not caught, and the thread ends.
FetchUncaught(p) ==
  /\ proc[p].pc = "fetch"
  /\ \E a \in Answers \ {"ok"} :
       proc' = [proc EXCEPT ![p] =
         IF a = "broken" THEN NewPreview
         ELSE [@ EXCEPT !.answer = a,
                  !.pc = IF a \in Retryable /\ proc[p].attempt < proc[p].call.retries
                         THEN "backoff" ELSE "fetch_failed",
                  !.until = clock + BackoffSleep(proc[p].attempt)]]
  /\ UNCHANGED <<clock, service, last, remade, started>>

\* There are retries + 1 attempts, and after the last one no backoff.
Fetch(p) ==
  /\ proc[p].pc = "fetch"
  /\ \E a \in Answers \ {"ok"} :
       proc' = [proc EXCEPT ![p] =
         [@ EXCEPT !.answer = a,
                   !.pc = IF a \in Retryable /\ proc[p].attempt < proc[p].call.retries
                          THEN "backoff" ELSE "fetch_failed",
                   !.until = clock + BackoffSleep(proc[p].attempt)]]
  /\ UNCHANGED <<clock, service, last, remade, started>>

Show(p) ==
  /\ proc[p].pc = "fetch"
  /\ \E page \in Pages :
       proc' = [proc EXCEPT ![p] =
         [@ EXCEPT !.answer = "ok", !.pc = "shown", !.page = page,
                   !.records = DedupeRecords(ParseHtml(proc[p].call.url, page))]]
  /\ UNCHANGED <<clock, service, last, remade, started>>

\* A thread may sleep on when its time has come.
Tick ==
  /\ clock < Horizon \/ \E p \in Requests : proc[p].pc \in Sleeping /\ proc[p].until > clock
  /\ clock' = clock + 1
  /\ UNCHANGED <<service, last, proc, remade, started>>

-----------------------------------------------------------------------------
Run(p) == \/ CheckService(p) \/ MakeService(p) \/ TakeService(p) \/ CheckRobots(p)
          \/ Acquire(p) \/ Wake(p) \/ Fetch(p) \/ Show(p)

Next == Tick \/ \E p \in Requests : Arrive(p) \/ Run(p)

\* Threads are scheduled, time passes, and a fetch ends, if only by its timeout.
Fairness == WF_vars(Tick) /\ \A p \in Requests : WF_vars(Run(p))

Spec == Init /\ [][Next]_vars /\ Fairness

-----------------------------------------------------------------------------
(* Properties.                                                             *)

\* The slot that p waits for.
Waits(p) == proc[p].pc = "sleep"
Slot(p)  == proc[p].until
Distance(a, b) == IF a > b THEN a - b ELSE b - a

\* How late the thread of a fetch woke.
Late(f) == f.began - f.slot

\* A fetch that begins on time has no other of its domain within a delay after it,
\* whenever threads wake, and one that begins late has none for as much less as it is
\* late: of two, the second in the limiter's order does not come earlier.  So it is for
\* all fetches of one limiter, retries among them, and for those of all previews unless
\* a service, and with it a limiter, was made twice (DomainRateLimiter.acquire,
\* get_crawler_service).
FetchesSpaced ==
  \A f, g \in started :
    /\ f # g /\ f.host = g.host /\ f.slot <= g.slot
    /\ f.service = g.service \/ ~remade
    => g.began - f.began >= Delay - Late(f)

\* Nobody waits for longer than a delay for each request that waits for its domain
\* at the same service, itself included (DomainRateLimiter.acquire); the delay of a
\* server that has just started comes on top.
WaitBounded ==
  \A p \in Requests :
    proc[p].pc = "sleep" =>
      LET ahead == {q \in Requests : /\ proc[q].pc = "sleep" /\ proc[q].service = proc[p].service
                                     /\ DomainKey(proc[q].call.url) = DomainKey(proc[p].call.url)}
      IN  Slot(p) - clock <= Delay * Cardinality(ahead)

\* A preview fails only on an answer that no attempt follows: one that is not worth
\* a retry, or that of the last attempt, the one after retries others (fetch_html).
FailsForAReason ==
  \A p \in Requests :
    proc[p].pc = "fetch_failed" =>
      proc[p].answer \notin Retryable \cup {"ok"} \/ proc[p].attempt = proc[p].call.retries

\* The records name every mail address of the page, each once whatever its case, and
\* there is one record if the page has none.
ShowsPage(shown, page) ==
  LET mails == {page.emails[n].says : n \in DOMAIN page.emails}
  IN  /\ Len(shown) = Larger(1, Cardinality(mails))
      /\ {shown[n].email : n \in DOMAIN shown} = IF mails = {} THEN {Nothing} ELSE mails
      /\ \A n \in DOMAIN shown : shown[n].confidence <= 100

\* A preview shows what its page says (parse_html, dedupe_records).
PreviewIsThePage ==
  \A p \in Requests : proc[p].pc = "shown" => ShowsPage(proc[p].records, proc[p].page)

\* Every preview that arrives is answered.
EveryPreviewEnds == \A p \in Requests : proc[p].pc = "check" ~> proc[p].pc \in Ended

-----------------------------------------------------------------------------
(* Why fetches are spaced, waits are bounded and failures have a reason:   *)
(* the inductive invariants of CrawlerFetchProofs.                         *)

Working == {"robots", "acquire", "fetch"} \cup Sleeping
Fields  == {"pc", "call", "service", "attempt", "until", "answer", "page", "records"}

Shape ==
  /\ clock \in Nat
  /\ service \in Requests \cup {Nothing}
  /\ last \in [Requests -> [Hosts -> Nat]]
  /\ remade \in BOOLEAN
  /\ \A f \in started : f.service \in Requests /\ f.host \in Hosts /\ f.slot \in Nat /\ f.began \in Nat
  /\ DOMAIN proc = Requests
  /\ \A p \in Requests :
       /\ DOMAIN proc[p] = Fields
       /\ proc[p].pc \in {"new"} \cup GettingService \cup Working \cup Ended
       /\ proc[p].pc # "new" => proc[p].call \in Calls
       /\ proc[p].pc = "take" => service # Nothing
       /\ proc[p].pc \in Working => proc[p].service \in Requests
       /\ Waits(p) => proc[p].until \in Nat

\* Unless one was made twice, all that work and all that fetched have the service.
OneService ==
  ~remade => /\ \A p \in Requests : proc[p].pc \in Working => proc[p].service = service
             /\ \A f \in started : f.service = service

SameLimiter(p, q) ==
  /\ proc[p].service = proc[q].service
  /\ DomainKey(proc[p].call.url) = DomainKey(proc[q].call.url)

\* No slot is later than what its limiter keeps, no fetch begins before its slot, and
\* two slots of one limiter, waited for or fetched in, are a delay apart.
SlotsApart ==
  /\ \A p \in Requests : Waits(p) => Slot(p) <= last[proc[p].service][DomainKey(proc[p].call.url)]
  /\ \A f \in started : f.slot <= last[f.service][f.host] /\ f.slot <= f.began
  /\ \A p, q \in Requests :
       p # q /\ Waits(p) /\ Waits(q) /\ SameLimiter(p, q) => Distance(Slot(p), Slot(q)) >= Delay
  /\ \A p \in Requests, f \in started :
       Waits(p) /\ f.service = proc[p].service /\ f.host = DomainKey(proc[p].call.url)
       => Distance(Slot(p), f.slot) >= Delay
  /\ \A f, g \in started :
       f # g /\ f.service = g.service /\ f.host = g.host => Distance(f.slot, g.slot) >= Delay

\* The attempts stay within what the call allows, and a backoff is followed by one.
AttemptsCounted ==
  \A p \in Requests :
    /\ proc[p].pc = "new" => proc[p].attempt = 0
    /\ proc[p].pc # "new" => proc[p].attempt \in 0 .. proc[p].call.retries
    /\ proc[p].pc = "backoff" => proc[p].attempt < proc[p].call.retries

\* Slots that have not come are a chain, a delay from link to link, of sleepers who
\* wait for them: a limiter keeps the last one, and the first one is not far.
SlotsChained ==
  /\ IsFiniteSet({p \in Requests : proc[p].pc # "new"})
  /\ \A s \in Requests, h \in Hosts :
       last[s][h] > clock =>
         \E p \in Requests : /\ proc[p].pc = "sleep" /\ Slot(p) = last[s][h]
                             /\ proc[p].service = s /\ DomainKey(proc[p].call.url) = h
  /\ \A p \in Requests :
       proc[p].pc = "sleep" /\ Slot(p) > clock + Delay =>
         \E q \in Requests : /\ proc[q].pc = "sleep" /\ SameLimiter(p, q)
                             /\ Slot(q) = Slot(p) - Delay

SpacingInv == Shape /\ OneService /\ SlotsApart
WaitingInv == Shape /\ SlotsChained
FailureInv == Shape /\ AttemptsCounted /\ FailsForAReason
=============================================================================
