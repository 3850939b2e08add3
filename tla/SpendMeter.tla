----------------------------- MODULE SpendMeter -----------------------------
(***************************************************************************)
(* What a run spends on language-model calls: the in-memory CostMeter of    *)
(* the run (src/folio_insights/llm/cost.py), the usage ledger it writes     *)
(* (llm/usage.py, table llm_usage of the queue's database), and the port    *)
(* and HTTP transport that consult it around every request (llm/port.py).   *)
(*                                                                         *)
(* The runs are those of one run id: the attempts of one job, or the        *)
(* commands of one corpus and spend window.  Each has its own meter, which  *)
(* reads the ledger once, when it starts.  Prices are left out: a cost is a *)
(* number, a request has a bound, and the provider bills at most the bound. *)
(***************************************************************************)
EXTENDS Integers, FiniteSets, Functions

CONSTANTS
    MeteredRuns, PortCalls,    \* runs of the run id, and the port calls they make
    NoRun,
    Bounds,         \* worst cases a request can have
    Caps,           \* spend caps a run can be started with
    MaxRequests,    \* LLMPort.max_attempts: requests per call
    Overlapping     \* whether a run may start while another one is up

ASSUME SpendAssumption ==
    /\ NoRun \notin MeteredRuns
    /\ IsFiniteSet(PortCalls)
    /\ Bounds \subseteq Nat \ {0}
    /\ Caps \subseteq Nat \ {0}
    /\ MaxRequests \in Nat \ {0}
    /\ Overlapping \in BOOLEAN

VARIABLES
    meter,      \* the CostMeter of each run: whether its process is up, its
                \* cap, what it has spent, whether the run context is halted
    reserved,   \* what each call has reserved in the meter of its run
    call,       \* the task of each call and its CallAccount
    thread,     \* the reserve_attempt that runs in a thread for each call
    row,        \* the ledger row each call opened before its first request
    booked,     \* what each call booked without such a row
    billed      \* what the provider charges for the requests of each call

spendVars == <<meter, reserved, call, thread, row, booked, billed>>

Free  == [pc |-> "free", run |-> NoRun, sent |-> 0, bound |-> 0, charge |-> 0,
          usage |-> 0, unaccounted |-> 0]
Quiet == [pc |-> "none", bound |-> 0, amount |-> 0]
NoRow == [status |-> "none", cost |-> 0]

InitSpend ==
    /\ meter = [r \in MeteredRuns |-> [state |-> "new", cap |-> 0, spent |-> 0, halted |-> FALSE]]
    /\ reserved = [c \in PortCalls |-> 0]
    /\ call = [c \in PortCalls |-> Free]
    /\ thread = [c \in PortCalls |-> Quiet]
    /\ row = [c \in PortCalls |-> NoRow]
    /\ booked = [c \in PortCalls |-> 0]
    /\ billed = [c \in PortCalls |-> 0]

-----------------------------------------------------------------------------
CallAt(c, pc) == call[c].pc = pc
Up(r)     == meter[r].state = "up"
CallsOf(r) == {c \in PortCalls : call[c].run = r}

Charged(c)  == row[c].cost + booked[c]
RunTotal    == SumFunction([c \in PortCalls |-> Charged(c)])
Committed(r) == meter[r].spent + SumFunctionOnSet(reserved, CallsOf(r))

(* fault: only settled rows count *)
SettledTotal ==
    SumFunction([c \in PortCalls |-> IF row[c].status = "in_flight" THEN 0 ELSE Charged(c)])

(* CostMeter.__init__: what the ledger says of the run id, rows in flight   *)
(* included                                                                 *)
SeededSpend == RunTotal

HaltRun(r) == meter' = [meter EXCEPT ![r].halted = TRUE]

(* before_call and reserve_attempt: what the run has spent, what its other  *)
(* requests have reserved and this bound                                    *)
Exceeds(r, bound) == Committed(r) + bound > meter[r].cap

-----------------------------------------------------------------------------
(* A run starts: run_lease or _install_cli_llm_context makes the meter.     *)
StartRun(r, cap) ==
    /\ meter[r].state = "new"
    /\ ~Overlapping => \A o \in MeteredRuns : ~Up(o)
    /\ meter' = [meter EXCEPT ![r] = [state |-> "up", cap |-> cap, spent |-> SeededSpend,
                                      halted |-> FALSE]]
    /\ UNCHANGED <<reserved, call, thread, row, booked, billed>>

(* A call whose task was cancelled left a reservation in its thread. *)
Overtaken(c) == thread[c].pc # "none" /\ ~CallAt(c, "reserving")

(* the process stops and its memory is gone; the ledger stays as it is *)
StopRun(r) ==
    LET pc(c) == IF Overtaken(c) THEN "overtaken" ELSE "done"
    IN  /\ Up(r)
        /\ meter' = [meter EXCEPT ![r].state = "gone"]
        /\ reserved' = [c \in PortCalls |-> IF call[c].run = r THEN 0 ELSE reserved[c]]
        /\ call' = [c \in PortCalls |-> IF call[c].run = r THEN [Free EXCEPT !.pc = pc(c)]
                                    ELSE call[c]]
        /\ thread' = [c \in PortCalls |-> IF call[c].run = r THEN Quiet ELSE thread[c]]
        /\ UNCHANGED <<row, booked, billed>>

(* _call: raise_if_halted *)
BeginCall(c, r) ==
    /\ Up(r) /\ ~meter[r].halted
    /\ CallAt(c, "free")
    /\ call' = [call EXCEPT ![c].pc = "begun", ![c].run = r]
    /\ UNCHANGED <<meter, reserved, thread, row, booked, billed>>

(* before_call, in a thread: the first request, before framing, must fit *)
PreCheck(c, bound) ==
    LET r == call[c].run
    IN  /\ CallAt(c, "begun")
        /\ IF Exceeds(r, bound)
           THEN HaltRun(r) /\ call' = [call EXCEPT ![c].pc = "done"]
           ELSE call' = [call EXCEPT ![c].pc = "next"] /\ UNCHANGED meter
        /\ UNCHANGED <<reserved, thread, row, booked, billed>>

(* fault: a retry is not counted against the attempts *)
AskReserveAgain(c, bound) ==
    /\ CallAt(c, "next")
    /\ call' = [call EXCEPT ![c].pc = "reserving"]
    /\ thread' = [thread EXCEPT ![c] = [pc |-> "asked", bound |-> bound, amount |-> 0]]
    /\ UNCHANGED <<meter, reserved, row, booked, billed>>

(* _MeteredTransport, CallAccount.before_send: the request waits for its    *)
(* reservation                                                              *)
AskReserve(c, bound) ==
    /\ CallAt(c, "next")
    /\ call[c].sent < MaxRequests
    /\ call' = [call EXCEPT ![c].pc = "reserving"]
    /\ thread' = [thread EXCEPT ![c] = [pc |-> "asked", bound |-> bound, amount |-> 0]]
    /\ UNCHANGED <<meter, reserved, row, booked, billed>>

(* reserve_attempt under the meter's lock *)
ReserveInMemory(c) ==
    LET bound == thread[c].bound
    IN  /\ thread[c].pc = "asked"
        /\ IF Exceeds(call[c].run, bound)
           THEN /\ thread' = [thread EXCEPT ![c].pc = "refused"]
                /\ UNCHANGED reserved
           ELSE /\ reserved' = [reserved EXCEPT ![c] = @ + bound]
                /\ thread' = [thread EXCEPT ![c].pc = "unwritten",
                                            ![c].amount = reserved'[c]]
        /\ UNCHANGED <<meter, call, row, booked, billed>>

(* fault: the reserved amount of a row is raised whatever its status *)
RaiseAnyRow(c, amount) == row' = [row EXCEPT ![c] = [@ EXCEPT !.cost = amount]]

(* raise_in_flight: WHERE id = ? AND status = 'in_flight' *)
RaiseInFlight(c, amount) ==
    row' = [row EXCEPT ![c] = IF @.status = "in_flight" THEN [@ EXCEPT !.cost = amount] ELSE @]

OpenInFlight(c, amount) == row' = [row EXCEPT ![c] = [status |-> "in_flight", cost |-> amount]]

(* reserve_attempt, then: the row is in the ledger before the request goes  *)
(* out, or the write fails and the request is not sent                      *)
WriteReservation(c) ==
    /\ thread[c].pc = "unwritten"
    /\ \/ /\ thread' = [thread EXCEPT ![c].pc = "reserved"]
          /\ IF row[c].status = "none" THEN OpenInFlight(c, thread[c].amount)
             ELSE RaiseInFlight(c, thread[c].amount)
       \/ /\ thread' = [thread EXCEPT ![c].pc = "failed"]
          /\ UNCHANGED row
    /\ UNCHANGED <<meter, reserved, call, booked, billed>>

(* The reservation is made: the request goes out, and the provider will     *)
(* bill what it likes up to the bound, whether or not it can say so.        *)
Send(c) ==
    /\ CallAt(c, "reserving") /\ thread[c].pc = "reserved"
    /\ thread' = [thread EXCEPT ![c] = Quiet]
    /\ \E charge \in 0..thread[c].bound :
          /\ call' = [call EXCEPT ![c].pc = "sent", ![c].sent = @ + 1,
                                    ![c].bound = thread[c].bound, ![c].charge = charge]
          /\ billed' = [billed EXCEPT ![c] = @ + charge]
    /\ UNCHANGED <<meter, reserved, row, booked>>

(* refused, or the ledger could not be written: settled like any failure *)
SendRefused(c) ==
    /\ CallAt(c, "reserving") /\ thread[c].pc \in {"refused", "failed"}
    /\ call' = [call EXCEPT ![c].pc = IF thread[c].pc = "refused" THEN "halting" ELSE "settle"]
    /\ thread' = [thread EXCEPT ![c] = Quiet]
    /\ UNCHANGED <<meter, reserved, row, booked, billed>>

-----------------------------------------------------------------------------
(* How a request ends.  A connection that was never made is not sent and    *)
(* not billed, nor is a 4xx answer; the reservation stays all the same.     *)
(* fault: an answer that reports no usage is taken not to be billed *)
EndUnreported(c, usage, unaccounted) ==
    \E pc \in {"settle", "next"} :
        call' = [call EXCEPT ![c].pc = pc, ![c].bound = 0, ![c].charge = 0, ![c].usage = @ + usage]

EndRequest(c, usage, unaccounted) ==
    \E pc \in {"settle", "next"} :
        call' = [call EXCEPT ![c].pc = pc, ![c].bound = 0, ![c].charge = 0, ![c].usage = @ + usage,
                             ![c].unaccounted = @ + unaccounted]

NotBilled(c) ==
    /\ CallAt(c, "sent") /\ call[c].charge = 0
    /\ EndRequest(c, 0, 0)
    /\ UNCHANGED <<meter, reserved, thread, row, booked, billed>>

(* _maybe_billed: no answer, a 5xx, a 408, or a 2xx without usage.  The     *)
(* whole bound counts.                                                      *)
Unreported(c) ==
    /\ CallAt(c, "sent")
    /\ EndRequest(c, 0, call[c].bound)
    /\ UNCHANGED <<meter, reserved, thread, row, booked, billed>>

(* a 2xx with usage; output that does not validate is asked for again *)
Reported(c) ==
    /\ CallAt(c, "sent")
    /\ EndRequest(c, call[c].charge, 0)
    /\ UNCHANGED <<meter, reserved, thread, row, booked, billed>>

(* the attempts are used up, or the wait before a retry is cancelled *)
GiveUp(c) ==
    /\ CallAt(c, "next") /\ call[c].sent > 0
    /\ call' = [call EXCEPT ![c].pc = "settle"]
    /\ UNCHANGED <<meter, reserved, thread, row, booked, billed>>

(* The task is cancelled while a thread reserves for it.  The thread goes   *)
(* on, unless it had not started.                                           *)
Cancel(c) ==
    /\ CallAt(c, "reserving")
    /\ call' = [call EXCEPT ![c].pc = "settle"]
    /\ \/ UNCHANGED thread
       \/ thread[c].pc = "asked" /\ thread' = [thread EXCEPT ![c] = Quiet]
    /\ UNCHANGED <<meter, reserved, row, booked, billed>>

-----------------------------------------------------------------------------
Cost(c) == call[c].usage + call[c].unaccounted

(* settle_call under the meter's lock.  A refusal halts the run once the    *)
(* call is settled.                                                         *)
SettleInMemory(c) ==
    /\ call[c].pc \in {"settle", "halting"}
    /\ reserved' = [reserved EXCEPT ![c] = 0]
    /\ meter' = [meter EXCEPT ![call[c].run].spent = @ + Cost(c)]
    /\ call' = [call EXCEPT ![c].pc = IF @ = "halting" THEN "booking, halt" ELSE "booking"]
    /\ UNCHANGED <<thread, row, booked, billed>>

(* The in-flight row becomes the settled one; a call without a row gets a   *)
(* settled row of its own; then the run is halted, if a request of the call *)
(* was refused.  A write that fails leaves the row in flight, and the run   *)
(* as it was.                                                               *)
SettleRow(c) ==
    /\ call[c].pc \in {"booking", "booking, halt"}
    /\ \/ /\ IF row[c].status = "none"
             THEN booked' = [booked EXCEPT ![c] = Cost(c)] /\ UNCHANGED row
             ELSE row' = [row EXCEPT ![c] = [status |-> "settled", cost |-> Cost(c)]]
                  /\ UNCHANGED booked
          /\ IF CallAt(c, "booking, halt") THEN HaltRun(call[c].run) ELSE UNCHANGED meter
       \/ UNCHANGED <<row, booked, meter>>
    /\ call' = [call EXCEPT ![c] = [Free EXCEPT !.pc = "done", !.run = call[c].run]]
    /\ UNCHANGED <<reserved, thread, billed>>

CallStep(c) ==
    \/ \E r \in MeteredRuns : BeginCall(c, r)
    \/ \E bound \in Bounds : PreCheck(c, bound) \/ AskReserve(c, bound)
    \/ ReserveInMemory(c) \/ WriteReservation(c) \/ Send(c) \/ SendRefused(c)
    \/ NotBilled(c) \/ Unreported(c) \/ Reported(c) \/ GiveUp(c) \/ Cancel(c)
    \/ SettleInMemory(c) \/ SettleRow(c)

NextSpend ==
    \/ \E c \in PortCalls : CallStep(c)
    \/ \E r \in MeteredRuns : StopRun(r) \/ \E cap \in Caps : StartRun(r, cap)

SpendSpec == InitSpend /\ [][NextSpend]_spendVars

-----------------------------------------------------------------------------
(* Meters, calls and rows hold values of their types. *)
SpendTypeOK ==
    /\ meter \in [MeteredRuns -> [state : {"new", "up", "gone"}, cap : Nat, spent : Nat,
                           halted : BOOLEAN]]
    /\ reserved \in [PortCalls -> Nat]
    /\ call \in [PortCalls -> [pc : {"free", "begun", "next", "reserving", "sent", "settle",
                                 "halting", "booking", "booking, halt", "done",
                                 "overtaken"},
                           run : MeteredRuns \cup {NoRun}, sent : 0..MaxRequests,
                           bound : Nat, charge : Nat, usage : Nat, unaccounted : Nat]]
    /\ thread \in [PortCalls -> [pc : {"none", "asked", "refused", "unwritten", "reserved",
                                   "failed"}, bound : Nat, amount : Nat]]
    /\ row \in [PortCalls -> [status : {"none", "in_flight", "settled"}, cost : Nat]]
    /\ booked \in [PortCalls -> Nat]
    /\ billed \in [PortCalls -> Nat]

(* What an overtaken reservation finds in the meter is all its call has     *)
(* reserved by then, and until the call is settled in the ledger its row    *)
(* may show that alone.                                                     *)
Understated(c) == (Overtaken(c) \/ CallAt(c, "overtaken")) /\ row[c].status = "in_flight"

(* What the provider bills for a call is in the ledger, whenever its        *)
(* process stops, whatever the provider answered and whichever write to the *)
(* ledger failed; only an overtaken reservation may fall short.             *)
ChargedAtMost == \A c \in PortCalls : Understated(c) \/ billed[c] <= Charged(c)

Bill     == SumFunction(billed)
Granted  == {meter[r].cap : r \in {o \in MeteredRuns : meter[o].state # "new"}}
InBudget == Bill > 0 => \E cap \in Granted : Bill <= cap

(* The runs of one run id, one after the other, are billed no more than the *)
(* highest cap any of them was given: requests in flight, retries, failed   *)
(* writes, crashes and resumption with another cap included.                *)
WithinCap == InBudget \/ \E c \in PortCalls : Understated(c)

(* A settled row is final: a reservation that a cancelled call left running *)
(* in its thread does not charge it again.                                  *)
SettledOnce ==
    [][\A c \in PortCalls : row[c].status = "settled" => row'[c] = row[c]]_row
=============================================================================
