------------------------------ MODULE Operator ------------------------------
(***************************************************************************)
(* The operator of the web application (src/main.go, src/handlers.go): the *)
(* lease that admits one client to the control handlers, and the handlers  *)
(* that send the scanner more than one command.  A command is one action,  *)
(* as commandMu is held over it; commands of different handlers interleave. *)
(* The scanner stays selected: AppState is about selections.               *)
(*                                                                         *)
(* The scanner is external, as FUNCTION_MAP.txt describes it: F switches   *)
(* FUNC, except in a menu, where it selects; FUNC applies to the next key; *)
(* a key that meets a popup dismisses it and does nothing else; HLD and    *)
(* soft key C switch the hold, and GSI shows a hold late.  Popups open and *)
(* clear by themselves too, and a person may press the scanner's own keys. *)
(* Its reply to a command may be a refusal, which every handler takes for  *)
(* success, and a GSI that is an error or lacks an element says nothing.   *)
(***************************************************************************)
EXTENDS Naturals

CONSTANTS Clients,    \* who sends requests
          Threads,    \* goroutines of requests
          None,       \* no client
          Polls       \* how often a loop looks: 15 for popups, 3.5 s for a hold

ASSUME OperatorAssumption == Polls \in Nat \ {0} /\ None \notin Clients

VARIABLES
    pc,       \* where each handler is
    by,       \* its client
    want,     \* the hold it is asked for
    tries,    \* turns of its loop so far
    owner,    \* a.leaseOwner; None: ""
    lapsed,   \* a.leaseExpires has passed
    ended,    \* the lease was released or lapsed since the handler began
    sure,     \* since this handler began no other one and nobody at the scanner
              \* has done anything; it began with GSI up to date for a hold, and
              \* outside menus for a FUNC pair; the GSI it acts on told it what it
              \* asked; its F was not refused, and no popup outlasted its wait or
              \* has opened after it
    func,     \* the scanner's FUNC
    popup,    \* it shows a popup
    menu,     \* it shows a menu
    held,     \* its hold
    shown     \* the hold GSI shows

threadVars == <<pc, by, want, tries>>
leaseVars == <<owner, lapsed, ended>>
scanVars == <<func, popup, menu, held, shown>>
vars == <<threadVars, leaseVars, sure, scanVars>>

-----------------------------------------------------------------------------
PCs == {"idle", "write", "plain", "popup", "check", "F", "key",
        "before", "HLD", "soft", "confirm"}

TypeOK ==
    /\ pc \in [Threads -> PCs] /\ by \in [Threads -> Clients \cup {None}]
    /\ want \in [Threads -> BOOLEAN] /\ tries \in [Threads -> 0..Polls]
    /\ owner \in Clients \cup {None} /\ lapsed \in BOOLEAN
    /\ ended \in [Threads -> BOOLEAN] /\ sure \in [Threads -> BOOLEAN]
    /\ func \in BOOLEAN /\ popup \in BOOLEAN /\ menu \in BOOLEAN
    /\ held \in BOOLEAN /\ shown \in BOOLEAN

Init ==
    /\ pc = [t \in Threads |-> "idle"] /\ by = [t \in Threads |-> None]
    /\ want = [t \in Threads |-> FALSE] /\ tries = [t \in Threads |-> 0]
    /\ owner = None /\ lapsed = FALSE
    /\ ended = [t \in Threads |-> FALSE] /\ sure = [t \in Threads |-> FALSE]
    /\ func \in BOOLEAN /\ popup = FALSE /\ menu \in BOOLEAN
    /\ held \in BOOLEAN /\ shown = held

Busy(t) == pc[t] # "idle"
Goto(t, l) == pc' = [pc EXCEPT ![t] = l]
Step(t, from, to) == pc[t] = from /\ Goto(t, to)
\* The handler answers, with OK or an error; what it kept is gone.
End(t) ==
    /\ Goto(t, "idle")
    /\ by' = [by EXCEPT ![t] = None] /\ want' = [want EXCEPT ![t] = FALSE]
    /\ tries' = [tries EXCEPT ![t] = 0]
    /\ ended' = [ended EXCEPT ![t] = FALSE] /\ sure' = [sure EXCEPT ![t] = FALSE]

-----------------------------------------------------------------------------
(* The lease.                                                               *)

\* requireControl, which also renews it, and apiLeaseAcquire.
TakeLease(c) ==
    /\ owner \in {None, c} \/ lapsed
    /\ owner' = c /\ lapsed' = FALSE

Acquire(c) == TakeLease(c) /\ UNCHANGED <<threadVars, ended, sure, scanVars>>

EndLease == ended' = [t \in Threads |-> ended[t] \/ Busy(t)]

\* The operator's page may let go while one of its requests is running.
Release(c) ==
    /\ owner = c /\ owner' = None /\ lapsed' = FALSE /\ EndLease
    /\ UNCHANGED <<threadVars, sure, scanVars>>

\* LeaseTTL has passed since the last control request began.
Lapse ==
    /\ owner # None /\ ~lapsed /\ lapsed' = TRUE /\ EndLease
    /\ UNCHANGED <<threadVars, owner, sure, scanVars>>

\* t begins, and is alone with a settled scanner or not; no other one is now.
BeginAlone(t, entry) ==
    sure' = [u \in Threads |->
                /\ u = t /\ \A v \in Threads : ~Busy(v)
                /\ entry = "before" => shown = held
                /\ entry = "popup" => ~menu]

\* Mutant of RequireControl: whoever is the owner may go on, and so may a client
\* that asks while the lease is another's.
FaultyControl(t, c, entry) ==
    /\ Step(t, "idle", entry)
    /\ owner' = (IF owner = None \/ lapsed THEN c ELSE owner) /\ lapsed' = FALSE
    /\ by' = [by EXCEPT ![t] = c]
    /\ BeginAlone(t, entry)
    /\ UNCHANGED <<tries, ended, scanVars>>

\* A control handler begins.
RequireControl(t, c, entry) ==
    /\ Step(t, "idle", entry)
    /\ TakeLease(c)
    /\ by' = [by EXCEPT ![t] = c]
    /\ BeginAlone(t, entry)
    /\ UNCHANGED <<tries, ended, scanVars>>

-----------------------------------------------------------------------------
(* The scanner (external).                                                  *)

Keys == {"F", "soft", "other"}

Obey(k) ==
    \/ popup /\ popup' = FALSE /\ UNCHANGED <<func, menu, held>>
    \/ ~popup /\ menu /\ menu' \in BOOLEAN /\ UNCHANGED <<func, popup, held>>
    \/ /\ ~popup /\ ~menu /\ k = "F"
       /\ func' = ~func /\ UNCHANGED <<popup, menu, held>>
    \/ /\ ~popup /\ ~menu /\ k # "F"
       /\ func' = FALSE
       /\ held' = (IF k = "soft" /\ ~func THEN ~held ELSE held)
       /\ popup' \in BOOLEAN /\ menu' \in {FALSE, k = "other"}

\* HLD, from apiHold or /api/nav/hold.
Toggle == held' = ~held /\ UNCHANGED <<func, popup, menu>>

\* VOL, SQL, URC, FQK, SVC, DTM, LCR, NXT, PRV, AST and APR.
Set == popup' \in BOOLEAN /\ UNCHANGED <<func, menu, held>>

Unheard == UNCHANGED <<func, popup, menu, held>>

\* An apiFunc that has stopped looking for popups may meet this one.
PopupOpens ==
    /\ ~popup /\ popup' = TRUE
    /\ sure' = [t \in Threads |-> sure[t] /\ pc[t] \notin {"check", "F", "key"}]
    /\ UNCHANGED <<threadVars, leaseVars, func, menu, held, shown>>

PopupClears ==
    /\ popup /\ popup' = FALSE
    /\ UNCHANGED <<threadVars, leaseVars, sure, func, menu, held, shown>>

\* A person presses a key of the scanner.
Touch(k) ==
    /\ Obey(k)
    /\ sure' = [t \in Threads |-> FALSE]
    /\ UNCHANGED <<threadVars, leaseVars, shown>>

GsiCatchesUp ==
    /\ shown # held /\ shown' = held
    /\ UNCHANGED <<threadVars, leaseVars, sure, func, popup, menu, held>>

-----------------------------------------------------------------------------
(* Commands of a handler.                                                   *)

Answer(t) == End(t) /\ UNCHANGED <<owner, lapsed, shown>>
Proceed(t, l) == Goto(t, l) /\ UNCHANGED <<by, want, leaseVars, shown>>

Doubt(t) == sure' = [sure EXCEPT ![t] = FALSE]

\* The scanner obeys, or it refuses or hears nothing.  Any reply is taken for
\* success, a refusal too; without one the handler gives up.
Sends(t, effect, reply) == (effect \/ Unheard) /\ (reply \/ Answer(t))

WriteRequest(t, c) == RequireControl(t, c, "write") /\ UNCHANGED want
Write(t) == pc[t] = "write" /\ Sends(t, Set \/ Toggle, Answer(t))

\* apiKey; its STS reads change nothing here.
KeyRequest(t, c) == RequireControl(t, c, "plain") /\ UNCHANGED want
PlainKey(t) == pc[t] = "plain" /\ \E k \in Keys : Sends(t, Obey(k), Answer(t))

-----------------------------------------------------------------------------
(* apiFunc.                                                                 *)

FuncRequest(t, c) == RequireControl(t, c, "popup") /\ UNCHANGED want

\* Mutant of AwaitPopup: a popup is looked for once.
FaultyAwait(t) ==
    /\ pc[t] = "popup" /\ Unheard /\ UNCHANGED <<tries, sure>> /\ Proceed(t, "check")

\* GSI shows a popup: it is asked again, but no more than Polls times.
AwaitPopup(t) ==
    /\ pc[t] = "popup" /\ popup /\ Unheard
    /\ \/ /\ tries[t] + 1 < Polls /\ Proceed(t, "popup")
          /\ tries' = [tries EXCEPT ![t] = @ + 1] /\ UNCHANGED sure
       \/ /\ tries[t] + 1 = Polls /\ Proceed(t, "check")
          /\ tries' = [tries EXCEPT ![t] = 0] /\ Doubt(t)

NoPopup(t) ==
    /\ pc[t] = "popup" /\ ~popup /\ Unheard /\ Proceed(t, "check")
    /\ tries' = [tries EXCEPT ![t] = 0] /\ UNCHANGED sure

\* A reply without the element of a popup ends the wait, an error too.
PopupUnseen(t) ==
    /\ pc[t] = "popup" /\ Unheard /\ Proceed(t, "check")
    /\ tries' = [tries EXCEPT ![t] = 0] /\ Doubt(t)

FuncActive(t) ==
    /\ pc[t] = "check" /\ Unheard
    /\ Proceed(t, IF func THEN "key" ELSE "F") /\ UNCHANGED <<tries, sure>>

\* A reply without a Property, or an error, is taken for FUNC off: F is pressed.
FuncUnseen(t) ==
    /\ pc[t] = "check" /\ Unheard
    /\ Proceed(t, "F") /\ Doubt(t) /\ UNCHANGED tries

\* The key follows a refused F too.
PressF(t) ==
    /\ pc[t] = "F"
    /\ \/ Obey("F") /\ Proceed(t, "key") /\ UNCHANGED <<tries, sure>>
       \/ Unheard /\ Proceed(t, "key") /\ Doubt(t) /\ UNCHANGED tries
       \/ (Obey("F") \/ Unheard) /\ Answer(t)

\* The key, and an STS whose failure does not matter.
PressKey(t) ==
    /\ pc[t] = "key"
    /\ \E k \in Keys \ {"F"} : Sends(t, Obey(k), Answer(t))

\* GSI gets no reply: the handler gives up.  apiHold's confirmation does too, as
\* the wait has taken its 3.5 s.
LookFails(t) ==
    /\ pc[t] \in {"popup", "check", "confirm"} /\ Unheard
    /\ Answer(t)

-----------------------------------------------------------------------------
(* apiHold, for a scope whose fallback is one soft key.                     *)

HoldRequest(t, c) ==
    /\ RequireControl(t, c, "before")
    /\ \E w \in BOOLEAN : want' = [want EXCEPT ![t] = w]

AlreadySo(t) ==
    /\ pc[t] = "before" /\ shown = want[t] /\ Unheard /\ Answer(t)

\* Mutant of Differs: the hold is switched without a look at what it is.
FaultyDiffers(t) ==
    /\ pc[t] = "before" /\ Unheard
    /\ Proceed(t, "HLD") \/ Proceed(t, "soft")
    /\ UNCHANGED <<tries, sure>>

\* GSI has the item's index, or has none, as in a search.
Differs(t) ==
    /\ pc[t] = "before" /\ shown # want[t] /\ Unheard
    /\ Proceed(t, "HLD") \/ Proceed(t, "soft")
    /\ UNCHANGED <<tries, sure>>

\* GSI gets no reply, or has no such hold: the state map has neither the hold nor
\* an index, and the soft key is pressed all the same.
LooksBlind(t) ==
    /\ pc[t] = "before" /\ Unheard /\ Proceed(t, "soft")
    /\ Doubt(t) /\ UNCHANGED tries

SwitchHold(t) ==
    /\ pc[t] = "HLD"
    /\ Sends(t, Toggle, Proceed(t, "confirm") /\ UNCHANGED <<tries, sure>>)

PressSoft(t) ==
    /\ pc[t] = "soft"
    /\ Sends(t, Obey("soft"), Proceed(t, "confirm") /\ UNCHANGED <<tries, sure>>)

Confirmed(t) ==
    /\ pc[t] = "confirm" /\ shown = want[t] /\ Unheard /\ Answer(t)

\* Mutant of NotConfirmed: there is no deadline.
FaultyNotConfirmed(t) ==
    /\ pc[t] = "confirm" /\ Unheard
    /\ Proceed(t, "confirm")
    /\ tries' = [tries EXCEPT ![t] = @ + 1] /\ UNCHANGED sure

\* GSI shows the hold otherwise, or fails at once, as on a refused port.
NotConfirmed(t) ==
    /\ pc[t] = "confirm" /\ Unheard
    /\ \/ /\ tries[t] + 1 < Polls /\ Proceed(t, "confirm")
          /\ tries' = [tries EXCEPT ![t] = @ + 1] /\ UNCHANGED sure
       \/ tries[t] + 1 = Polls /\ Answer(t)

-----------------------------------------------------------------------------
Requests(t, c) ==
    WriteRequest(t, c) \/ KeyRequest(t, c) \/ FuncRequest(t, c) \/ HoldRequest(t, c)
Func(t) ==
    \/ AwaitPopup(t) \/ NoPopup(t) \/ PopupUnseen(t) \/ FuncActive(t) \/ FuncUnseen(t)
    \/ PressF(t) \/ PressKey(t)
Hold(t) ==
    \/ AlreadySo(t) \/ Differs(t) \/ LooksBlind(t) \/ SwitchHold(t) \/ PressSoft(t)
    \/ Confirmed(t) \/ NotConfirmed(t)

Next ==
    \/ \E t \in Threads, c \in Clients : Requests(t, c)
    \/ \E t \in Threads : Write(t) \/ PlainKey(t) \/ Func(t) \/ Hold(t) \/ LookFails(t)
    \/ \E c \in Clients : Acquire(c) \/ Release(c)
    \/ Lapse \/ PopupOpens \/ PopupClears \/ GsiCatchesUp
    \/ \E k \in Keys : Touch(k)

Spec == Init /\ [][Next]_vars

-----------------------------------------------------------------------------
(* Properties.                                                              *)

\* One operator at a time: requests of two clients control the scanner at the
\* same time only if the lease of one was released or lapsed after its request
\* had begun.
OneOperator ==
    \A t, u \in Threads :
        Busy(t) /\ Busy(u) /\ by[t] # by[u] => ended[t] \/ ended[u]

\* The key of a FUNC pair meets no popup and finds FUNC on, whatever failed pairs
\* and popups before have left behind.  Excepted is, by its cause, what the code
\* cannot see or does not look at: another handler's command or a person's key in
\* between, a popup that outlasts the wait or opens after it, a GSI that says
\* nothing of popups or of FUNC, an F that is refused, and a pair begun in a menu.
FuncKeyShifted ==
    \A t \in Threads : pc[t] = "key" /\ sure[t] => func /\ ~popup /\ ~menu

\* A hold is never confirmed, or taken for done already, when it is not as it was
\* asked for, although HLD only switches it and may be refused, and GSI shows it
\* late: where the handler finds the hold it wants in GSI, that is the scanner's.
\* Excepted are other handlers and persons in between, a handler that begins
\* before GSI has caught up, and one whose first GSI fails.
HoldAnswerTrue ==
    \A t \in Threads :
        pc[t] \in {"before", "confirm"} /\ sure[t] /\ shown = want[t] => held = want[t]
=============================================================================
