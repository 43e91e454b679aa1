--------------------------- MODULE OperatorProofs ---------------------------
(***************************************************************************)
(* Theorems about Operator, for every number of clients and of requests    *)
(* and every length of the loops: the lease keeps clients apart, FUNC      *)
(* pairs are whole, and confirmed holds are true.                          *)
(***************************************************************************)
EXTENDS Operator, TLAPS

\* TypeOK in two parts: the provers that know arithmetic do badly with flags.
Flags ==
    /\ want \in [Threads -> BOOLEAN] /\ lapsed \in BOOLEAN
    /\ ended \in [Threads -> BOOLEAN] /\ sure \in [Threads -> BOOLEAN]
    /\ func \in BOOLEAN /\ popup \in BOOLEAN /\ menu \in BOOLEAN
    /\ held \in BOOLEAN /\ shown \in BOOLEAN
Values ==
    /\ pc \in [Threads -> PCs] /\ by \in [Threads -> Clients \cup {None}]
    /\ tries \in [Threads -> 0..Polls]
    /\ owner \in Clients \cup {None}

\* A handler whose lease has not ended is the owner's; an idle thread keeps
\* nothing of its last request.
LeaseInv ==
    \A t \in Threads :
        /\ Busy(t) => by[t] \in Clients
        /\ Busy(t) /\ ~ended[t] => owner = by[t] /\ ~lapsed
        /\ sure[t] => Busy(t)

\* Who is sure is the only one that runs.
AloneInv == \A t, u \in Threads : sure[t] /\ t # u => ~Busy(u)

\* What a sure apiFunc knows of the scanner at each of its steps.
FuncInv ==
    \A t \in Threads : sure[t] =>
        /\ pc[t] \in {"popup", "check", "F", "key"} => ~menu
        /\ pc[t] \in {"check", "F", "key"} => ~popup
        /\ pc[t] = "F" => ~func
        /\ pc[t] = "key" => func

\* What a sure apiHold knows: GSI has caught up, or the hold is as wanted.
HoldInv ==
    \A t \in Threads : sure[t] =>
        /\ pc[t] \in {"before", "HLD", "soft"} => shown = held
        /\ pc[t] \in {"HLD", "soft"} => held # want[t]
        /\ pc[t] = "confirm" => shown = held \/ held = want[t]

IInv == TypeOK /\ LeaseInv /\ AloneInv /\ FuncInv /\ HoldInv

USE OperatorAssumption
USE DEF Goto, Step, Busy, Doubt, scanVars, threadVars, leaseVars

-----------------------------------------------------------------------------
\* TypeOK is its parts.
LEMMA TypeParts == TypeOK <=> Flags /\ Values
BY Zenon DEF TypeOK, Flags, Values

\* The invariant holds at the start.
LEMMA Initially == Init => IInv
<1>1. Init => TypeOK
  <2>1. Init => Flags
    BY Zenon DEF Init, Flags
  <2>2. Init => Values
    BY DEF Init, Values, PCs
  <2>. QED BY <2>1, <2>2, TypeParts
<1>2. Init => LeaseInv /\ AloneInv /\ FuncInv /\ HoldInv
  BY DEF Init, LeaseInv, AloneInv, FuncInv, HoldInv
<1>. QED BY <1>1, <1>2 DEF IInv

-----------------------------------------------------------------------------
(* The steps of a handler.                                                  *)

Handler(t) == Write(t) \/ PlainKey(t) \/ Func(t) \/ Hold(t) \/ LookFails(t)

\* A handler goes on to another step of its own or answers.
LEMMA HandlerMoves ==
    ASSUME TypeOK, NEW t \in Threads, Handler(t)
    PROVE  /\ Busy(t)
           /\ \/ Answer(t)
              \/ /\ \E l \in PCs \ {"idle"} : Proceed(t, l)
                 /\ tries' \in [Threads -> 0..Polls]
                 /\ sure' = sure \/ sure' = [sure EXCEPT ![t] = FALSE]
<1>. USE DEF PCs, TypeOK
<1>1. CASE Write(t)
  BY <1>1 DEF Write, Sends
<1>2. CASE PlainKey(t)
  BY <1>2 DEF PlainKey, Sends
<1>3. CASE AwaitPopup(t)
  BY <1>3 DEF AwaitPopup
<1>4. CASE NoPopup(t)
  BY <1>4 DEF NoPopup
<1>5. CASE FuncActive(t) \/ FuncUnseen(t) \/ PopupUnseen(t)
  BY <1>5 DEF FuncActive, FuncUnseen, PopupUnseen
<1>6. CASE PressF(t)
  BY <1>6 DEF PressF
<1>7. CASE PressKey(t)
  BY <1>7 DEF PressKey, Sends
<1>8. CASE AlreadySo(t) \/ LookFails(t) \/ Confirmed(t)
  BY <1>8 DEF AlreadySo, LookFails, Confirmed
<1>9. CASE Differs(t)
  BY <1>9 DEF Differs
<1>10. CASE LooksBlind(t)
  BY <1>10 DEF LooksBlind
<1>11. CASE SwitchHold(t)
  BY <1>11 DEF SwitchHold, Sends
<1>12. CASE PressSoft(t)
  BY <1>12 DEF PressSoft, Sends
<1>13. CASE NotConfirmed(t)
  BY <1>13 DEF NotConfirmed
<1>. QED BY <1>1, <1>2, <1>3, <1>4, <1>5, <1>6, <1>7, <1>8, <1>9, <1>10, <1>11,
            <1>12, <1>13 DEF Handler, Func, Hold

-----------------------------------------------------------------------------
(* Types.                                                                   *)

\* Whatever a handler does to the scanner, it does by one command.
LEMMA Effects ==
    ASSUME NEW t \in Threads, Handler(t)
    PROVE  Unheard \/ Toggle \/ Set \/ \E k \in Keys : Obey(k)
<1>1. CASE Write(t)
  BY <1>1 DEF Write, Sends
<1>2. CASE PlainKey(t)
  BY <1>2 DEF PlainKey, Sends
<1>3. CASE PressF(t)
  BY <1>3 DEF PressF, Keys
<1>4. CASE PressKey(t)
  BY <1>4 DEF PressKey, Sends
<1>5. CASE SwitchHold(t)
  BY <1>5 DEF SwitchHold, Sends
<1>6. CASE PressSoft(t)
  BY <1>6 DEF PressSoft, Sends, Keys
<1>7. CASE \/ AwaitPopup(t) \/ NoPopup(t) \/ PopupUnseen(t) \/ FuncActive(t)
           \/ FuncUnseen(t) \/ AlreadySo(t) \/ Differs(t) \/ LooksBlind(t)
           \/ Confirmed(t) \/ NotConfirmed(t) \/ LookFails(t)
  BY <1>7 DEF AwaitPopup, NoPopup, PopupUnseen, FuncActive, FuncUnseen, AlreadySo, Differs,
              LooksBlind, Confirmed, NotConfirmed, LookFails
<1>. QED
  BY <1>1, <1>2, <1>3, <1>4, <1>5, <1>6, <1>7, Zenon DEF Handler, Func, Hold

\* What a request finds and sets.
LEMMA RequestMoves ==
    ASSUME NEW t \in Threads, NEW c \in Clients, Requests(t, c)
    PROVE  /\ \E e \in {"write", "plain", "popup", "before"} : RequireControl(t, c, e)
           /\ UNCHANGED want \/ \E w \in BOOLEAN : want' = [want EXCEPT ![t] = w]
BY Zenon DEF Requests, WriteRequest, KeyRequest, FuncRequest, HoldRequest

\* Every step keeps the types of the flags.
LEMMA FlagStep ==
    ASSUME TypeOK, [Next]_vars
    PROVE  Flags'
<1>. Flags
  BY TypeParts
<1>1. ASSUME NEW t \in Threads, NEW c \in Clients, Requests(t, c) PROVE Flags'
  <2>1. want' \in [Threads -> BOOLEAN]
    BY <1>1, RequestMoves DEF Flags
  <2>2. PICK e \in {"write", "plain", "popup", "before"} : RequireControl(t, c, e)
    BY <1>1, RequestMoves
  <2>. QED BY <2>1, <2>2 DEF RequireControl, TakeLease, BeginAlone, Flags
<1>2. ASSUME NEW t \in Threads, Handler(t) PROVE Flags'
  <2>1. /\ want' \in [Threads -> BOOLEAN] /\ lapsed' \in BOOLEAN /\ shown' \in BOOLEAN
        /\ ended' \in [Threads -> BOOLEAN] /\ sure' \in [Threads -> BOOLEAN]
    BY <1>2, HandlerMoves DEF Answer, End, Proceed, Flags
  <2>2. func' \in BOOLEAN /\ popup' \in BOOLEAN /\ menu' \in BOOLEAN /\ held' \in BOOLEAN
    BY <1>2, Effects DEF Obey, Unheard, Toggle, Set, Flags
  <2>. QED BY <2>1, <2>2 DEF Flags
<1>3. ASSUME NEW c \in Clients, Acquire(c) \/ Release(c) PROVE Flags'
  BY <1>3 DEF Acquire, Release, TakeLease, EndLease, Flags
<1>4. CASE Lapse
  BY <1>4 DEF Lapse, EndLease, Flags
<1>5. CASE PopupOpens \/ PopupClears \/ GsiCatchesUp \/ \E k \in Keys : Touch(k)
  BY <1>5 DEF PopupOpens, PopupClears, GsiCatchesUp, Touch, Obey, Flags
<1>6. CASE UNCHANGED vars
  BY <1>6 DEF vars, Flags
<1>. QED BY <1>1, <1>2, <1>3, <1>4, <1>5, <1>6, Zenon DEF Next, Handler

\* Every step keeps the types.
LEMMA TypeStep ==
    ASSUME TypeOK, [Next]_vars
    PROVE  TypeOK'
<1>. Values
  BY TypeParts
<1>1. ASSUME NEW t \in Threads, NEW c \in Clients, Requests(t, c) PROVE Values'
  <2>1. PICK e \in {"write", "plain", "popup", "before"} : RequireControl(t, c, e)
    BY <1>1, RequestMoves
  <2>. QED BY <2>1 DEF RequireControl, TakeLease, PCs, Values
<1>2. ASSUME NEW t \in Threads, Handler(t) PROVE Values'
  BY <1>2, HandlerMoves DEF Answer, End, Proceed, PCs, Values
<1>3. ASSUME NEW c \in Clients, Acquire(c) \/ Release(c) PROVE Values'
  BY <1>3 DEF Acquire, Release, TakeLease, Values
<1>4. Lapse => Values'
  BY DEF Lapse, Values
<1>5. PopupOpens \/ PopupClears \/ GsiCatchesUp \/ (\E k \in Keys : Touch(k)) => Values'
  BY DEF PopupOpens, PopupClears, GsiCatchesUp, Touch, Values
<1>6. UNCHANGED vars => Values'
  BY DEF vars, Values
<1>7. Values'
  BY <1>1, <1>2, <1>3, <1>4, <1>5, <1>6, Zenon DEF Next, Handler
<1>. QED BY <1>7, FlagStep, Zenon DEF TypeOK, Flags, Values

-----------------------------------------------------------------------------
(* The lease.                                                               *)

\* Every step keeps what a handler knows of the lease.
LEMMA LeaseStep ==
    ASSUME TypeOK, LeaseInv, [Next]_vars
    PROVE  LeaseInv'
<1>. USE DEF TypeOK
<1>1. ASSUME NEW t \in Threads, NEW c \in Clients, Requests(t, c) PROVE LeaseInv'
  <2>1. PICK e \in {"write", "plain", "popup", "before"} : RequireControl(t, c, e)
    BY <1>1, RequestMoves
  <2>. QED BY <2>1 DEF RequireControl, TakeLease, BeginAlone, LeaseInv
<1>2. ASSUME NEW t \in Threads, Handler(t) PROVE LeaseInv'
  <2>1. CASE Answer(t)
    BY <2>1 DEF Answer, End, LeaseInv
  <2>2. ASSUME NEW l \in PCs \ {"idle"}, Proceed(t, l),
               sure' = sure \/ sure' = [sure EXCEPT ![t] = FALSE]
        PROVE  LeaseInv'
    BY <2>2, <1>2, HandlerMoves DEF Proceed, LeaseInv
  <2>. QED BY <1>2, <2>1, <2>2, HandlerMoves
<1>3. ASSUME NEW c \in Clients, Acquire(c) \/ Release(c) PROVE LeaseInv'
  BY <1>3 DEF Acquire, Release, TakeLease, EndLease, LeaseInv
<1>4. CASE Lapse
  BY <1>4 DEF Lapse, EndLease, LeaseInv
<1>5. CASE PopupOpens \/ PopupClears \/ GsiCatchesUp \/ \E k \in Keys : Touch(k)
  BY <1>5 DEF PopupOpens, PopupClears, GsiCatchesUp, Touch, LeaseInv
<1>6. CASE UNCHANGED vars
  BY <1>6 DEF vars, LeaseInv
<1>. QED BY <1>1, <1>2, <1>3, <1>4, <1>5, <1>6, Zenon DEF Next, Handler

\* No handler begins while another one is sure, without that one losing it.
LEMMA AloneStep ==
    ASSUME TypeOK, LeaseInv, AloneInv, [Next]_vars
    PROVE  AloneInv'
<1>. USE DEF TypeOK
<1>1. ASSUME NEW t \in Threads, NEW c \in Clients, Requests(t, c) PROVE AloneInv'
  <2>1. PICK e \in {"write", "plain", "popup", "before"} : RequireControl(t, c, e)
    BY <1>1, RequestMoves
  <2>. QED BY <2>1 DEF RequireControl, BeginAlone, AloneInv
<1>2. ASSUME NEW t \in Threads, Handler(t) PROVE AloneInv'
  <2>1. CASE Answer(t)
    BY <2>1 DEF Answer, End, AloneInv
  <2>2. ASSUME NEW l \in PCs \ {"idle"}, Proceed(t, l),
               sure' = sure \/ sure' = [sure EXCEPT ![t] = FALSE]
        PROVE  AloneInv'
    BY <2>2, <1>2, HandlerMoves DEF Proceed, AloneInv
  <2>. QED BY <1>2, <2>1, <2>2, HandlerMoves
<1>3. ASSUME NEW c \in Clients, Acquire(c) \/ Release(c) PROVE AloneInv'
  BY <1>3 DEF Acquire, Release, AloneInv
<1>4. CASE Lapse \/ PopupOpens \/ PopupClears \/ GsiCatchesUp \/ \E k \in Keys : Touch(k)
  BY <1>4 DEF Lapse, PopupOpens, PopupClears, GsiCatchesUp, Touch, AloneInv
<1>5. CASE UNCHANGED vars
  BY <1>5 DEF vars, AloneInv
<1>. QED BY <1>1, <1>2, <1>3, <1>4, <1>5, Zenon DEF Next, Handler

-----------------------------------------------------------------------------
(* What a sure handler knows of the scanner.                                *)

\* Only one request is ever sure, and it began alone.
LEMMA SureMoves ==
    ASSUME TypeOK, NEW t \in Threads, Handler(t), AloneInv, LeaseInv
    PROVE  \A u \in Threads \ {t} : ~sure'[u]
<1>1. Busy(t) /\ \A u \in Threads \ {t} : ~sure[u]
  BY HandlerMoves DEF AloneInv
<1>2. sure' = sure \/ sure' = [sure EXCEPT ![t] = FALSE]
  BY HandlerMoves DEF Answer, End
<1>. QED BY <1>1, <1>2 DEF TypeOK

LEMMA FuncStep ==
    ASSUME TypeOK, LeaseInv, AloneInv, FuncInv, [Next]_vars
    PROVE  FuncInv'
<1>. USE DEF TypeOK
<1>1. ASSUME NEW t \in Threads, NEW c \in Clients, Requests(t, c) PROVE FuncInv'
  <2>1. PICK e \in {"write", "plain", "popup", "before"} : RequireControl(t, c, e)
    BY <1>1, RequestMoves
  <2>. QED BY <2>1 DEF RequireControl, BeginAlone, FuncInv
<1>2. ASSUME NEW t \in Threads, Handler(t) PROVE FuncInv'
  <2>1. SUFFICES ASSUME sure'[t]
                 PROVE  /\ pc'[t] \in {"popup", "check", "F", "key"} => ~menu'
                        /\ pc'[t] \in {"check", "F", "key"} => ~popup'
                        /\ pc'[t] = "F" => ~func'
                        /\ pc'[t] = "key" => func'
    BY <1>2, SureMoves DEF FuncInv
  <2>2. CASE Answer(t)
    BY <2>1, <2>2 DEF Answer, End
  <2>3. CASE Write(t) \/ PlainKey(t) \/ PressKey(t) \/ LookFails(t)
    BY <2>2, <2>3 DEF Write, PlainKey, PressKey, LookFails, Sends
  <2>4. CASE AwaitPopup(t)
    BY <2>1, <2>4 DEF AwaitPopup, Proceed, Unheard, FuncInv
  <2>5. CASE NoPopup(t)
    BY <2>1, <2>5 DEF NoPopup, Proceed, Unheard, FuncInv
  <2>6. CASE FuncActive(t)
    BY <2>1, <2>6 DEF FuncActive, Proceed, Unheard, FuncInv
  <2>7. CASE PressF(t)
    BY <2>1, <2>2, <2>7 DEF PressF, Obey, Proceed, FuncInv
  <2>8. CASE PopupUnseen(t) \/ FuncUnseen(t)
    BY <2>1, <2>8 DEF PopupUnseen, FuncUnseen
  <2>9. CASE Hold(t)
    BY <2>2, <2>9 DEF Hold, AlreadySo, Differs, LooksBlind, SwitchHold, PressSoft, Confirmed,
                      NotConfirmed, Sends, Proceed
  <2>. QED BY <1>2, <2>3, <2>4, <2>5, <2>6, <2>7, <2>8, <2>9, Zenon DEF Handler, Func
<1>3. ASSUME NEW c \in Clients, Acquire(c) \/ Release(c) PROVE FuncInv'
  BY <1>3 DEF Acquire, Release, FuncInv
<1>4. CASE Lapse \/ PopupOpens \/ PopupClears \/ GsiCatchesUp \/ \E k \in Keys : Touch(k)
  BY <1>4 DEF Lapse, PopupOpens, PopupClears, GsiCatchesUp, Touch, FuncInv
<1>5. CASE UNCHANGED vars
  BY <1>5 DEF vars, FuncInv
<1>. QED BY <1>1, <1>2, <1>3, <1>4, <1>5, Zenon DEF Next, Handler

LEMMA HoldStep ==
    ASSUME TypeOK, LeaseInv, AloneInv, FuncInv, HoldInv, [Next]_vars
    PROVE  HoldInv'
<1>. USE DEF TypeOK
<1>1. ASSUME NEW t \in Threads, NEW c \in Clients, Requests(t, c) PROVE HoldInv'
  <2>1. PICK e \in {"write", "plain", "popup", "before"} : RequireControl(t, c, e)
    BY <1>1, RequestMoves
  <2>. QED BY <2>1 DEF RequireControl, BeginAlone, HoldInv
<1>2. ASSUME NEW t \in Threads, Handler(t) PROVE HoldInv'
  <2>1. SUFFICES ASSUME sure'[t]
                 PROVE  /\ pc'[t] \in {"before", "HLD", "soft"} => shown' = held'
                        /\ pc'[t] \in {"HLD", "soft"} => held' # want'[t]
                        /\ pc'[t] = "confirm" => shown' = held' \/ held' = want'[t]
    BY <1>2, SureMoves DEF HoldInv
  <2>2. CASE Answer(t)
    BY <2>1, <2>2 DEF Answer, End
  <2>3. CASE Write(t) \/ PlainKey(t) \/ LookFails(t) \/ AlreadySo(t) \/ Confirmed(t)
    BY <2>2, <2>3 DEF Write, PlainKey, LookFails, AlreadySo, Confirmed, Sends
  <2>4. CASE Func(t)
    BY <2>2, <2>4 DEF Func, AwaitPopup, NoPopup, PopupUnseen, FuncActive, FuncUnseen, PressF,
                      PressKey, Sends, Proceed
  <2>5. CASE Differs(t)
    BY <2>1, <2>5 DEF Differs, Proceed, Unheard, HoldInv
  <2>6. CASE LooksBlind(t)
    BY <2>1, <2>6 DEF LooksBlind
  <2>7. CASE SwitchHold(t)
    BY <2>1, <2>2, <2>7 DEF SwitchHold, Sends, Toggle, Unheard, Proceed, HoldInv
  <2>8. CASE PressSoft(t)
    <3>1. held \in BOOLEAN /\ held' \in {held, ~held}
      BY <2>8 DEF PressSoft, Sends, Obey, Unheard
    <3>2. CASE Proceed(t, "confirm") /\ UNCHANGED sure
      <4>1. shown = held /\ held # want[t] /\ want[t] \in BOOLEAN
        BY <2>1, <2>8, <3>2 DEF PressSoft, HoldInv
      <4>. QED BY <3>1, <3>2, <4>1 DEF Proceed
    <3>. QED BY <2>2, <2>8, <3>2 DEF PressSoft, Sends
  <2>9. CASE NotConfirmed(t)
    BY <2>1, <2>2, <2>9 DEF NotConfirmed, Proceed, Unheard, HoldInv
  <2>. QED
    BY <1>2, <2>3, <2>4, <2>5, <2>6, <2>7, <2>8, <2>9, Zenon DEF Handler, Hold
<1>3. ASSUME NEW c \in Clients, Acquire(c) \/ Release(c) PROVE HoldInv'
  BY <1>3 DEF Acquire, Release, HoldInv
<1>4. CASE Lapse \/ PopupOpens \/ PopupClears \/ GsiCatchesUp \/ \E k \in Keys : Touch(k)
  BY <1>4 DEF Lapse, PopupOpens, PopupClears, GsiCatchesUp, Touch, HoldInv
<1>5. CASE UNCHANGED vars
  BY <1>5 DEF vars, HoldInv
<1>. QED BY <1>1, <1>2, <1>3, <1>4, <1>5, Zenon DEF Next, Handler

-----------------------------------------------------------------------------
LEMMA Invariance == Spec => []IInv
<1>1. IInv /\ [Next]_vars => IInv'
  BY TypeStep, LeaseStep, AloneStep, FuncStep, HoldStep, Zenon DEF IInv
<1>. QED BY Initially, <1>1, PTL DEF Spec

\* The state keeps its types; no loop of a handler takes more than Polls turns.
THEOREM TypeCorrect == Spec => []TypeOK
<1>1. IInv => TypeOK
  BY DEF IInv
<1>. QED BY Invariance, <1>1, PTL

\* The lease keeps the requests of two clients apart (requireControl).
THEOREM OperatorSafety == Spec => []OneOperator
<1>1. IInv => OneOperator
  BY DEF IInv, LeaseInv, OneOperator
<1>. QED BY Invariance, <1>1, PTL

\* The key of a FUNC pair meets FUNC on and neither a popup nor a menu (apiFunc),
\* unless something that FuncKeyShifted names has come in between, or the handler
\* was told nothing by GSI or refused its F and went on.
THEOREM FuncSafety == Spec => []FuncKeyShifted
<1>1. IInv => FuncKeyShifted
  BY DEF IInv, FuncInv, FuncKeyShifted
<1>. QED BY Invariance, <1>1, PTL

\* What apiHold confirms is so, where nobody else was at the scanner meanwhile.
THEOREM HoldSafety == Spec => []HoldAnswerTrue
<1>1. IInv => HoldAnswerTrue
  BY DEF IInv, HoldInv, HoldAnswerTrue, TypeOK
<1>. QED BY Invariance, <1>1, PTL

-----------------------------------------------------------------------------
(* Every handler answers.                                                   *)

\* Steps a handler has left at a place of it, after n turns of its loop.
Rank(l, n) ==
    CASE l = "idle" -> 0 [] l \in {"write", "plain", "key"} -> 1
      [] l = "F" -> 2 [] l = "check" -> 3 [] l = "popup" -> 3 + (Polls - n)
      [] l = "confirm" -> Polls - n
      [] l \in {"HLD", "soft"} -> Polls + 1 [] OTHER -> Polls + 2
Left(t) == Rank(pc[t], tries[t])
MaxSteps == Polls + 3

\* A loop of a handler stops before its last turn is over.
LoopInv == \A t \in Threads : tries[t] \in 0..(Polls - 1)

\* Every step of a handler brings its answer nearer, whatever fails, and no other
\* client's request takes it further away.
AnswerNearer == \A t \in Threads : Busy(t) => /\ Left(t)' <= Left(t)
                                              /\ Handler(t) => Left(t)' < Left(t)

\* Where a handler's step may lead.
Moves(l, n, k, m) ==
    \/ k = "idle" /\ m = 0
    \/ l \in {"popup", "confirm"} /\ k = l /\ n + 1 < Polls /\ m = n + 1
    \/ l = "popup" /\ k = "check" /\ m = 0
    \/ m = n /\ \/ l = "check" /\ k \in {"F", "key"}
                \/ l = "F" /\ k = "key"
                \/ l = "before" /\ k \in {"HLD", "soft"}
                \/ l \in {"HLD", "soft"} /\ k = "confirm"

\* A handler's step goes there, and leaves the other handlers where they are.
LEMMA HandlerGoes ==
    ASSUME Values, NEW t \in Threads, Handler(t)
    PROVE  /\ Moves(pc[t], tries[t], pc'[t], tries'[t])
           /\ \A u \in Threads \ {t} : pc'[u] = pc[u] /\ tries'[u] = tries[u]
<1>. USE DEF Values, Moves
<1>1. CASE Answer(t)
  BY <1>1 DEF Answer, End
<1>2. CASE Write(t) \/ PlainKey(t) \/ PressKey(t) \/ AlreadySo(t) \/ LookFails(t) \/ Confirmed(t)
  BY <1>1, <1>2 DEF Write, PlainKey, PressKey, Sends, AlreadySo, LookFails, Confirmed
<1>3. CASE AwaitPopup(t)
  BY <1>3 DEF AwaitPopup, Proceed
<1>4. CASE NoPopup(t) \/ PopupUnseen(t)
  BY <1>4 DEF NoPopup, PopupUnseen, Proceed
<1>5. CASE FuncActive(t) \/ FuncUnseen(t)
  BY <1>5 DEF FuncActive, FuncUnseen, Proceed
<1>6. CASE PressF(t)
  BY <1>1, <1>6 DEF PressF, Proceed
<1>7. CASE Differs(t)
  BY <1>7 DEF Differs, Proceed
<1>8. CASE LooksBlind(t)
  BY <1>8 DEF LooksBlind, Proceed
<1>9. CASE SwitchHold(t)
  BY <1>1, <1>9 DEF SwitchHold, Sends, Proceed
<1>10. CASE PressSoft(t)
  BY <1>1, <1>10 DEF PressSoft, Sends, Proceed
<1>11. CASE NotConfirmed(t)
  BY <1>1, <1>11 DEF NotConfirmed, Proceed
<1>. HIDE DEF Moves
<1>. QED BY Zenon, <1>2, <1>3, <1>4, <1>5, <1>6, <1>7, <1>8, <1>9, <1>10, <1>11
            DEF Handler, Func, Hold

\* A request leaves a busy handler where it is.
LEMMA RequestLeaves ==
    ASSUME Values, NEW t \in Threads, NEW c \in Clients, Requests(t, c)
    PROVE  /\ tries' = tries /\ ~Busy(t)
           /\ \A u \in Threads \ {t} : pc'[u] = pc[u]
<1>1. PICK e \in {"write", "plain", "popup", "before"} : RequireControl(t, c, e)
  BY RequestMoves
<1>. QED BY <1>1 DEF RequireControl, Values

\* What else happens moves no handler.
LEMMA OthersLeave ==
    ASSUME [Next]_vars,
           ~\E t \in Threads : Handler(t) \/ \E c \in Clients : Requests(t, c)
    PROVE  UNCHANGED <<pc, tries>>
<1>1. ASSUME NEW c \in Clients, Acquire(c) \/ Release(c) PROVE UNCHANGED <<pc, tries>>
  BY <1>1 DEF Acquire, Release
<1>2. CASE Lapse \/ PopupOpens \/ PopupClears \/ GsiCatchesUp \/ \E k \in Keys : Touch(k)
  BY <1>2 DEF Lapse, PopupOpens, PopupClears, GsiCatchesUp, Touch
<1>3. CASE UNCHANGED vars
  BY <1>3 DEF vars
<1>. QED BY Zenon, <1>1, <1>2, <1>3 DEF Next, Handler

\* Every step keeps the bound of the loops.
LEMMA LoopStep == ASSUME Values, LoopInv, [Next]_vars PROVE LoopInv'
<1>. USE DEF LoopInv
<1>1. ASSUME NEW t \in Threads, Handler(t) PROVE LoopInv'
  <2>1. tries'[t] \in {0, tries[t]} \/ (tries[t] + 1 < Polls /\ tries'[t] = tries[t] + 1)
    BY <1>1, HandlerGoes DEF Moves
  <2>2. tries'[t] \in 0..(Polls - 1)
    BY <2>1
  <2>. QED BY <1>1, <2>2, HandlerGoes
<1>2. ASSUME NEW t \in Threads, NEW c \in Clients, Requests(t, c) PROVE LoopInv'
  BY <1>2, RequestLeaves
<1>3. CASE UNCHANGED <<pc, tries>>
  BY <1>3
<1>. QED BY Zenon, <1>1, <1>2, <1>3, OthersLeave

\* Where a step may lead, fewer are left.
LEMMA FewerLeft ==
    ASSUME NEW l \in PCs, NEW k \in PCs, NEW n \in 0..(Polls - 1), NEW m \in 0..(Polls - 1),
           Moves(l, n, k, m), l # "idle"
    PROVE  Rank(k, m) < Rank(l, n)
BY DEF Moves, Rank, PCs

\* A handler has at most MaxSteps steps left.
LEMMA RankBound == ASSUME NEW l \in PCs, NEW n \in 0..(Polls - 1)
    PROVE  Rank(l, n) \in 0..MaxSteps
BY DEF Rank, MaxSteps, PCs

\* Every step brings the answers nearer.
LEMMA StepNearer ==
    ASSUME Values, Values', LoopInv, LoopInv', [Next]_vars
    PROVE  AnswerNearer
<1>. SUFFICES ASSUME NEW t \in Threads, Busy(t)
              PROVE  /\ Left(t)' <= Left(t)
                     /\ Handler(t) => Left(t)' < Left(t)
  BY DEF AnswerNearer
<1>1. pc[t] \in PCs /\ pc'[t] \in PCs /\ pc[t] # "idle"
  BY DEF Values
<1>2. tries[t] \in 0..(Polls - 1) /\ tries'[t] \in 0..(Polls - 1)
  BY DEF LoopInv
<1>3. Left(t) \in Nat /\ Left(t)' \in Nat
  BY <1>1, <1>2, RankBound DEF Left, MaxSteps
<1>4. CASE Handler(t)
  <2>1. Left(t)' < Left(t)
    BY <1>1, <1>2, <1>4, HandlerGoes, FewerLeft DEF Left
  <2>. QED BY <1>3, <2>1
<1>5. CASE ~Handler(t)
  <2>1. pc'[t] = pc[t] /\ tries'[t] = tries[t]
    <3>1. ASSUME NEW u \in Threads, Handler(u) PROVE pc'[t] = pc[t] /\ tries'[t] = tries[t]
      BY <1>5, <3>1, HandlerGoes
    <3>2. ASSUME NEW u \in Threads, NEW c \in Clients, Requests(u, c)
          PROVE  pc'[t] = pc[t] /\ tries'[t] = tries[t]
      BY <3>2, RequestLeaves
    <3>. QED BY Zenon, <3>1, <3>2, OthersLeave
  <2>2. Left(t)' = Left(t)
    BY <2>1 DEF Left
  <2>. QED BY <1>3, <1>5, <2>2
<1>. QED BY <1>4, <1>5

\* Every control request is answered after at most MaxSteps steps of its handler:
\* the waits of apiFunc for a popup and of apiHold for its confirmation end,
\* whatever the scanner shows and whichever commands fail.
THEOREM HandlersAnswer ==
    Spec => /\ [](\A t \in Threads : Left(t) \in 0..MaxSteps)
            /\ [][AnswerNearer]_vars
<1>1. Init => LoopInv
  BY DEF Init, LoopInv
<1>2. IInv => Values
  BY TypeParts DEF IInv
<1>3. Values /\ LoopInv /\ [Next]_vars => LoopInv'
  BY LoopStep
<1>4. Values /\ Values' /\ LoopInv /\ LoopInv' /\ [Next]_vars => AnswerNearer
  BY StepNearer
<1>5. Values /\ LoopInv => \A t \in Threads : Left(t) \in 0..MaxSteps
  BY RankBound DEF Values, LoopInv, Left
<1>. QED BY Invariance, <1>1, <1>2, <1>3, <1>4, <1>5, PTL DEF Spec
=============================================================================
