--------------------------- MODULE CashierScreen ---------------------------
(***************************************************************************)
(* The cashier's screen in the browser (CashierSignedInScreen of           *)
(* frontend/src/App.tsx) and the calls it has out to the server.           *)
(*                                                                         *)
(* A handler is a process that goes on when its call is answered, and      *)
(* answers come in any order; React runs the effect of a changed selection *)
(* or board before the next event. The server carries out a command in one *)
(* step (Settlement implements Ledger) and may refuse it for reasons that  *)
(* are left out here, such as the balance. Amounts are left out: of a bill *)
(* it matters whose it is, and whose payments its figures count. Guests    *)
(* sit down before the screen is opened and only this cashier closes. The  *)
(* filter of virtual tables and the preview of a QR code are left out.     *)
(***************************************************************************)
EXTENDS Naturals, FiniteSets

CONSTANTS
    TableIds,
    Calls,        \* fetches that can be out at once
    MaxHanded,    \* bound: payments that guests hand over
    MaxFailures,  \* bound: failures that let the cashier press again
    null          \* of TypeScript

VARIABLES
    seated,     \* the tables with an open session, at the server
    recorded,   \* the payments the server has recorded for this screen
    board,      \* the tables that the board shows as occupied
    view,       \* state: whether the board is loaded
    selected,   \* selectedTableId
    bill,       \* billSummary: null, or whose it is and whose payments it counts
    modals,     \* paymentModalOpen and closeSessionOpen
    voiding,    \* voidingPayment: null or the table of the payment
    action,     \* actionState
    call,       \* the fetches that are out
    handed,     \* the payments that guests have handed over
    failures,   \* the failures that let the cashier press again
    excused     \* whether a load has failed or been overtaken since the last
                \* that came alone

serverVars == <<seated, recorded>>
boardVars == <<board, view, selected>>
dialogVars == <<modals, voiding>>
countVars == <<handed, failures>>
screenVars == <<seated, recorded, board, view, selected, bill, modals, voiding, action,
                call, handed, failures, excused>>

Commands == {"pay", "void", "close"}

\* A call: its table; how far the server is with it; whether the screen still
\* waits for it; whether the board is loaded at the end of a command.
CallRow == [op : Commands \cup {"detail", "board"}, table : TableIds \cup {null},
            at : {"sent", "ok"}, heard : BOOLEAN, after : BOOLEAN,
            rows : SUBSET TableIds]

Fetch(op, t) ==
    [op |-> op, table |-> t, at |-> "sent", heard |-> TRUE, after |-> FALSE, rows |-> {}]

LoadBoard == Fetch("board", null)

ASSUME ScreenAssumption ==
    /\ IsFiniteSet(Calls) /\ Calls # {}
    /\ TableIds # {}
    /\ null \notin TableIds \cup CallRow \cup [of : TableIds, figures : TableIds]

Out(c, op) == call[c] # null /\ call[c].op = op

Unused(calls) == {c \in Calls : calls[c] = null}

With(calls, row) ==
    LET slot == CHOOSE c \in Unused(calls) : TRUE
    IN  [calls EXCEPT ![slot] = row]

Without(c) == [call EXCEPT ![c] = null]

\* The row of the selected table has a session, and its bill is drawn.
Occupied == selected \in board
Drawn == Occupied /\ bill # null

\* A dialog covers the page.
Covered ==
    \/ "pay" \in modals /\ bill # null
    \/ "close" \in modals /\ selected # null /\ bill # null
    \/ voiding # null

-----------------------------------------------------------------------------
ScreenInit ==
    /\ seated \in SUBSET TableIds
    /\ recorded = 0
    /\ board = {} /\ view = "loading" /\ selected = null
    /\ bill = null
    /\ modals = {} /\ voiding = null
    /\ action = "idle"
    /\ call = With([c \in Calls |-> null], LoadBoard)
    /\ handed = 0 /\ failures = 0
    /\ excused = FALSE

-----------------------------------------------------------------------------
\* Mutant: the effect runs for a new board only.
ShowDetailOfBoard(t, rows, calls) ==
    IF rows = board THEN bill' = bill /\ call' = calls /\ excused' = excused
    ELSE IF t \in rows
    THEN /\ call' = With(calls, Fetch("detail", t))
         /\ excused' = (excused \/ \E c \in Calls : Out(c, "detail"))
         /\ bill' = bill
    ELSE bill' = null /\ call' = calls /\ excused' = excused

\* The effect of a new selection or board: the detail of the selected table is
\* loaded, while the bill of the last one stays, or there is none to show.
ShowDetail(t, rows, calls) ==
    IF t \in rows
    THEN /\ call' = With(calls, Fetch("detail", t))
         /\ excused' = (excused \/ \E c \in Calls : Out(c, "detail"))
         /\ bill' = bill
    ELSE bill' = null /\ call' = calls /\ excused' = excused

\* The cashier clicks at a table; the board is drawn when it is loaded.
Select(t) ==
    /\ ~ Covered /\ view = "ready"
    /\ t # selected
    /\ Unused(call) # {}
    /\ selected' = t
    /\ ShowDetail(t, board, call)
    /\ UNCHANGED <<serverVars, board, view, dialogVars, action, countVars>>

\* Or refreshes the board.
RefreshBoard ==
    /\ ~ Covered
    /\ Unused(call) # {}
    /\ view' = "loading"
    /\ call' = With(call, LoadBoard)
    /\ UNCHANGED <<serverVars, board, selected, bill, dialogVars, action, countVars, excused>>

-----------------------------------------------------------------------------
\* The dialogs are opened from a bill. A guest hands over a payment.
OpenPay ==
    /\ Drawn /\ ~ Covered /\ action # "submitting"
    /\ handed < MaxHanded
    /\ handed' = handed + 1
    /\ modals' = modals \cup {"pay"}
    /\ UNCHANGED <<serverVars, boardVars, bill, voiding, action, call, failures, excused>>

OpenClose ==
    /\ Drawn /\ ~ Covered /\ action # "submitting"
    /\ modals' = modals \cup {"close"}
    /\ UNCHANGED <<serverVars, boardVars, bill, voiding, action, call, countVars, excused>>

OpenVoid ==
    /\ Drawn /\ ~ Covered /\ action # "submitting"
    /\ voiding' = bill.of
    /\ UNCHANGED <<serverVars, boardVars, bill, modals, action, call, countVars, excused>>

\* They are left; that of a void even while it is under way.
Cancel(m) ==
    /\ m \in modals /\ bill # null /\ action # "submitting"
    /\ modals' = modals \ {m}
    /\ UNCHANGED <<serverVars, boardVars, bill, voiding, action, call, countVars, excused>>

CancelVoid ==
    /\ voiding # null
    /\ voiding' = null
    /\ UNCHANGED <<serverVars, boardVars, bill, modals, action, call, countVars, excused>>

\* Mutant: a press while a command is under way is a command, too.
PressAnytime(op, t) ==
    /\ Unused(call) # {}
    /\ action' = "submitting"
    /\ call' = With(call, Fetch(op, t))
    /\ UNCHANGED <<serverVars, boardVars, bill, dialogVars, countVars, excused>>

\* recordPayment, closeSession, voidPayment: the command is posted, under a new
\* key each time.
Press(op, t) ==
    /\ action # "submitting"
    /\ Unused(call) # {}
    /\ action' = "submitting"
    /\ call' = With(call, Fetch(op, t))
    /\ UNCHANGED <<serverVars, boardVars, bill, dialogVars, countVars, excused>>

PressPay == "pay" \in modals /\ Drawn /\ Press("pay", selected)
PressClose == "close" \in modals /\ Drawn /\ Press("close", selected)
PressVoid == voiding # null /\ Press("void", voiding)

-----------------------------------------------------------------------------
\* What becomes of a call that the server has carried out or refused; if the
\* screen has given up on it, nobody hears of it.
Carried(c) ==
    call' = IF call[c].heard THEN [call EXCEPT ![c].at = "ok"] ELSE Without(c)

\* The server carries a command out,
Serve(c) ==
    /\ call[c] # null /\ call[c].op \in Commands /\ call[c].at = "sent"
    /\ Carried(c)
    /\ call[c].op # "void" => call[c].table \in seated
    /\ seated' = IF call[c].op = "close" THEN seated \ {call[c].table} ELSE seated
    /\ recorded' = IF call[c].op = "pay" THEN recorded + 1 ELSE recorded
    /\ UNCHANGED <<boardVars, bill, dialogVars, action, countVars, excused>>

\* or reads the board.
ReadBoard(c) ==
    /\ Out(c, "board") /\ call[c].at = "sent"
    /\ call' = [call EXCEPT ![c].at = "ok", ![c].rows = seated]
    /\ UNCHANGED <<serverVars, boardVars, bill, dialogVars, action, countVars, excused>>

-----------------------------------------------------------------------------
\* The last step of a command is to load the board again.
Done(c) ==
    /\ view' = "loading"
    /\ call' = [call EXCEPT ![c] = [LoadBoard EXCEPT !.after = TRUE]]
    /\ UNCHANGED action

Heard(c, op) == Out(c, op) /\ call[c].heard /\ call[c].at = "ok"

\* The paid sum of the answer goes into the bill there is, whose it may be.
Counting(t) == IF bill = null THEN null ELSE [bill EXCEPT !.figures = t]

PayAnswered(c) ==
    /\ Heard(c, "pay")
    /\ modals' = modals \ {"pay"}
    /\ bill' = Counting(call[c].table)
    /\ Done(c)
    /\ UNCHANGED <<serverVars, board, selected, voiding, countVars, excused>>

VoidAnswered(c) ==
    /\ Heard(c, "void")
    /\ voiding' = null
    /\ bill' = Counting(call[c].table)
    /\ Done(c)
    /\ UNCHANGED <<serverVars, board, selected, modals, countVars, excused>>

CloseAnswered(c) ==
    /\ Heard(c, "close")
    /\ modals' = modals \ {"close"}
    /\ bill' = null
    /\ Done(c)
    /\ UNCHANGED <<serverVars, board, selected, voiding, countVars, excused>>

\* A command is refused: the dialog stays, and can be sent again.
Refused(c) ==
    /\ call[c] # null /\ call[c].op \in Commands /\ call[c].at = "sent"
    /\ action' = IF call[c].heard THEN "error" ELSE action
    /\ call' = Without(c)
    /\ UNCHANGED <<serverVars, boardVars, bill, dialogVars, countVars, excused>>

\* The connection is lost: to the screen the command has failed, whether the
\* server has carried it out or does so later.
Lose(c) ==
    /\ call[c] # null /\ call[c].op \in Commands /\ call[c].heard
    /\ failures < MaxFailures
    /\ failures' = failures + 1
    /\ action' = "error"
    /\ call' = IF call[c].at = "sent" THEN [call EXCEPT ![c].heard = FALSE] ELSE Without(c)
    /\ UNCHANGED <<serverVars, boardVars, bill, dialogVars, handed, excused>>

\* The board arrives; without a selection its first table is selected.
BoardArrives(c) ==
    /\ Out(c, "board") /\ call[c].at = "ok"
    /\ board' = call[c].rows /\ view' = "ready"
    /\ selected' = IF selected = null THEN CHOOSE t \in TableIds : TRUE ELSE selected
    /\ ShowDetail(selected', call[c].rows, Without(c))
    /\ action' = IF call[c].after THEN "idle" ELSE action
    /\ UNCHANGED <<serverVars, dialogVars, countVars>>

\* Mutant: a board that fails to load ends the command without a word.
BoardFailsSilently(c) ==
    /\ Out(c, "board")
    /\ view' = "error"
    /\ call' = Without(c)
    /\ excused' = TRUE
    /\ UNCHANGED <<serverVars, board, selected, bill, dialogVars, action, countVars>>

\* It fails, which loadBoard keeps to itself.
BoardFails(c) ==
    /\ Out(c, "board")
    /\ view' = "error"
    /\ action' = IF call[c].after THEN "idle" ELSE action
    /\ call' = Without(c)
    /\ excused' = TRUE
    /\ UNCHANGED <<serverVars, board, selected, bill, dialogVars, countVars>>

\* The detail arrives, and is drawn for whatever table is selected by now.
DetailArrives(c) ==
    /\ Out(c, "detail")
    /\ bill' = [of |-> call[c].table, figures |-> call[c].table]
    /\ call' = Without(c)
    /\ excused' = (excused /\ ~ (/\ call[c].table = selected
                                 /\ \A d \in Calls \ {c} : ~ Out(d, "detail")))
    /\ UNCHANGED <<serverVars, boardVars, dialogVars, action, countVars>>

\* It fails, and whatever command is under way counts as failed.
DetailFails(c) ==
    /\ Out(c, "detail")
    /\ action = "submitting" => failures < MaxFailures
    /\ failures' = IF action = "submitting" THEN failures + 1 ELSE failures
    /\ action' = "error"
    /\ call' = Without(c)
    /\ excused' = TRUE
    /\ UNCHANGED <<serverVars, boardVars, bill, dialogVars, handed>>

-----------------------------------------------------------------------------
Click ==
    \/ \E t \in TableIds : Select(t)
    \/ RefreshBoard
    \/ OpenPay
    \/ OpenClose
    \/ OpenVoid
    \/ \E m \in {"pay", "close"} : Cancel(m)
    \/ CancelVoid
    \/ PressPay
    \/ PressClose
    \/ PressVoid

AtServer(c) == Serve(c) \/ ReadBoard(c)

Returns(c) ==
    \/ PayAnswered(c)
    \/ VoidAnswered(c)
    \/ CloseAnswered(c)
    \/ Refused(c)
    \/ BoardArrives(c)
    \/ DetailArrives(c)

Fails(c) == Lose(c) \/ BoardFails(c) \/ DetailFails(c)

ScreenNext ==
    \/ Click
    \/ \E c \in Calls : AtServer(c) \/ Returns(c) \/ Fails(c)

ScreenSpec == ScreenInit /\ [][ScreenNext]_screenVars

\* The server answers what reaches it, and the browser hands an answer on or
\* gives the call up.
Fairness ==
    \A c \in Calls : WF_screenVars(AtServer(c)) /\ WF_screenVars(Returns(c) \/ Fails(c))

FairSpec == ScreenSpec /\ Fairness

-----------------------------------------------------------------------------
(***************************************************************************)
(* Properties                                                              *)
(***************************************************************************)

\* Every variable holds what its useState was declared for.
ScreenTypeOK ==
    /\ seated \subseteq TableIds
    /\ recorded \in Nat /\ handed \in Nat /\ failures \in Nat
    /\ board \subseteq TableIds
    /\ view \in {"loading", "ready", "error"}
    /\ selected \in TableIds \cup {null}
    /\ bill \in [of : TableIds, figures : TableIds] \cup {null}
    /\ modals \subseteq {"pay", "close"}
    /\ voiding \in TableIds \cup {null}
    /\ action \in {"idle", "submitting", "error"}
    /\ call \in [Calls -> CallRow \cup {null}]
    /\ excused \in BOOLEAN

(***************************************************************************)
(* A payment that a guest hands over is recorded once, but for failures.   *)
(* Each answer that is lost, and each detail that fails to load while a    *)
(* command is under way, lets the cashier press again, with a new key; and *)
(* the command that goes on unseen loads the board at its end, which frees *)
(* the buttons in the middle of a later payment. So each failure may let   *)
(* each payment be recorded once more, and nothing else does.              *)
(***************************************************************************)
PaidWithinFailures == recorded <= handed * (1 + failures)

(***************************************************************************)
(* When nothing is being loaded, the bill on the screen is that of the     *)
(* selected table, and counts its payments, unless a load has failed or    *)
(* been overtaken by another: whatever selections, refreshes and commands  *)
(* came between.                                                           *)
(***************************************************************************)
BillIsOfSelected ==
    Drawn /\ ~ excused /\ (\A c \in Calls : ~ Out(c, "detail") /\ ~ Out(c, "board")) =>
        bill = [of |-> selected, figures |-> selected]

(***************************************************************************)
(* The screen does not stay locked: a command that was pressed comes to an *)
(* end, in whatever way its calls do.                                      *)
(***************************************************************************)
ButtonsComeBack == action = "submitting" ~> action # "submitting"
=============================================================================
