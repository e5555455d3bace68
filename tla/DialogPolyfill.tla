---------------------------- MODULE DialogPolyfill ----------------------------
(***************************************************************************)
(* dialog-polyfill.js, which index.html loads where the browser has no     *)
(* dialog element: the dialogs of a page (dialogPolyfillInfo) and the      *)
(* DialogManager that keeps the modal ones in a stack, orders them by      *)
(* z-index, lays an overlay under the topmost and keeps the focus in it.   *)
(*                                                                         *)
(* Scripts of the page may call the dialogs, change their attribute open   *)
(* and put them into or take them out of the document in any order.  The   *)
(* MutationObservers learn of that when the script has ended; the user     *)
(* acts when they have been notified.  All dialogs are registered and are  *)
(* children of the body, as index.html makes them.                         *)
(***************************************************************************)
EXTENDS Integers, Sequences, FiniteSets

CONSTANTS
    Dialogs,
    Focusable,   \* the dialogs in which something can have the focus
    Centered,    \* the dialogs with an absolute position for which no
                 \*   stylesheet gives a top or bottom
    ZLow, ZHigh, \* zIndexLow_, zIndexHigh_
    MaxRecords,  \* bound on the records a script leaves to the observers
    Hasty        \* does a script show a dialog as modal again before the
                 \*   observers know that it took it away?

ASSUME DialogAssumption ==
    /\ \A d \in Dialogs : d \notin {"page", "html", "body"}
    /\ Focusable \subseteq Dialogs /\ Centered \subseteq Dialogs
    /\ ZLow \in Nat /\ ZHigh \in Nat /\ ZLow + 4 <= ZHigh
    /\ MaxRecords \in Nat /\ Hasty \in BOOLEAN

VARIABLES
    body,        \* the dialogs in the document, in its order
    open,        \* the dialogs with the attribute open
    modal,       \* openAsModal_
    backdrop,    \* the dialogs whose backdrop_ is in the document
    zIndex,      \* style.zIndex of the dialogs ...
    backdropZ,   \*   ... and of the backdrops in the document
    top,         \* style.top of the dialogs
    replaced,    \* replacedStyleTop_
    stack,       \* pendingDialogStack, topmost first
    overlay,     \* the z-index of the overlay, Out if it is not in the document
    blocked,     \* are focus and keys handled and the document observed?
    forwardTab,  \* forwardTab_
    active,      \* where document.activeElement is
    removed,     \* dialogs in the records of the document's observer
    changed,     \* dialogs with a record of a change of their attribute open
    turn,        \* do scripts run, or the observers' callbacks?
    clone, gone  \* checkDOM_: the dialogs to be checked, the parameter removed

elements == <<body, open, forwardTab, active>>
layers == <<stack, zIndex, backdropZ, overlay, blocked, removed>>
manager == <<layers, modal, backdrop, top, replaced>>
observers == <<changed, turn, clone, gone>>
vars == <<elements, manager, observers>>

Page == "page"   \* an element of the page outside of the dialogs
Root == "html"   \* document.documentElement
Body == "body"   \* document.body, active when nothing has the focus
Out == 0         \* no z-index

Items(s) == {s[i] : i \in 1 .. Len(s)}
Connected == Items(body)
Shown(d) == d \in open /\ d \in Connected

(* Have the observers been notified of everything? *)
Pending == removed # {} \/ changed # {}
Quiet == turn = "script" /\ ~Pending

TypeOK ==
    /\ body \in Seq(Dialogs) /\ stack \in Seq(Dialogs) /\ clone \in Seq(Dialogs)
    /\ open \subseteq Dialogs /\ modal \subseteq Dialogs /\ backdrop \subseteq Dialogs
    /\ replaced \subseteq Dialogs /\ removed \subseteq Dialogs
    /\ changed \subseteq Dialogs /\ gone \subseteq Dialogs
    /\ zIndex \in [Dialogs -> Nat] /\ backdropZ \in [Dialogs -> Nat]
    /\ overlay \in Nat /\ blocked \in BOOLEAN
    /\ top \in [Dialogs -> {"auto", "centered", "own"}]
    /\ forwardTab \in {"undefined", "forward", "backward"}
    /\ active \in Dialogs \cup {Page, Root, Body}
    /\ turn \in {"script", "observers"}

Init ==
    /\ body = <<>> /\ open = {} /\ forwardTab = "undefined" /\ active = Body
    /\ stack = <<>> /\ zIndex = [d \in Dialogs |-> Out]
    /\ backdropZ = [d \in Dialogs |-> Out]
    /\ overlay = Out /\ blocked = FALSE /\ removed = {}
    /\ modal = {} /\ backdrop = {} /\ replaced = {}
    /\ top = [d \in Dialogs |-> "auto"]
    /\ changed = {} /\ turn = "script" /\ clone = <<>> /\ gone = {}

-----------------------------------------------------------------------------
(* The stack of the DialogManager *)

(* Mutant: the place of the overlay is not taken off.                      *)
AllowedWithoutOverlay == (ZHigh - ZLow) \div 2

Allowed == (ZHigh - ZLow) \div 2 - 1

Index(s, d) == CHOOSE i \in 1 .. Len(s) : s[i] = d /\ \A j \in 1 .. i - 1 : s[j] # d
RemoveAt(s, i) == [j \in 1 .. Len(s) - 1 |-> IF j < i THEN s[j] ELSE s[j + 1]]

(* Mutant: the z-indexes are ten apart.                                    *)
PlaceByTens(i) == IF i = 1 THEN ZHigh - 1 ELSE ZHigh - 10 * i

(* The first dialog is followed by its backdrop and the overlay, every     *)
(* other one by its backdrop.                                              *)
Place(i) == IF i = 1 THEN ZHigh - 1 ELSE ZHigh - 2 * i

Restacked(s, z, below) ==
    [d \in Dialogs |-> IF d \in Items(s) THEN Place(Index(s, d)) - below ELSE z[d]]

UpdateStacking(s, dialogs, backdrops) ==
    /\ zIndex' = Restacked(s, dialogs, 0)
    /\ backdropZ' = Restacked(s, backdrops, 1)
    /\ overlay' = IF s = <<>> THEN Out ELSE ZHigh - 3

(* Mutant: push instead of unshift.                                        *)
PushAtTheEnd(d) ==
    /\ Len(stack) < Allowed
    /\ stack' = Append(stack, d)
    /\ blocked' = TRUE
    /\ removed' = removed
    /\ UpdateStacking(stack', zIndex, backdropZ)

(* blockDocument lets the observer of the document begin.                  *)
PushDialog(d) ==
    /\ Len(stack) < Allowed
    /\ stack' = <<d>> \o stack
    /\ blocked' = TRUE
    /\ removed' = removed
    /\ UpdateStacking(stack', zIndex, backdropZ)

(* Mutant: splice without the number of elements.                          *)
RemoveAllFrom(d) ==
    LET dialogs == [zIndex EXCEPT ![d] = Out]
        backdrops == [backdropZ EXCEPT ![d] = Out]
    IN  IF d \in Items(stack)
        THEN /\ stack' = SubSeq(stack, 1, Index(stack, d) - 1)
             /\ blocked' = (blocked /\ stack' # <<>>)
             /\ removed' = IF stack' = <<>> THEN {} ELSE removed
             /\ UpdateStacking(stack', dialogs, backdrops)
        ELSE /\ zIndex' = dialogs /\ backdropZ' = backdrops
             /\ UNCHANGED <<stack, overlay, blocked, removed>>

(* Mutant: the observer is disconnected with every dialog that goes.       *)
RemoveAndForget(d) ==
    LET dialogs == [zIndex EXCEPT ![d] = Out]
        backdrops == [backdropZ EXCEPT ![d] = Out]
    IN  IF d \in Items(stack)
        THEN /\ stack' = RemoveAt(stack, Index(stack, d))
             /\ blocked' = (blocked /\ stack' # <<>>)
             /\ removed' = {}
             /\ UpdateStacking(stack', dialogs, backdrops)
        ELSE /\ zIndex' = dialogs /\ backdropZ' = backdrops
             /\ UNCHANGED <<stack, overlay, blocked, removed>>

(* unblockDocument disconnects it, and it forgets its records.             *)
RemoveDialog(d) ==
    LET dialogs == [zIndex EXCEPT ![d] = Out]
        backdrops == [backdropZ EXCEPT ![d] = Out]
    IN  IF d \in Items(stack)
        THEN /\ stack' = RemoveAt(stack, Index(stack, d))
             /\ blocked' = (blocked /\ stack' # <<>>)
             /\ removed' = IF stack' = <<>> THEN {} ELSE removed
             /\ UpdateStacking(stack', dialogs, backdrops)
        ELSE /\ zIndex' = dialogs /\ backdropZ' = backdrops
             /\ UNCHANGED <<stack, overlay, blocked, removed>>

(* Mutant: replacedStyleTop_ is reset before it is looked at.              *)
DowngradeKeepsTop(d) ==
    IF d \in modal
    THEN /\ modal' = modal \ {d}
         /\ backdrop' = backdrop \ {d}
         /\ replaced' = replaced \ {d}
         /\ top' = top
         /\ RemoveDialog(d)
    ELSE UNCHANGED manager

DowngradeModal(d) ==
    IF d \in modal
    THEN /\ modal' = modal \ {d}
         /\ backdrop' = backdrop \ {d}
         /\ top' = IF d \in replaced THEN [top EXCEPT ![d] = "auto"] ELSE top
         /\ replaced' = replaced \ {d}
         /\ RemoveDialog(d)
    ELSE UNCHANGED manager

MaybeHideModal(d) ==
    IF Shown(d) THEN UNCHANGED manager ELSE DowngradeModal(d)

-----------------------------------------------------------------------------
(* The focus *)

CanFocus(d) == d \in Focusable /\ Shown(d)

(* focus_: what is active afterwards.                                      *)
Focused(d) == IF CanFocus(d) THEN d ELSE Body

Position(d) == CHOOSE i \in 1 .. Len(body) : body[i] = d
Precedes(t, d) ==
    \/ t = Page
    \/ d \notin Connected   \* then the order is up to the browser
    \/ t \in Connected /\ Position(t) < Position(d)

(* Mutant: a target in any modal dialog is accepted.                       *)
HandleFocusInAny(t, tab) ==
    IF ~blocked \/ t = Root \/ t \in Items(stack) THEN {t}
    ELSE IF ~Precedes(t, Head(stack)) THEN {Body}
    ELSE CASE tab = "undefined" -> {Body}
           [] tab = "forward"   -> {Focused(Head(stack))}
           [] tab = "backward"  -> {Root, Body}

(* handleFocus_: the elements that may be active after t got the focus.    *)
(* focus() on the root element has an effect in some browsers only.        *)
HandleFocus(t, tab) ==
    IF ~blocked \/ t = Root \/ t = Head(stack) THEN {t}
    ELSE IF ~Precedes(t, Head(stack)) THEN {Body}
    ELSE CASE tab = "undefined" -> {Body}
           [] tab = "forward"   -> {Focused(Head(stack))}
           [] tab = "backward"  -> {Root, Body}

Targets == {Page, Root} \cup {d \in Dialogs : CanFocus(d)}

(* A dialog that is no longer displayed may keep the focus.                *)
Blurred(d) == IF active = d THEN {d, Body} ELSE {active}

-----------------------------------------------------------------------------
(* Scripts of the page *)

Script == turn = "script" /\ UNCHANGED <<turn, clone, gone>>
MayRecord == Cardinality(removed) + Cardinality(changed) < MaxRecords

(* The body's appendChild(dialog) of showDialog in index.html.             *)
AppendDialog(d) ==
    /\ Script
    /\ d \notin Connected
    /\ body' = Append(body, d)
    /\ UNCHANGED <<open, forwardTab, active, manager, changed>>

(* remove() and removeChild of index.html.                                 *)
RemoveElement(d) ==
    /\ Script /\ MayRecord
    /\ d \in Connected
    /\ body' = RemoveAt(body, Position(d))
    /\ removed' = IF blocked THEN removed \cup {d} ELSE removed
    /\ active' = IF active = d THEN Body ELSE active
    /\ UNCHANGED <<open, forwardTab, modal, backdrop, top, replaced,
                   stack, zIndex, backdropZ, overlay, blocked, changed>>

(* removeAttribute("open"), past the functions of the dialog.              *)
RemoveAttribute(d) ==
    /\ Script /\ MayRecord
    /\ d \in open
    /\ open' = open \ {d}
    /\ changed' = changed \cup {d}
    /\ active' \in Blurred(d)
    /\ UNCHANGED <<body, forwardTab, manager>>

(* show() blurs the active element before it focuses the dialog.           *)
Show(d) ==
    /\ Script /\ MayRecord
    /\ d \notin open
    /\ open' = open \cup {d}
    /\ changed' = changed \cup {d}
    /\ active' \in IF d \in Focusable /\ d \in Connected
                   THEN HandleFocus(d, forwardTab) ELSE {Body}
    /\ UNCHANGED <<body, forwardTab, manager>>

NeedsCentering(d) == d \in Centered /\ top[d] = "auto"

(* Throws, and changes nothing, where the first three conditions fail.     *)
ShowModal(d) ==
    /\ Script /\ MayRecord
    /\ d \notin open
    /\ d \in Connected
    /\ PushDialog(d)
    /\ Hasty \/ (d \notin modal /\ d \notin removed)
    /\ open' = open \cup {d}
    /\ changed' = changed \cup {d}
    /\ modal' = modal \cup {d}
    /\ top' = IF NeedsCentering(d) THEN [top EXCEPT ![d] = "centered"] ELSE top
    /\ replaced' = IF NeedsCentering(d) THEN replaced \cup {d} ELSE replaced \ {d}
    /\ backdrop' = backdrop \cup {d}
    /\ active' = IF d \in Focusable THEN d ELSE Body
    /\ UNCHANGED <<body, forwardTab>>

(* setOpen(false), called by close.                                        *)
SetOpenFalse(d) ==
    /\ open' = open \ {d}
    /\ changed' = changed \cup {d}
    /\ DowngradeModal(d)
    /\ active' \in Blurred(d)
    /\ UNCHANGED <<body, turn, clone, gone>>

Close(d) ==
    /\ turn = "script" /\ MayRecord
    /\ d \in open
    /\ SetOpenFalse(d)
    /\ UNCHANGED forwardTab

(* A script, or the user who drags the dialog, positions it.  The position *)
(* of a dialog that is never centered is left out.                         *)
PositionDialog(d) ==
    /\ Script
    /\ Shown(d) /\ d \in Centered
    /\ top' = [top EXCEPT ![d] = "own"]
    /\ UNCHANGED <<elements, layers, modal, backdrop, replaced, changed>>

FocusOn(t) ==
    /\ Script
    /\ active' \in HandleFocus(t, forwardTab)
    /\ UNCHANGED <<body, open, forwardTab, manager, changed>>

-----------------------------------------------------------------------------
(* The observers, when a script or a handler has ended.  The one of the    *)
(* document was created first.                                             *)

ScriptEnds ==
    /\ turn = "script" /\ Pending
    /\ turn' = "observers"
    /\ UNCHANGED <<elements, manager, changed, clone, gone>>

DocumentChanged ==
    /\ turn = "observers" /\ clone = <<>> /\ removed # {}
    /\ removed' = {}
    /\ clone' = stack /\ gone' = removed
    /\ UNCHANGED <<elements, modal, backdrop, top, replaced,
                   stack, zIndex, backdropZ, overlay, blocked, changed, turn>>

(* Mutant: any removal is one of the dialog.                               *)
CheckAnyRemoved ==
    /\ clone # <<>>
    /\ IF gone # {} THEN DowngradeModal(Head(clone))
                    ELSE MaybeHideModal(Head(clone))
    /\ clone' = Tail(clone)
    /\ gone' = IF Len(clone) = 1 THEN {} ELSE gone
    /\ UNCHANGED <<elements, changed, turn>>

(* Mutant: the parameter removed is not looked at.                         *)
CheckPresentOnly ==
    /\ clone # <<>>
    /\ MaybeHideModal(Head(clone))
    /\ clone' = Tail(clone)
    /\ gone' = IF Len(clone) = 1 THEN {} ELSE gone
    /\ UNCHANGED <<elements, changed, turn>>

(* One round of the loop in checkDOM_.                                     *)
CheckNext ==
    /\ clone # <<>>
    /\ IF Head(clone) \in gone THEN DowngradeModal(Head(clone))
                               ELSE MaybeHideModal(Head(clone))
    /\ clone' = Tail(clone)
    /\ gone' = IF Len(clone) = 1 THEN {} ELSE gone
    /\ UNCHANGED <<elements, changed, turn>>

AttributeChanged(d) ==
    /\ turn = "observers" /\ clone = <<>> /\ removed = {}
    /\ d \in changed
    /\ changed' = changed \ {d}
    /\ MaybeHideModal(d)
    /\ UNCHANGED <<elements, turn, clone, gone>>

ObserversEnd ==
    /\ turn = "observers" /\ clone = <<>> /\ ~Pending
    /\ turn' = "script"
    /\ UNCHANGED <<elements, manager, changed, clone, gone>>

Observers == DocumentChanged \/ CheckNext \/ (\E d \in Dialogs : AttributeChanged(d)) \/ ObserversEnd

-----------------------------------------------------------------------------
(* The user *)

(* The event cancel may be prevented.                                      *)
EscapeKey(prevented) ==
    /\ Quiet /\ blocked
    /\ forwardTab' = "undefined"
    /\ IF ~prevented /\ Head(stack) \in open
       THEN SetOpenFalse(Head(stack))
       ELSE UNCHANGED <<body, open, active, manager, observers>>

TabKey(direction, t) ==
    /\ Quiet
    /\ forwardTab' = IF blocked THEN direction ELSE forwardTab
    /\ active' \in HandleFocus(t, direction)
    /\ UNCHANGED <<body, open, manager, observers>>

OtherKey ==
    /\ Quiet /\ blocked
    /\ forwardTab' = "undefined"
    /\ UNCHANGED <<body, open, active, manager, observers>>

ClickOverlay ==
    /\ Quiet /\ overlay # Out
    /\ forwardTab' = "undefined"
    /\ active' = Body
    /\ turn' = "observers" /\ clone' = stack /\ gone' = {}
    /\ UNCHANGED <<body, open, manager, changed>>

(* The focus goes to the dialog, or to an element made for it and removed. *)
ClickBackdrop ==
    /\ Quiet /\ stack # <<>>
    /\ active' \in IF CanFocus(Head(stack)) THEN {Head(stack), Body} ELSE {Body}
    /\ UNCHANGED <<body, open, forwardTab, manager, observers>>

Next ==
    \/ \E d \in Dialogs :
          \/ AppendDialog(d) \/ RemoveElement(d) \/ RemoveAttribute(d)
          \/ Show(d) \/ ShowModal(d) \/ Close(d) \/ PositionDialog(d)
    \/ \E t \in Targets : FocusOn(t)
    \/ ScriptEnds \/ Observers
    \/ \E prevented \in BOOLEAN : EscapeKey(prevented)
    \/ \E t \in Targets, direction \in {"forward", "backward"} : TabKey(direction, t)
    \/ OtherKey \/ ClickOverlay \/ ClickBackdrop

(* The browser notifies observers whenever a script has ended.             *)
Spec == Init /\ [][Next]_vars
FairSpec == Spec /\ WF_vars(ScriptEnds \/ Observers)

-----------------------------------------------------------------------------

(* pendingDialogStack holds exactly the dialogs that are open as modals,   *)
(* each once, and a backdrop is in the document for each of them and for   *)
(* no other dialog.                                                        *)
StackIsModal ==
    /\ \A i, j \in 1 .. Len(stack) : stack[i] = stack[j] => i = j
    /\ Items(stack) = modal
    /\ backdrop = modal

(* The document is blocked, observed and covered by the overlay exactly    *)
(* while there are modal dialogs; the overlay lies between the topmost     *)
(* backdrop and the next dialog, and all z-indexes are in the range that   *)
(* the manager reserves.                                                   *)
WellStacked ==
    /\ blocked = (stack # <<>>) /\ (overlay # Out) = blocked
    /\ \A i \in 1 .. Len(stack) :
          /\ ZLow < backdropZ[stack[i]] /\ zIndex[stack[i]] < ZHigh
          /\ backdropZ[stack[i]] < zIndex[stack[i]]
          /\ i = 1 => overlay < backdropZ[stack[i]] /\ ZLow < overlay
          /\ i > 1 => zIndex[stack[i]] < overlay
          /\ i > 1 => zIndex[stack[i]] < backdropZ[stack[i - 1]]

(* When the observers have run, the document is blocked by dialogs only    *)
(* that the user can see: none that were closed, whose attribute was       *)
(* cleared or that were taken out of the document.                         *)
NoStaleModal == Quiet => \A d \in modal : Shown(d)

(* Neither the page nor a covered modal dialog has the focus.              *)
FocusIsTrapped ==
    blocked => active # Page /\ \A i \in 2 .. Len(stack) : active # stack[i]

(* The position that centers a dialog is gone when it is no longer modal.  *)
CenteringIsUndone == \A d \in Dialogs : top[d] = "centered" => d \in modal

(* A modal dialog loses its place only when it is closed or taken out of   *)
(* the document.                                                           *)
KeepsItsPlace ==
    [][\A d \in modal \ modal' :
          d \notin open' \/ d \notin Connected \/ d \in removed \cup gone]_vars

(* Dialogs that are removed and added again at once do not stay modal.     *)
ReaddedBecomesNormal == \A d \in Dialogs : d \in removed ~> d \notin modal

(* The dialogs in front of the overlay.                                    *)
Reachable == {d \in Dialogs : overlay = Out \/ zIndex[d] > overlay}

(* The stack, and what lies in front of the overlay, behave as the top     *)
(* layer that browsers with dialogs of their own have.                     *)
Native == INSTANCE TopLayer WITH layer <- stack, usable <- Reachable
ImplementsTopLayer == Native!Spec
===============================================================================
