------------------------------- MODULE Badge -------------------------------
(***************************************************************************)
(* One user's notifications and the bell badge of a tab: dispatch stores a *)
(* notification and then emits it (notification.service.js); the layout    *)
(* counts the unread ones of the list it fetches at every change of page,  *)
(* and adds one for each it hears of meanwhile (AppLayout.jsx).            *)
(***************************************************************************)
EXTENDS Callers

CONSTANTS
  MaxRows,     \* bound: the notifications there ever are
  MaxFetches   \* bound: the lists on their way at once

ASSUME BadgeAssumption == MaxRows \in Nat /\ MaxFetches \in Nat

VARIABLES
  rows,         \* rows of notifications
  unread,       \* those with is_read FALSE
  emitting,     \* stored notifications dispatch has still to emit
  events,       \* emitted notifications on their way to the tab
  fetches,      \* lists on their way: the page they are for, what is unread in them
  page,         \* the pages visited so far, modulo the lists on their way
  unreadCount,  \* the badge
  overlap,      \* history: since the page changed, a notification came or was read
  astray        \* history: the badge may be off until the next list

badgeVars == <<rows, unread, emitting, events, fetches, page, unreadCount, overlap, astray>>

NotRead == MaxRows + 1   \* the list has not been read from the database yet

(* notificationRepository.create ...                                         *)
Dispatch ==
  /\ rows < MaxRows
  /\ rows' = rows + 1
  /\ unread' = unread + 1
  /\ emitting' = emitting + 1
  /\ overlap' = TRUE
  /\ UNCHANGED <<events, fetches, page, unreadCount, astray>>

(* ... then emitToUser, which repeats nothing that is lost.                  *)
Emit ==
  /\ emitting > 0
  /\ emitting' = emitting - 1
  /\ \/ events' = events + 1 /\ UNCHANGED <<overlap, astray>>
     \/ overlap' = TRUE /\ astray' = TRUE /\ UNCHANGED events
  /\ UNCHANGED <<rows, unread, fetches, page, unreadCount>>

OnNotification ==
  /\ events > 0
  /\ events' = events - 1
  /\ unreadCount' = unreadCount + 1
  /\ UNCHANGED <<rows, unread, emitting, fetches, page, overlap, astray>>

(* markRead, markAllRead: the badge is not told.                             *)
MarkRead ==
  /\ \E left \in 0..MaxRows : left < unread /\ unread' = left
  /\ overlap' = TRUE /\ astray' = TRUE
  /\ UNCHANGED <<rows, emitting, events, fetches, page, unreadCount>>

(* The page changes: the list on its way is cancelled and a new one fetched. *)
ChangePage ==
  /\ Cardinality(fetches) < MaxFetches
  /\ LET next == CHOOSE n \in 0..MaxFetches : \A f \in fetches : f.page # n IN
       /\ page' = next
       /\ fetches' = fetches \cup {[page |-> next, unread |-> NotRead]}
  /\ overlap' = (emitting + events > 0)
  /\ UNCHANGED <<rows, unread, emitting, events, unreadCount, astray>>

ListRead(f) ==
  /\ f.unread = NotRead
  /\ fetches' = (fetches \ {f}) \cup {[f EXCEPT !.unread = unread]}
  /\ UNCHANGED <<rows, unread, emitting, events, page, unreadCount, overlap, astray>>

(* Fault: a list for a page that has been left counts too.                   *)
CancelledFault(f) == FALSE

Cancelled(f) == f.page # page

(* The list arrives; a failed or a cancelled one changes nothing.            *)
ListArrives(f) ==
  /\ fetches' = fetches \ {f}
  /\ \/ UNCHANGED <<unreadCount, astray>>
     \/ /\ f.unread # NotRead /\ ~Cancelled(f)
        /\ unreadCount' = f.unread
        /\ astray' = overlap
  /\ UNCHANGED <<rows, unread, emitting, events, page, overlap>>

---------------------------------------------------------------------------
BadgeInit ==
  /\ rows = 0 /\ unread = 0 /\ emitting = 0 /\ events = 0
  /\ fetches = {} /\ page = 0
  /\ unreadCount = 0
  /\ overlap = FALSE /\ astray = FALSE

BadgeNext ==
  \/ Dispatch \/ Emit \/ OnNotification \/ MarkRead \/ ChangePage
  \/ \E f \in fetches : ListRead(f) \/ ListArrives(f)

BadgeSpec == BadgeInit /\ [][BadgeNext]_badgeVars

---------------------------------------------------------------------------
(* The badge counts the unread notifications, those still to be heard of     *)
(* aside, unless a notification was stored, read or lost while a list was on *)
(* its way: then a list may undo or repeat what was heard, until the next.   *)
BadgeCountsUnread == astray \/ unreadCount + emitting + events = unread
===========================================================================
