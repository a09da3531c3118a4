------------------------ MODULE NotificationService -------------------------
(***************************************************************************)
(* services/notification-service: the notifications it stores and its      *)
(* inbox (processed_notification_messages), written in one transaction by  *)
(* appendIfUnprocessed.                                                    *)
(***************************************************************************)
EXTENDS Messages

VARIABLES
  notifications,     \* how many notifications of each type a booking has
  notificationInbox  \* message ids in processed_notification_messages

notificationVars == <<notifications, notificationInbox>>

\* The topics notification-service subscribes to name the notification types.
NotifiedTopics == {"BOOKING_CONFIRMED", "BOOKING_FAILED", "BOOKING_CANCELLED"}

NotificationTypeOK ==
  /\ notifications \in [Bookings -> [NotifiedTopics -> Nat]]
  /\ notificationInbox \subseteq MessageIds

NotificationInit ==
  /\ notifications = [b \in Bookings |-> [t \in NotifiedTopics |-> 0]]
  /\ notificationInbox = {}

\* As AppendIfUnprocessed below, without looking at the inbox.
AppendAlways(m) ==
  /\ notifications' = [notifications EXCEPT ![m.bookingId][m.topic] = @ + 1]
  /\ notificationInbox' = notificationInbox \union {m.messageId}

\* The same, taking the booking instead of the message for the unit of work.
AppendOncePerBooking(m) ==
  /\ m.messageId \notin notificationInbox
  /\ notificationInbox' = notificationInbox \union {m.messageId}
  /\ notifications' =
       IF \A t \in NotifiedTopics : notifications[m.bookingId][t] = 0
       THEN [notifications EXCEPT ![m.bookingId][m.topic] = @ + 1]
       ELSE notifications

\* Inbox row and notification are inserted in one transaction, or neither is.
AppendIfUnprocessed(m) ==
  /\ m.messageId \notin notificationInbox
  /\ notificationInbox' = notificationInbox \union {m.messageId}
  /\ notifications' = [notifications EXCEPT ![m.bookingId][m.topic] = @ + 1]

HandleBookingConfirmed(m) == m.topic = "BOOKING_CONFIRMED" /\ AppendIfUnprocessed(m)
HandleBookingFailed(m) == m.topic = "BOOKING_FAILED" /\ AppendIfUnprocessed(m)
HandleBookingCancelled(m) == m.topic = "BOOKING_CANCELLED" /\ AppendIfUnprocessed(m)

=============================================================================
