--------------------------- MODULE EventDelivery ---------------------------
(***************************************************************************)
(* What the notification interface promises a client: it is called for an  *)
(* event that did happen, at most once, and only while it is registered.   *)
(* Order is not promised.                                                  *)
(***************************************************************************)
CONSTANTS Clients, Instances, Events

VARIABLES
  subscribed,  \* per instance of the plugin, the clients registered there
  sent,        \* per instance, the events that happened
  called       \* per client, the events it was called for

deliveryVars == <<subscribed, sent, called>>

DeliveryInit ==
  /\ subscribed = [i \in Instances |-> {}]
  /\ sent = [i \in Instances |-> {}]
  /\ called = [c \in Clients |-> {}]

Subscribe(i, c) ==
  /\ c \notin subscribed[i]
  /\ subscribed' = [subscribed EXCEPT ![i] = @ \union {c}]
  /\ UNCHANGED <<sent, called>>

Unsubscribe(i, c) ==
  /\ c \in subscribed[i]
  /\ subscribed' = [subscribed EXCEPT ![i] = @ \ {c}]
  /\ UNCHANGED <<sent, called>>

\* The instance is gone, and with it everybody's registration.
Withdraw(i) ==
  /\ subscribed' = [subscribed EXCEPT ![i] = {}]
  /\ UNCHANGED <<sent, called>>

Send(i, e) ==
  /\ \A j \in Instances : e \notin sent[j]
  /\ sent' = [sent EXCEPT ![i] = @ \union {e}]
  /\ UNCHANGED <<subscribed, called>>

Deliver(i, c, e) ==
  /\ c \in subscribed[i]
  /\ e \in sent[i] \ called[c]
  /\ called' = [called EXCEPT ![c] = @ \union {e}]
  /\ UNCHANGED <<subscribed, sent>>

DeliveryNext ==
  \E i \in Instances :
    \/ Withdraw(i)
    \/ \E c \in Clients : Subscribe(i, c) \/ Unsubscribe(i, c)
    \/ \E e \in Events : Send(i, e) \/ \E c \in Clients : Deliver(i, c, e)

DeliverySpec == DeliveryInit /\ [][DeliveryNext]_deliveryVars
=============================================================================
