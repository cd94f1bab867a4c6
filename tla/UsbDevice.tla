------------------------------ MODULE UsbDevice ------------------------------
(***************************************************************************)
(* What a host may expect of the device of src/USB_Device: the states of   *)
(* USB 2.0, chapter 9, one control request at a time.  A request that is   *)
(* granted has the effect it names and no other; one that is refused or    *)
(* not answered changes neither address nor configuration; sleep changes   *)
(* nothing.  Not promised, unlike in chapter 9: that each request is       *)
(* answered, that features wait for an address, and that a reset or a      *)
(* configuration ends the halt of an endpoint.                             *)
(***************************************************************************)
EXTENDS UsbRequests

VARIABLES
  place,    \* the state of the device; "off" until a first reset
  pipes,    \* the two bulk endpoints are open
  halted,   \* the bulk endpoints that are halted
  asleep,
  request,  \* the request being served
  answer,   \* what the host will get for it
  value     \* the value in that answer, for GET_CONFIGURATION and GET_STATUS

vars == << place, pipes, halted, asleep, request, answer, value >>

Answers == { "none", "stall", "data", "done" }
Values == 0 .. 1
Silent == request' = NoUsbRequest /\ answer' = "none" /\ value' = 0

Init ==
  /\ place = "off" /\ pipes = FALSE /\ halted = {} /\ asleep = FALSE
  /\ request = NoUsbRequest /\ answer = "none" /\ value = 0

\* The bulk endpoints serve a configured device only.
Moves(to) == place' = to /\ pipes' = (to = "configured")

Reset == Moves("default") /\ asleep' = FALSE /\ Silent /\ UNCHANGED halted
Detach == Moves("off") /\ Silent /\ UNCHANGED << halted, asleep >>
Sleep == asleep' = TRUE /\ UNCHANGED << place, pipes, halted, request, answer, value >>
Wake == asleep' = FALSE /\ UNCHANGED << place, pipes, halted, request, answer, value >>

\* The class halts an endpoint.
Halt ==
  /\ place = "configured"
  /\ \E ep \in Bulk : halted' = halted \union { ep }
  /\ UNCHANGED << place, pipes, asleep, request, answer, value >>

\* What may be granted, where it leads, and what the answer tells.
Grantable(r) ==
  CASE r.req = "GET_DESCRIPTOR" -> r.arg = 1
    [] r.req = "SET_ADDRESS" -> place # "configured"
    [] r.req = "SET_CONFIGURATION" -> place # "default" /\ r.arg <= 1
    [] r.to = "device" /\ r.req = "SET_FEATURE" -> TRUE
    [] r.to = "device" /\ r.req \in { "GET_CONFIGURATION", "GET_STATUS", "CLEAR_FEATURE" } ->
         place # "default"
    [] OTHER -> place = "configured"

Granted(r) ==
  CASE r.req = "SET_ADDRESS" -> IF r.arg = 0 THEN "default" ELSE "address"
    [] r.req = "SET_CONFIGURATION" -> IF r.arg = 0 THEN "address" ELSE "configured"
    [] OTHER -> place

Truthful(r, told) ==
  CASE r.req = "GET_CONFIGURATION" -> (told = 1) <=> (place = "configured")
    [] r.to = "endpoint" /\ r.arg \in Bulk -> (told = 1) <=> (r.arg \in halted)
    [] OTHER -> TRUE

\* Halts come and go by requests for the endpoint; the class may halt bulk-in
\* again when any halt is cleared.  An unanswered one may have halted it.
HaltedAfter(r, ans) ==
  LET named == IF r.to = "endpoint" THEN { r.arg } \intersect Bulk ELSE {} IN
  CASE ans = "done" /\ r.req = "CLEAR_FEATURE" ->
         { halted \ named, (halted \ named) \union { BulkIn } }
    [] ans = "done" /\ r.req = "SET_FEATURE" -> { halted \union named }
    [] ans = "none" -> { halted, halted \union named }
    [] OTHER -> { halted }

Serve(r) ==
  /\ place # "off" /\ ~asleep /\ request = NoUsbRequest
  /\ request' = r
  /\ answer' \in Answers /\ value' \in Values
  /\ Moves(IF answer' = "done" THEN Granted(r) ELSE place)
  /\ answer' \in { "data", "done" } => Grantable(r) /\ (answer' = "data" => r.in)
  /\ answer' = "data" => Truthful(r, value')
  /\ halted' \in HaltedAfter(r, answer')
  /\ UNCHANGED asleep

\* The host has its answer, or does without.
Finish == Silent /\ UNCHANGED << place, pipes, halted, asleep >>

Next ==
  \/ Reset \/ Detach \/ Sleep \/ Wake \/ Halt \/ Finish
  \/ \E r \in UsbRequests : Serve(r)

Spec == Init /\ [][Next]_vars
=============================================================================
