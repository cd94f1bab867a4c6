------------------------------- MODULE UsbCore -------------------------------
(***************************************************************************)
(* The USB device core of src/USB_Device, and a host.  One action is one   *)
(* event of the bus with the interrupt handler that it runs.  Handlers are *)
(* operators of the same name, from one "usb" to the next.  Every reply of *)
(* the device fits in one packet of the default endpoint (at most 48 bytes *)
(* of 64): the branches for longer ones are never taken.                   *)
(***************************************************************************)
EXTENDS UsbRequests

VARIABLES
  usb,  \* USBD_Device, and the endpoints of the controller
  host  \* where the host is in its request; whether the bus sleeps

usbVars == << usb, host >>

\* "open" and "halt" are endpoints (0 in halt is is_stall of OUT_ep[0], which
\* nothing clears).  "in" is what waits to be sent on the default endpoint, with
\* "value" if it is data, "out" that a status is awaited there, "stall" which of
\* its directions are stalled.  A "deaf" device has masked the interrupt of its
\* setup packets.  Of ep0_state only whether it is DATA_IN matters to the code.
UsbInit ==
  /\ usb = [ dev_state |-> "DEFAULT", dev_old_state |-> "none", dev_config |-> 0,
             dev_remote_wakeup |-> 0, dataIn |-> FALSE,
             in |-> "nothing", value |-> 0, out |-> FALSE, stall |-> {},
             open |-> {}, halt |-> {}, deaf |-> FALSE ]
  /\ host = [ at |-> "off", request |-> NoUsbRequest, asleep |-> FALSE ]

-----------------------------------------------------------------------------
\* The replies.
CtlSendData(u, value) ==
  [ u EXCEPT !.dataIn = TRUE, !.in = "data", !.value = value ]
CtlSendStatus(u) == [ u EXCEPT !.dataIn = FALSE, !.in = "status" ]
CtlReceiveStatus(u) == [ u EXCEPT !.dataIn = FALSE, !.out = TRUE ]
CtlError(u) == [ u EXCEPT !.stall = { "in", "out" }, !.halt = @ \union { 0 } ]

\* The class.  Its handle is allocated for each configuration and never freed.
MscInit(u) == [ u EXCEPT !.open = Bulk ]
MscDeInit(u) == [ u EXCEPT !.open = {} ]

\* USBD_MSC_Setup for CLEAR_FEATURE closes the endpoint that wIndex names, which for
\* a device or an interface is the default one, and opens a bulk endpoint.  "again":
\* BOT_CplClrFeature finds the class in error and halts bulk-in.
MscClearFeature(u, wIndex, again) ==
  [ u EXCEPT !.deaf = @ \/ wIndex = 0,
             !.open = @ \union { IF wIndex = 0 THEN BulkOut ELSE wIndex },
             !.halt = IF again THEN @ \union { BulkIn } ELSE @ ]

\* Requests for the device.
GetDescriptor(u, r) ==
  IF r.arg = 0 THEN CtlError(u)
  ELSE IF r.wLength # 0 THEN CtlSendData(u, 0)
  ELSE u

SetAddress(u, r) ==
  IF u.dev_state = "CONFIGURED" THEN CtlError(u)
  ELSE [ CtlSendStatus(u) EXCEPT !.dev_state = IF r.arg = 0 THEN "DEFAULT" ELSE "ADDRESSED" ]

\* Mutant: the class is not told that it is not configured any more.
SetConfigOnly(u, r) ==
  IF r.arg > 1 \/ u.dev_state \notin { "ADDRESSED", "CONFIGURED" } THEN CtlError(u)
  ELSE IF u.dev_state = "ADDRESSED" /\ r.arg = 1
  THEN CtlSendStatus(MscInit([ u EXCEPT !.dev_config = 1, !.dev_state = "CONFIGURED" ]))
  ELSE IF u.dev_state = "CONFIGURED" /\ r.arg = 0
  THEN CtlSendStatus([ u EXCEPT !.dev_config = 0, !.dev_state = "ADDRESSED" ])
  ELSE CtlSendStatus(u)

\* Configuration 1 is the only one, and dev_config when it is configured.
SetConfig(u, r) ==
  IF r.arg > 1 \/ u.dev_state \notin { "ADDRESSED", "CONFIGURED" } THEN CtlError(u)
  ELSE IF u.dev_state = "ADDRESSED" /\ r.arg = 1
  THEN CtlSendStatus(MscInit([ u EXCEPT !.dev_config = 1, !.dev_state = "CONFIGURED" ]))
  ELSE IF u.dev_state = "CONFIGURED" /\ r.arg = 0
  THEN CtlSendStatus(MscDeInit([ u EXCEPT !.dev_config = 0, !.dev_state = "ADDRESSED" ]))
  ELSE CtlSendStatus(u)

GetConfig(u, r) ==
  IF r.wLength # 1 \/ u.dev_state \notin { "ADDRESSED", "CONFIGURED" } THEN CtlError(u)
  ELSE CtlSendData(u, IF u.dev_state = "CONFIGURED" THEN u.dev_config ELSE 0)

GetStatus(u) ==
  IF u.dev_state \notin { "ADDRESSED", "CONFIGURED" } THEN CtlError(u)
  ELSE CtlSendData(u, u.dev_remote_wakeup)

SetFeature(u, r) ==
  IF r.arg = 1 THEN CtlSendStatus([ u EXCEPT !.dev_remote_wakeup = 1 ]) ELSE u

ClrFeature(u, r, again) ==
  IF u.dev_state \notin { "ADDRESSED", "CONFIGURED" } THEN CtlError(u)
  ELSE IF r.arg = 1
  THEN CtlSendStatus(MscClearFeature([ u EXCEPT !.dev_remote_wakeup = 0 ], 0, again))
  ELSE u

StdDevReq(u, r, again) ==
  CASE r.req = "GET_DESCRIPTOR" -> GetDescriptor(u, r)
    [] r.req = "SET_ADDRESS" -> SetAddress(u, r)
    [] r.req = "SET_CONFIGURATION" -> SetConfig(u, r)
    [] r.req = "GET_CONFIGURATION" -> GetConfig(u, r)
    [] r.req = "GET_STATUS" -> GetStatus(u)
    [] r.req = "SET_FEATURE" -> SetFeature(u, r)
    [] r.req = "CLEAR_FEATURE" -> ClrFeature(u, r, again)
    [] OTHER -> CtlError(u)

\* Requests for an interface.  Number 1 passes for one; GET_STATUS is not known to
\* the class and gets no answer.
StdItfReq(u, r, again) ==
  IF u.dev_state # "CONFIGURED" \/ r.arg > 1 THEN CtlError(u)
  ELSE CASE r.req \in { "GET_MAX_LUN", "GET_INTERFACE" } -> CtlSendData(u, 0)
         [] r.req = "CLEAR_FEATURE" -> CtlSendStatus(MscClearFeature(u, r.arg, again))
         [] r.req = "GET_STATUS" -> u
         [] r.req = "any_class" -> CtlSendStatus(CtlError(u))
         [] OTHER -> CtlSendStatus(u)

\* Requests for an endpoint.
StdEPReq(u, r, again) ==
  LET stalled == [ u EXCEPT !.halt = @ \union ({ r.arg } \intersect Bulk) ] IN
  CASE r.req = "any" -> u
    [] r.req # "any" /\ u.dev_state \notin { "ADDRESSED", "CONFIGURED" } -> CtlError(u)
    [] r.req # "any" /\ u.dev_state = "ADDRESSED" -> stalled
    [] r.req = "SET_FEATURE" /\ u.dev_state = "CONFIGURED" -> CtlSendStatus(stalled)
    [] r.req = "CLEAR_FEATURE" /\ u.dev_state = "CONFIGURED" ->
         CtlSendStatus(IF r.arg = 0 THEN u
                       ELSE MscClearFeature([ u EXCEPT !.halt = @ \ { r.arg } ], r.arg, again))
    [] r.req = "GET_STATUS" /\ u.dev_state = "CONFIGURED" ->
         CtlSendData(u, IF r.arg \in u.halt THEN 1 ELSE 0)

\* A setup packet makes the controller end what was going on at the default endpoint.
SetupReceived(u) == [ u EXCEPT !.in = "nothing", !.out = FALSE, !.stall = {} ]

SetupStage(u, r, again) ==
  LET began == [ u EXCEPT !.dataIn = FALSE ] IN
  CASE r.to = "device" -> StdDevReq(began, r, again)
    [] r.to = "interface" -> StdItfReq(began, r, again)
    [] r.to = "endpoint" -> StdEPReq(began, r, again)
    [] r.to = "other" -> IF r.in THEN [ began EXCEPT !.stall = { "in" } ]
                         ELSE [ began EXCEPT !.stall = { "out" }, !.halt = @ \union { 0 } ]

\* Mutant: the status of the host is not awaited.
DataInStageOnly(u) == u

DataInStage(u) == IF u.dataIn THEN CtlReceiveStatus(u) ELSE u

-----------------------------------------------------------------------------
\* The host, which ends a request or lets it time out before the next one.
HostAt(place) == host' = [ host EXCEPT !.at = place ]
HostDone(place) == host' = [ host EXCEPT !.at = place, !.request = NoUsbRequest ]

Request(r) ==
  /\ host.at = "idle" /\ ~host.asleep
  /\ \E again \in BOOLEAN :
       usb' = IF usb.deaf THEN SetupReceived(usb) ELSE SetupStage(SetupReceived(usb), r, again)
  /\ host' = [ host EXCEPT !.request = r,
                 !.at = IF r.in /\ r.wLength # 0 THEN "data" ELSE "status_in" ]

ReadData ==
  /\ host.at = "data" /\ "in" \notin usb.stall /\ usb.in # "nothing"
  /\ usb' = DataInStage([ usb EXCEPT !.in = "nothing" ])
  /\ HostAt("status_out")

SendStatus ==
  /\ host.at = "status_out" /\ usb.out
  /\ usb' = [ usb EXCEPT !.out = FALSE ]
  /\ HostDone("idle")

ReadStatus ==
  /\ host.at = "status_in" /\ "in" \notin usb.stall /\ usb.in # "nothing"
  /\ usb' = DataInStage([ usb EXCEPT !.in = "nothing" ])
  /\ HostDone("idle")

Stalled ==
  /\ \/ host.at \in { "data", "status_in" } /\ "in" \in usb.stall
     \/ host.at = "status_out" /\ "out" \in usb.stall
  /\ HostDone("idle") /\ UNCHANGED usb

UsbTransfer == ReadData \/ SendStatus \/ ReadStatus \/ Stalled

\* After five seconds without an answer.
GiveUp ==
  /\ \/ host.at \in { "data", "status_in" } /\ usb.in = "nothing" /\ "in" \notin usb.stall
     \/ host.at = "status_out" /\ ~usb.out /\ "out" \notin usb.stall
  /\ HostDone("idle") /\ UNCHANGED usb

\* Reset, at any time; the controller forgets what was to be sent, closes the bulk
\* endpoints and unmasks the default one before the core is told.
LLReset(u) ==
  [ u EXCEPT !.dev_state = "DEFAULT", !.open = {}, !.in = "nothing", !.out = FALSE,
             !.stall = {}, !.deaf = FALSE ]

BusReset ==
  /\ usb' = LLReset(usb)
  /\ host' = [ at |-> "idle", request |-> NoUsbRequest, asleep |-> FALSE ]

LLSuspend(u) == [ u EXCEPT !.dev_old_state = u.dev_state, !.dev_state = "SUSPENDED" ]
LLResume(u) == [ u EXCEPT !.dev_state = u.dev_old_state ]

BusSuspend ==
  /\ host.at \in { "off", "idle" } /\ ~host.asleep
  /\ usb' = LLSuspend(usb)
  /\ host' = [ host EXCEPT !.asleep = TRUE ]

BusResume ==
  /\ host.asleep
  /\ usb' = LLResume(usb)
  /\ host' = [ host EXCEPT !.asleep = FALSE ]

\* The cable is pulled; only a controller that senses VBUS tells.  The class writes
\* through pClassData even if there was no configuration.
DevDisconnected(u) == MscDeInit([ u EXCEPT !.dev_state = "DEFAULT" ])

Detach ==
  /\ host.at # "off"
  /\ usb' \in { usb, DevDisconnected(usb) }
  /\ HostDone("off")

\* The class halts a bulk endpoint (usbd_msc.c, see UsbMsc).
ClassHalts ==
  /\ host.at # "off" /\ usb.dev_state = "CONFIGURED"
  /\ \E ep \in Bulk : usb' = [ usb EXCEPT !.halt = @ \union { ep } ]
  /\ UNCHANGED host

UsbNext ==
  \/ UsbTransfer \/ GiveUp \/ BusReset \/ BusSuspend \/ BusResume \/ Detach \/ ClassHalts
  \/ \E r \in UsbRequests : Request(r)

-----------------------------------------------------------------------------
DevStates == { "DEFAULT", "ADDRESSED", "CONFIGURED" }

UsbTypeOK ==
  /\ usb \in [ dev_state : DevStates \union { "SUSPENDED" },
               dev_old_state : DevStates \union { "none" },
               dev_config : 0 .. 1, dev_remote_wakeup : 0 .. 1, dataIn : BOOLEAN,
               in : { "nothing", "data", "status" }, value : 0 .. 1, out : BOOLEAN,
               stall : SUBSET { "in", "out" }, open : SUBSET Bulk,
               halt : SUBSET ({ 0 } \union Bulk), deaf : BOOLEAN ]
  /\ host \in [ at : { "off", "idle", "data", "status_out", "status_in" },
                request : UsbRequests \union { NoUsbRequest }, asleep : BOOLEAN ]

\* Where the device is for its host, and what it will answer.
UsbPlace ==
  LET state == IF usb.dev_state = "SUSPENDED" THEN usb.dev_old_state ELSE usb.dev_state IN
  CASE host.at = "off" -> "off"
    [] host.at # "off" /\ state = "CONFIGURED" -> "configured"
    [] host.at # "off" /\ state = "ADDRESSED" -> "address"
    [] OTHER -> "default"

UsbAnswer ==
  CASE host.at \in { "off", "idle" } -> "none"
    [] host.at = "status_out" -> IF usb.out THEN "data" ELSE "none"
    [] OTHER -> IF "in" \in usb.stall THEN "stall"
                ELSE CASE usb.in = "nothing" -> "none"
                       [] usb.in = "data" -> "data"
                       [] usb.in = "status" -> "done"

UsbSeen == INSTANCE UsbDevice WITH
  place <- UsbPlace,
  pipes <- host.at # "off" /\ usb.open = Bulk,
  halted <- usb.halt \intersect Bulk,
  asleep <- host.asleep,
  request <- host.request,
  answer <- UsbAnswer,
  value <- IF UsbAnswer = "data" THEN usb.value ELSE 0

\* The core implements UsbDevice: address, configuration and the bulk endpoints follow
\* the granted requests through suspend, resume, reset and unplugging in any order, and
\* what it tells of itself is so.
IsUsbDevice == UsbSeen!Spec

\* The requests that the code leaves without an answer.
Overlooked(r) ==
  \/ r.req = "GET_DESCRIPTOR" /\ r.wLength = 0
  \/ r.to = "device" /\ r.req \in { "SET_FEATURE", "CLEAR_FEATURE" } /\ r.arg # 1
  \/ r.to = "interface" /\ r.req = "GET_STATUS"
  \/ r.to = "endpoint" /\ (r.req = "any" \/ usb.dev_state = "ADDRESSED")
  \/ r.to = "other" /\ ~r.in

\* Every other request runs to its end, unless the device was made deaf.
RequestsAnswered ==
  (host.at \notin { "off", "idle" } /\ ~usb.deaf /\ ~Overlooked(host.request))
    ~> host.at \in { "off", "idle" }
=============================================================================
