--------------------------- MODULE FirmwareProofs ---------------------------
(***************************************************************************)
(* What is proved of the parts of the firmware that have no module of      *)
(* their own for their proofs, and that the specification of the firmware  *)
(* implies that of each of its parts, so that what is proved of a part is  *)
(* so of the firmware.                                                     *)
(***************************************************************************)
EXTENDS Firmware, SequenceTheorems, TLAPS

-----------------------------------------------------------------------------
(* UsbCore.  Its types: no request is served, and no transfer runs, while the bus   *)
(* sleeps, and a bus that sleeps has a state to come back to, so SUSPENDED is never  *)
(* saved as the state before it.  And that it implements UsbDevice: each handler of  *)
(* a setup packet is one step Serve of it (SetupServes), each other event of the bus *)
(* one of its steps or none (TransferSeen and what follows), as long as the open     *)
(* endpoints follow the state of the device (CoreInv).                               *)

\* The values that usb may have while the bus is awake.
UsbStates ==
  [ dev_state : DevStates, dev_old_state : DevStates \union { "none" },
    dev_config : 0 .. 1, dev_remote_wakeup : 0 .. 1, dataIn : BOOLEAN,
    in : { "nothing", "data", "status" }, value : 0 .. 1, out : BOOLEAN,
    stall : SUBSET { "in", "out" }, open : SUBSET Bulk,
    halt : SUBSET ({ 0 } \union Bulk), deaf : BOOLEAN ]

\* Assignments, replies and calls of the class keep to the types.
LEMMA FieldTypes ==
  ASSUME NEW u \in UsbStates
  PROVE  /\ \A state \in DevStates : [ u EXCEPT !.dev_state = state ] \in UsbStates
         /\ \A config \in 0 .. 1, state \in DevStates :
              [ u EXCEPT !.dev_config = config, !.dev_state = state ] \in UsbStates
         /\ \A wakeup \in 0 .. 1 : [ u EXCEPT !.dev_remote_wakeup = wakeup ] \in UsbStates
<1>1. \A state \in DevStates : [ u EXCEPT !.dev_state = state ] \in UsbStates
  BY DEF UsbStates
<1>2. \A config \in 0 .. 1, state \in DevStates :
        [ u EXCEPT !.dev_config = config, !.dev_state = state ] \in UsbStates
  BY DEF UsbStates
<1>3. \A wakeup \in 0 .. 1 : [ u EXCEPT !.dev_remote_wakeup = wakeup ] \in UsbStates
  BY DEF UsbStates
<1> QED
  BY <1>1, <1>2, <1>3

LEMMA CtlTypes ==
  ASSUME NEW u \in UsbStates
  PROVE  /\ \A value \in 0 .. 1 : CtlSendData(u, value) \in UsbStates
         /\ CtlSendStatus(u) \in UsbStates
         /\ CtlReceiveStatus(u) \in UsbStates
         /\ CtlError(u) \in UsbStates
<1>1. \A value \in 0 .. 1 : CtlSendData(u, value) \in UsbStates
  BY DEF UsbStates, CtlSendData
<1>2. CtlSendStatus(u) \in UsbStates /\ CtlReceiveStatus(u) \in UsbStates
  BY DEF UsbStates, CtlSendStatus, CtlReceiveStatus
<1>3. CtlError(u) \in UsbStates
  BY DEF UsbStates, CtlError
<1> QED
  BY <1>1, <1>2, <1>3

LEMMA MscTypes ==
  ASSUME NEW u \in UsbStates
  PROVE  /\ MscInit(u) \in UsbStates /\ MscDeInit(u) \in UsbStates
         /\ \A wIndex \in 0 .. 2, again \in BOOLEAN : MscClearFeature(u, wIndex, again) \in UsbStates
<1>1. MscInit(u) \in UsbStates /\ MscDeInit(u) \in UsbStates
  BY DEF UsbStates, MscInit, MscDeInit
<1>2. ASSUME NEW wIndex \in 0 .. 2, NEW again \in BOOLEAN
      PROVE  MscClearFeature(u, wIndex, again) \in UsbStates
  <2>1. { IF wIndex = 0 THEN BulkOut ELSE wIndex } \subseteq Bulk
    BY DEF Bulk, BulkOut, BulkIn
  <2>2. u.open \union { IF wIndex = 0 THEN BulkOut ELSE wIndex } \in SUBSET Bulk
    BY <2>1 DEF UsbStates
  <2>3. (IF again THEN u.halt \union { BulkIn } ELSE u.halt) \in SUBSET ({ 0 } \union Bulk)
    BY DEF UsbStates, Bulk
  <2> QED
    BY <2>2, <2>3 DEF UsbStates, MscClearFeature
<1> QED
  BY <1>1, <1>2

\* What a request names, and what there is to ask of an endpoint.
LEMMA ToHas ==
  ASSUME NEW recipient, NEW in, NEW reqs, NEW args, NEW lengths,
         NEW r \in To(recipient, in, reqs, args, lengths)
  PROVE  r.to = recipient /\ r.req \in reqs /\ r.arg \in args
BY DEF To

LEMMA RequestTypes ==
  ASSUME NEW r \in UsbRequests
  PROVE  /\ r.arg \in 0 .. 2
         /\ r.to \in { "device", "interface", "endpoint", "other" }
         /\ r.to = "endpoint" => r.req \in { "GET_STATUS", "SET_FEATURE", "CLEAR_FEATURE", "any" }
<1> DEFINE EPReqs == { "GET_STATUS", "SET_FEATURE", "CLEAR_FEATURE", "any" }
<1>1. \A recipient, in, reqs, args, lengths :
        r \in To(recipient, in, reqs, args, lengths) => r.to = recipient
  BY ToHas
<1>2. \A in, reqs, args, lengths :
        r \in To("endpoint", in, reqs, args, lengths) => r.req \in reqs
  BY ToHas
<1>3. \A recipient, in, reqs, args, lengths :
        r \in To(recipient, in, reqs, args, lengths) => r.arg \in args
  BY ToHas
<1>4. 0 .. 1 \subseteq 0 .. 2 /\ { 0 } \subseteq 0 .. 2 /\ { 0 } \union Bulk \subseteq 0 .. 2
  BY DEF Bulk, BulkOut, BulkIn
<1>5. ASSUME r.to = "endpoint" PROVE r.req \in EPReqs
  <2>1. \/ r \in To("endpoint", TRUE, { "GET_STATUS" }, { 0 } \union Bulk, { 2 })
        \/ r \in To("endpoint", FALSE, { "SET_FEATURE", "CLEAR_FEATURE", "any" },
                    { 0 } \union Bulk, { 0 })
    BY <1>1, <1>5 DEF UsbRequests
  <2> QED
    BY <1>2, <2>1
<1>6. r.arg \in 0 .. 2
  BY <1>3, <1>4 DEF UsbRequests
<1>7. r.to \in { "device", "interface", "endpoint", "other" }
  BY <1>1 DEF UsbRequests
<1> QED
  BY <1>5, <1>6, <1>7

-----------------------------------------------------------------------------
\* So do the handlers of the requests.
LEMMA DevReqTypes ==
  ASSUME NEW u \in UsbStates, NEW r \in UsbRequests, NEW again \in BOOLEAN
  PROVE  StdDevReq(u, r, again) \in UsbStates
<1>1. GetDescriptor(u, r) \in UsbStates
  BY CtlTypes DEF GetDescriptor
<1>2. SetAddress(u, r) \in UsbStates
  <2>1. CtlError(u) \in UsbStates /\ CtlSendStatus(u) \in UsbStates
    BY CtlTypes
  <2>2. "DEFAULT" \in DevStates /\ "ADDRESSED" \in DevStates
    BY DEF DevStates
  <2> QED
    BY <2>1, <2>2, FieldTypes DEF SetAddress
<1>3. SetConfig(u, r) \in UsbStates
  <2> DEFINE up == [ u EXCEPT !.dev_config = 1, !.dev_state = "CONFIGURED" ]
             down == [ u EXCEPT !.dev_config = 0, !.dev_state = "ADDRESSED" ]
  <2>1. "CONFIGURED" \in DevStates /\ "ADDRESSED" \in DevStates /\ 0 \in 0 .. 1 /\ 1 \in 0 .. 1
    BY DEF DevStates
  <2>2. up \in UsbStates /\ down \in UsbStates
    BY <2>1, FieldTypes
  <2> HIDE DEF up, down
  <2>3. CtlSendStatus(MscInit(up)) \in UsbStates /\ CtlSendStatus(MscDeInit(down)) \in UsbStates
    BY <2>2, CtlTypes, MscTypes
  <2>4. CtlError(u) \in UsbStates /\ CtlSendStatus(u) \in UsbStates
    BY CtlTypes
  <2> QED
    BY <2>3, <2>4 DEF SetConfig, up, down
<1>4. GetConfig(u, r) \in UsbStates
  <2>1. u.dev_config \in 0 .. 1
    BY DEF UsbStates
  <2> QED
    BY <2>1, CtlTypes DEF GetConfig
<1>5. GetStatus(u) \in UsbStates
  <2>1. u.dev_remote_wakeup \in 0 .. 1
    BY DEF UsbStates
  <2> QED
    BY <2>1, CtlTypes DEF GetStatus
<1>6. SetFeature(u, r) \in UsbStates
  <2>1. 1 \in 0 .. 1
    OBVIOUS
  <2>2. [ u EXCEPT !.dev_remote_wakeup = 1 ] \in UsbStates
    BY <2>1, FieldTypes
  <2> QED
    BY <2>2, CtlTypes DEF SetFeature
<1>7. ClrFeature(u, r, again) \in UsbStates
  <2> DEFINE cleared == [ u EXCEPT !.dev_remote_wakeup = 0 ]
  <2>0. 0 \in 0 .. 1 /\ 0 \in 0 .. 2
    OBVIOUS
  <2>1. cleared \in UsbStates
    BY <2>0, FieldTypes
  <2> HIDE DEF cleared
  <2>2. CtlSendStatus(MscClearFeature(cleared, 0, again)) \in UsbStates
    <3>1. MscClearFeature(cleared, 0, again) \in UsbStates
      BY <2>0, <2>1, MscTypes
    <3> QED
      BY <3>1, CtlTypes
  <2>3. CtlError(u) \in UsbStates
    BY CtlTypes
  <2> QED
    BY <2>2, <2>3 DEF ClrFeature, cleared
<1>8. CtlError(u) \in UsbStates
  BY CtlTypes
<1> QED
  BY <1>1, <1>2, <1>3, <1>4, <1>5, <1>6, <1>7, <1>8 DEF StdDevReq

LEMMA ItfReqTypes ==
  ASSUME NEW u \in UsbStates, NEW r \in UsbRequests, NEW again \in BOOLEAN
  PROVE  StdItfReq(u, r, again) \in UsbStates
<1>1. r.arg \in 0 .. 2
  BY RequestTypes
<1>2. /\ CtlError(u) \in UsbStates /\ CtlSendStatus(u) \in UsbStates
      /\ CtlSendStatus(CtlError(u)) \in UsbStates /\ CtlSendData(u, 0) \in UsbStates
      /\ CtlSendStatus(MscClearFeature(u, r.arg, again)) \in UsbStates
  BY <1>1, CtlTypes, MscTypes
<1> QED
  BY <1>2 DEF StdItfReq

\* The last case is the only one left.
LEMMA EPReqTypes ==
  ASSUME NEW u \in UsbStates, NEW r \in UsbRequests, NEW again \in BOOLEAN,
         r.to = "endpoint"
  PROVE  StdEPReq(u, r, again) \in UsbStates
<1> DEFINE stalled == [ u EXCEPT !.halt = @ \union ({ r.arg } \intersect Bulk) ]
           cleared == [ u EXCEPT !.halt = @ \ { r.arg } ]
<1>1. r.arg \in 0 .. 2 /\ r.req \in { "GET_STATUS", "SET_FEATURE", "CLEAR_FEATURE", "any" }
  BY RequestTypes
<1>2. stalled \in UsbStates /\ cleared \in UsbStates
  BY DEF UsbStates
<1> HIDE DEF stalled, cleared
<1>3. CtlError(u) \in UsbStates /\ CtlSendStatus(stalled) \in UsbStates
  BY <1>2, CtlTypes
<1>4. MscClearFeature(cleared, r.arg, again) \in UsbStates
  BY <1>1, <1>2, MscTypes
<1>5. CtlSendStatus(IF r.arg = 0 THEN u ELSE MscClearFeature(cleared, r.arg, again)) \in UsbStates
  <2>1. CtlSendStatus(u) \in UsbStates
    BY CtlTypes
  <2>2. CtlSendStatus(MscClearFeature(cleared, r.arg, again)) \in UsbStates
    BY <1>4, CtlTypes
  <2> QED
    BY <2>1, <2>2
<1>6. CtlSendData(u, IF r.arg \in u.halt THEN 1 ELSE 0) \in UsbStates
  <2>1. (IF r.arg \in u.halt THEN 1 ELSE 0) \in 0 .. 1
    OBVIOUS
  <2> QED
    BY <2>1, CtlTypes
<1> QED
  <2>1. u.dev_state \in { "DEFAULT", "ADDRESSED", "CONFIGURED" }
    BY DEF UsbStates, DevStates
  <2> QED
    BY <1>1, <1>2, <1>3, <1>5, <1>6, <2>1 DEF StdEPReq, stalled, cleared

LEMMA SetupTypes ==
  ASSUME NEW u \in UsbStates, NEW r \in UsbRequests, NEW again \in BOOLEAN
  PROVE  SetupStage(u, r, again) \in UsbStates
<1> DEFINE began == [ u EXCEPT !.dataIn = FALSE ]
<1>1. began \in UsbStates
  BY DEF UsbStates
<1>2. /\ [ began EXCEPT !.stall = { "in" } ] \in UsbStates
      /\ [ began EXCEPT !.stall = { "out" }, !.halt = @ \union { 0 } ] \in UsbStates
  BY <1>1 DEF UsbStates
<1> HIDE DEF began
<1>3. StdDevReq(began, r, again) \in UsbStates /\ StdItfReq(began, r, again) \in UsbStates
  BY <1>1, DevReqTypes, ItfReqTypes
<1>4. r.to = "endpoint" => StdEPReq(began, r, again) \in UsbStates
  BY <1>1, EPReqTypes
<1>5. r.to \in { "device", "interface", "endpoint", "other" }
  BY RequestTypes
<1> QED
  BY <1>2, <1>3, <1>4, <1>5 DEF SetupStage, began

-----------------------------------------------------------------------------
\* The bus sleeps with a state to come back to, and is awake with a state of its own.
SleepInv ==
  /\ host.asleep => usb.dev_old_state \in DevStates
  /\ ~host.asleep => usb.dev_state \in DevStates

LEMMA Awake == UsbTypeOK /\ SleepInv /\ ~host.asleep => usb \in UsbStates
BY DEF UsbTypeOK, SleepInv, UsbStates

\* Each event of the bus keeps the types and SleepInv.
LEMMA RequestKeeps ==
  ASSUME UsbTypeOK, SleepInv, NEW r \in UsbRequests, Request(r)
  PROVE  UsbTypeOK' /\ SleepInv'
<1>1. usb \in UsbStates
  BY Awake DEF Request
<1>2. SetupReceived(usb) \in UsbStates
  BY <1>1 DEF UsbStates, SetupReceived
<1>3. usb' \in UsbStates
  BY <1>2, SetupTypes DEF Request
<1>4. /\ host' \in [ at : { "off", "idle", "data", "status_out", "status_in" },
                     request : UsbRequests \union { NoUsbRequest }, asleep : BOOLEAN ]
      /\ ~host'.asleep
  BY DEF Request, UsbTypeOK
<1> QED
  BY <1>3, <1>4 DEF UsbTypeOK, SleepInv, UsbStates

LEMMA TransferKeeps ==
  ASSUME UsbTypeOK, SleepInv, UsbTransfer \/ GiveUp
  PROVE  UsbTypeOK' /\ SleepInv'
<1> USE DEF UsbTypeOK, SleepInv, HostAt, HostDone, DataInStage, CtlReceiveStatus
<1>1. CASE ReadData
  BY <1>1 DEF ReadData
<1>2. CASE SendStatus
  BY <1>2 DEF SendStatus
<1>3. CASE ReadStatus
  BY <1>3 DEF ReadStatus
<1>4. CASE Stalled \/ GiveUp
  BY <1>4 DEF Stalled, GiveUp
<1> QED
  BY <1>1, <1>2, <1>3, <1>4 DEF UsbTransfer

LEMMA BusKeeps ==
  ASSUME UsbTypeOK, SleepInv, BusReset \/ BusSuspend \/ BusResume \/ Detach \/ ClassHalts
  PROVE  UsbTypeOK' /\ SleepInv'
<1> USE DEF UsbTypeOK, SleepInv, DevStates
<1>1. CASE BusReset
  BY <1>1 DEF BusReset, LLReset
<1>2. CASE BusSuspend
  BY <1>2 DEF BusSuspend, LLSuspend
<1>3. CASE BusResume
  BY <1>3 DEF BusResume, LLResume
<1>4. CASE Detach
  BY <1>4 DEF Detach, DevDisconnected, MscDeInit, HostDone
<1>5. CASE ClassHalts
  BY <1>5 DEF ClassHalts, Bulk
<1> QED
  BY <1>1, <1>2, <1>3, <1>4, <1>5

LEMMA UsbStart == UsbInit => UsbTypeOK /\ SleepInv
BY DEF UsbInit, UsbTypeOK, SleepInv, DevStates

LEMMA UsbSteps == UsbTypeOK /\ SleepInv /\ [UsbNext]_usbVars => UsbTypeOK' /\ SleepInv'
<1> SUFFICES ASSUME UsbTypeOK, SleepInv, [UsbNext]_usbVars
             PROVE  UsbTypeOK' /\ SleepInv'
  OBVIOUS
<1>1. CASE UNCHANGED usbVars
  BY <1>1 DEF usbVars, UsbTypeOK, SleepInv
<1>2. CASE UsbNext
  BY <1>2, RequestKeeps, TransferKeeps, BusKeeps DEF UsbNext
<1> QED
  BY <1>1, <1>2

-----------------------------------------------------------------------------
\* The types of the device core: each handler leaves a state of the device from each
\* request, and a device that wakes up is in the state it slept in.
THEOREM UsbTypeCorrect == UsbInit /\ [][UsbNext]_usbVars => []UsbTypeOK
BY UsbStart, UsbSteps, PTL

-----------------------------------------------------------------------------
(* The core implements UsbDevice. *)

\* The names of UsbRequests, which UsbDevice has too.
LEMMA SameNames ==
  /\ UsbSeen!Bulk = Bulk /\ UsbSeen!BulkIn = BulkIn
  /\ UsbSeen!NoUsbRequest = NoUsbRequest /\ UsbSeen!UsbRequests = UsbRequests
<1>1. UsbSeen!Bulk = Bulk /\ UsbSeen!BulkIn = BulkIn
  BY DEF UsbSeen!Bulk, UsbSeen!BulkOut, UsbSeen!BulkIn, Bulk, BulkOut, BulkIn
<1>2. UsbSeen!NoUsbRequest = NoUsbRequest
  BY DEF UsbSeen!NoUsbRequest, NoUsbRequest
<1>3. UsbSeen!UsbRequests = UsbRequests
  BY <1>1 DEF UsbSeen!UsbRequests, UsbSeen!To, UsbRequests, To
<1> QED
  BY <1>1, <1>2, <1>3

\* What each request asks, and in which direction.
Gets == { "GET_DESCRIPTOR", "GET_CONFIGURATION", "GET_STATUS", "GET_MAX_LUN", "GET_INTERFACE" }

LEMMA RequestForms ==
  ASSUME NEW r \in UsbRequests
  PROVE  /\ r.to \in { "device", "interface", "endpoint" } => (r.in <=> r.req \in Gets)
         /\ r.in => r.wLength # 0 \/ r.req = "GET_DESCRIPTOR"
         /\ r.to = "device" =>
              r.req \in { "GET_DESCRIPTOR", "GET_CONFIGURATION", "GET_STATUS", "SET_ADDRESS",
                         "SET_FEATURE", "CLEAR_FEATURE", "SET_CONFIGURATION", "any" }
         /\ r.to # "device" =>
              r.req \notin { "GET_DESCRIPTOR", "GET_CONFIGURATION", "SET_ADDRESS",
                            "SET_CONFIGURATION" }
         /\ r.req \in { "GET_DESCRIPTOR", "SET_ADDRESS" } => r.arg \in 0 .. 1
<1>1. CASE r \in To("device", TRUE, { "GET_DESCRIPTOR" }, 0 .. 1, 0 .. 1)
  <2>1. /\ r.to = "device" /\ r.in = TRUE /\ r.req = "GET_DESCRIPTOR"
        /\ r.arg \in 0 .. 1 /\ r.wLength \in 0 .. 1
    BY <1>1 DEF To
  <2> QED
    BY <2>1 DEF Gets
<1>2. CASE r \in To("device", TRUE, { "GET_CONFIGURATION" }, { 0 }, 1 .. 2)
  <2>1. /\ r.to = "device" /\ r.in = TRUE /\ r.req = "GET_CONFIGURATION"
        /\ r.arg = 0 /\ r.wLength \in 1 .. 2
    BY <1>2 DEF To
  <2> QED
    BY <2>1 DEF Gets
<1>3. CASE r \in To("device", TRUE, { "GET_STATUS" }, { 0 }, { 2 })
  <2>1. /\ r.to = "device" /\ r.in = TRUE /\ r.req = "GET_STATUS"
        /\ r.arg = 0 /\ r.wLength = 2
    BY <1>3 DEF To
  <2> QED
    BY <2>1 DEF Gets
<1>4. CASE r \in To("device", FALSE, { "SET_ADDRESS", "SET_FEATURE", "CLEAR_FEATURE" }, 0 .. 1, { 0 })
  <2>1. /\ r.to = "device" /\ r.in = FALSE
        /\ r.req \in { "SET_ADDRESS", "SET_FEATURE", "CLEAR_FEATURE" }
        /\ r.arg \in 0 .. 1 /\ r.wLength = 0
    BY <1>4 DEF To
  <2> QED
    BY <2>1 DEF Gets
<1>5. CASE r \in To("device", FALSE, { "SET_CONFIGURATION" }, 0 .. 2, { 0 })
  <2>1. /\ r.to = "device" /\ r.in = FALSE /\ r.req = "SET_CONFIGURATION"
        /\ r.arg \in 0 .. 2 /\ r.wLength = 0
    BY <1>5 DEF To
  <2> QED
    BY <2>1 DEF Gets
<1>6. CASE r \in To("device", FALSE, { "any" }, { 0 }, { 0 })
  <2>1. /\ r.to = "device" /\ r.in = FALSE /\ r.req = "any"
        /\ r.arg = 0 /\ r.wLength = 0
    BY <1>6 DEF To
  <2> QED
    BY <2>1 DEF Gets
<1>7. CASE r \in To("interface", TRUE, { "GET_MAX_LUN", "GET_INTERFACE" }, 0 .. 2, { 1 })
  <2>1. /\ r.to = "interface" /\ r.in = TRUE /\ r.req \in { "GET_MAX_LUN", "GET_INTERFACE" }
        /\ r.arg \in 0 .. 2 /\ r.wLength = 1
    BY <1>7 DEF To
  <2> QED
    BY <2>1 DEF Gets
<1>8. CASE r \in To("interface", TRUE, { "GET_STATUS" }, 0 .. 2, { 2 })
  <2>1. /\ r.to = "interface" /\ r.in = TRUE /\ r.req = "GET_STATUS"
        /\ r.arg \in 0 .. 2 /\ r.wLength = 2
    BY <1>8 DEF To
  <2> QED
    BY <2>1 DEF Gets
<1>9. CASE r \in To("interface", FALSE, { "BOT_RESET", "SET_INTERFACE", "CLEAR_FEATURE", "any",
                                          "any_class" }, 0 .. 2, { 0 })
  <2>1. /\ r.to = "interface" /\ r.in = FALSE
        /\ r.req \in { "BOT_RESET", "SET_INTERFACE", "CLEAR_FEATURE", "any", "any_class" }
        /\ r.arg \in 0 .. 2 /\ r.wLength = 0
    BY <1>9 DEF To
  <2> QED
    BY <2>1 DEF Gets
<1>10. CASE r \in To("endpoint", TRUE, { "GET_STATUS" }, { 0 } \union Bulk, { 2 })
  <2>1. /\ r.to = "endpoint" /\ r.in = TRUE /\ r.req = "GET_STATUS"
        /\ r.arg \in { 0 } \union Bulk /\ r.wLength = 2
    BY <1>10 DEF To
  <2> QED
    BY <2>1 DEF Gets
<1>11. CASE r \in To("endpoint", FALSE, { "SET_FEATURE", "CLEAR_FEATURE", "any" },
                     { 0 } \union Bulk, { 0 })
  <2>1. /\ r.to = "endpoint" /\ r.in = FALSE
        /\ r.req \in { "SET_FEATURE", "CLEAR_FEATURE", "any" }
        /\ r.arg \in { 0 } \union Bulk /\ r.wLength = 0
    BY <1>11 DEF To
  <2> QED
    BY <2>1 DEF Gets
<1>12. CASE \/ r \in To("other", TRUE, { "any" }, { 0 }, { 1 })
            \/ r \in To("other", FALSE, { "any" }, { 0 }, { 0 })
  <2>1. /\ r.to = "other" /\ r.req = "any" /\ r.arg = 0
        /\ r.in => r.wLength = 1
    BY <1>12 DEF To
  <2> QED
    BY <2>1
<1> QED
  BY <1>1, <1>2, <1>3, <1>4, <1>5, <1>6, <1>7, <1>8, <1>9, <1>10, <1>11, <1>12 DEF UsbRequests

-----------------------------------------------------------------------------
(* One request. *)

Where(state) ==
  CASE state = "CONFIGURED" -> "configured" [] state = "ADDRESSED" -> "address" [] OTHER -> "default"

\* What u has open in a state: both bulk endpoints when it is configured, otherwise at
\* most bulk-out, which a CLEAR_FEATURE for the device opens.
OpenFits(u, state) ==
  IF state = "CONFIGURED" THEN u.open = Bulk /\ u.dev_config = 1 ELSE u.open \subseteq { BulkOut }

ReplyOf(u) ==
  IF "in" \in u.stall THEN "stall"
  ELSE CASE u.in = "nothing" -> "none" [] u.in = "data" -> "data" [] u.in = "status" -> "done"

\* u is the device as the host sees it, and has not begun to answer.
Before(u) ==
  /\ u \in UsbStates /\ OpenFits(u, u.dev_state)
  /\ u.in = "nothing" /\ u.stall = {} /\ ~u.out /\ ~u.dataIn
  /\ UsbPlace = Where(u.dev_state) /\ usb.halt \intersect Bulk = u.halt \intersect Bulk

\* v is what request r makes of it, as UsbDevice has it.
Served(v, r) ==
  /\ OpenFits(v, v.dev_state) /\ ~v.out
  /\ v.in = "data" => v.dataIn /\ r.in /\ r.wLength # 0
  /\ v.in = "status" => ~(r.in /\ r.wLength # 0)
  /\ Where(v.dev_state) = IF ReplyOf(v) = "done" THEN UsbSeen!Granted(r) ELSE UsbPlace
  /\ ReplyOf(v) \in { "data", "done" } => UsbSeen!Grantable(r)
  /\ ReplyOf(v) = "data" => UsbSeen!Truthful(r, v.value)
  /\ v.halt \intersect Bulk \in UsbSeen!HaltedAfter(r, ReplyOf(v))

\* The ways a request ends: refused, ignored (perhaps with a halt), answered with data,
\* granted.
LEMMA Refused ==
  ASSUME NEW u, Before(u), NEW r
  PROVE  Served(CtlError(u), r)
<1> DEFINE v == CtlError(u)
<1>1. /\ v.stall = { "in", "out" } /\ v.halt = u.halt \union { 0 } /\ v.in = "nothing" /\ ~v.out
      /\ v.dev_state = u.dev_state /\ v.open = u.open /\ v.dev_config = u.dev_config
  BY DEF Before, UsbStates, CtlError
<1> HIDE DEF v
<1>2. ReplyOf(v) = "stall"
  BY <1>1 DEF ReplyOf
<1>3. v.halt \intersect Bulk = usb.halt \intersect Bulk
  BY <1>1 DEF Before, Bulk, BulkOut, BulkIn
<1>4. v.halt \intersect Bulk \in UsbSeen!HaltedAfter(r, "stall")
  BY <1>3 DEF UsbSeen!HaltedAfter
<1> QED
  BY <1>1, <1>2, <1>4 DEF Served, Before, OpenFits, v

LEMMA Ignored ==
  ASSUME NEW u, Before(u), NEW r, NEW v, v \in UsbStates,
         \/ v = u
         \/ r.to = "endpoint" /\ v = [ u EXCEPT !.halt = @ \union ({ r.arg } \intersect Bulk) ]
  PROVE  Served(v, r)
<1>1. /\ v.stall = {} /\ v.in = "nothing" /\ ~v.out
      /\ v.dev_state = u.dev_state /\ v.open = u.open /\ v.dev_config = u.dev_config
  BY DEF Before, UsbStates
<1>2. ReplyOf(v) = "none"
  BY <1>1 DEF ReplyOf
<1>3. v.halt \intersect Bulk \in UsbSeen!HaltedAfter(r, "none")
  <2>1. CASE v = u
    BY <2>1 DEF UsbSeen!HaltedAfter, Before
  <2>2. CASE r.to = "endpoint" /\ v = [ u EXCEPT !.halt = @ \union ({ r.arg } \intersect Bulk) ]
    <3>1. v.halt \intersect Bulk = (usb.halt \intersect Bulk) \union ({ r.arg } \intersect Bulk)
      BY <2>2 DEF Before, UsbStates
    <3> QED
      BY <2>2, <3>1, SameNames DEF UsbSeen!HaltedAfter
  <2> QED
    BY <2>1, <2>2
<1> QED
  BY <1>1, <1>2, <1>3 DEF Served, Before, OpenFits

LEMMA Answered ==
  ASSUME NEW u, Before(u), NEW r, NEW value, r.in, r.wLength # 0,
         UsbSeen!Grantable(r), UsbSeen!Truthful(r, value)
  PROVE  Served(CtlSendData(u, value), r)
<1> DEFINE v == CtlSendData(u, value)
<1>1. /\ v.stall = {} /\ v.in = "data" /\ v.value = value /\ v.dataIn /\ ~v.out /\ v.halt = u.halt
      /\ v.dev_state = u.dev_state /\ v.open = u.open /\ v.dev_config = u.dev_config
  BY DEF Before, UsbStates, CtlSendData
<1> HIDE DEF v
<1>2. ReplyOf(v) = "data"
  BY <1>1 DEF ReplyOf
<1>3. v.halt \intersect Bulk \in UsbSeen!HaltedAfter(r, "data")
  BY <1>1 DEF UsbSeen!HaltedAfter, Before
<1> QED
  BY <1>1, <1>2, <1>3 DEF Served, Before, OpenFits, v

LEMMA Done ==
  ASSUME NEW r, NEW w, w \in UsbStates, OpenFits(w, w.dev_state), w.stall = {}, ~w.out,
         ~(r.in /\ r.wLength # 0), UsbSeen!Grantable(r), Where(w.dev_state) = UsbSeen!Granted(r),
         w.halt \intersect Bulk \in UsbSeen!HaltedAfter(r, "done")
  PROVE  Served(CtlSendStatus(w), r)
<1> DEFINE v == CtlSendStatus(w)
<1>1. /\ v.stall = {} /\ v.in = "status" /\ ~v.out /\ v.halt = w.halt
      /\ v.dev_state = w.dev_state /\ v.open = w.open /\ v.dev_config = w.dev_config
  BY DEF UsbStates, CtlSendStatus
<1> HIDE DEF v
<1>2. ReplyOf(v) = "done"
  BY <1>1 DEF ReplyOf
<1> QED
  BY <1>1, <1>2 DEF Served, OpenFits, v

\* The same, when the device keeps its place and its endpoints.
LEMMA DoneInPlace ==
  ASSUME NEW u, Before(u), NEW r, ~(r.in /\ r.wLength # 0),
         UsbSeen!Grantable(r), UsbSeen!Granted(r) = UsbPlace,
         u.halt \intersect Bulk \in UsbSeen!HaltedAfter(r, "done")
  PROVE  Served(CtlSendStatus(u), r)
BY Done DEF Before

\* A class that is told of a CLEAR_FEATURE leaves the endpoints open that were.
LEMMA ClearFeatureIs ==
  ASSUME NEW u \in UsbStates, OpenFits(u, u.dev_state), NEW wIndex \in 0 .. 2, NEW again \in BOOLEAN,
         wIndex # 0 => u.dev_state = "CONFIGURED",
         NEW w, w = MscClearFeature(u, wIndex, again)
  PROVE  /\ w.dev_state = u.dev_state /\ w.stall = u.stall /\ w.out = u.out
         /\ OpenFits(w, w.dev_state)
         /\ w.halt = u.halt \/ w.halt = u.halt \union { BulkIn }
<1>1. /\ w.dev_state = u.dev_state /\ w.stall = u.stall /\ w.out = u.out
      /\ w.dev_config = u.dev_config
      /\ w.open = u.open \union { IF wIndex = 0 THEN BulkOut ELSE wIndex }
      /\ w.halt = u.halt \/ w.halt = u.halt \union { BulkIn }
  BY DEF UsbStates, MscClearFeature
<1>2. OpenFits(w, w.dev_state)
  BY <1>1 DEF OpenFits, Bulk, BulkOut, BulkIn
<1> QED
  BY <1>1, <1>2

\* Where the device is for its host.
LEMMA Places ==
  ASSUME NEW u, Before(u)
  PROVE  /\ u.dev_state \in DevStates
         /\ UsbPlace = "configured" <=> u.dev_state = "CONFIGURED"
         /\ UsbPlace = "address" <=> u.dev_state = "ADDRESSED"
         /\ UsbPlace = "default" <=> u.dev_state = "DEFAULT"
BY DEF Before, UsbStates, Where, DevStates

\* Requests for the device.
LEMMA DevReqServes ==
  ASSUME NEW u, Before(u), NEW r \in UsbRequests, r.to = "device", NEW again \in BOOLEAN
  PROVE  Served(StdDevReq(u, r, again), r)
<1>1. /\ r.in <=> r.req \in Gets
      /\ r.in => r.wLength # 0 \/ r.req = "GET_DESCRIPTOR"
      /\ r.req \in { "GET_DESCRIPTOR", "GET_CONFIGURATION", "GET_STATUS", "SET_ADDRESS",
                     "SET_FEATURE", "CLEAR_FEATURE", "SET_CONFIGURATION", "any" }
      /\ r.req \in { "GET_DESCRIPTOR", "SET_ADDRESS" } => r.arg \in 0 .. 1
  BY RequestForms
<1>2. Served(CtlError(u), r) /\ Served(u, r)
  BY Refused, Ignored DEF Before
<1>3. u \in UsbStates /\ u.dev_state \in DevStates
  BY Places DEF Before
<1>4. CASE r.req = "GET_DESCRIPTOR"
  <2>1. r.arg = 1 /\ r.wLength # 0 => Served(CtlSendData(u, 0), r)
    <3>1. r.arg = 1 => UsbSeen!Grantable(r)
      BY <1>4 DEF UsbSeen!Grantable
    <3>2. UsbSeen!Truthful(r, 0)
      BY <1>4 DEF UsbSeen!Truthful
    <3>3. r.in
      BY <1>1, <1>4 DEF Gets
    <3> QED
      BY <3>1, <3>2, <3>3, Answered
  <2>2. StdDevReq(u, r, again) = GetDescriptor(u, r)
    BY <1>4 DEF StdDevReq
  <2> QED
    BY <1>1, <1>2, <1>4, <2>1, <2>2 DEF GetDescriptor
<1>5. CASE r.req = "SET_ADDRESS"
  <2>1. ASSUME u.dev_state # "CONFIGURED", NEW state \in { "DEFAULT", "ADDRESSED" },
               state = IF r.arg = 0 THEN "DEFAULT" ELSE "ADDRESSED"
        PROVE  Served([ CtlSendStatus(u) EXCEPT !.dev_state = state ], r)
    <3> DEFINE w == [ u EXCEPT !.dev_state = state ]
    <3>1. /\ w \in UsbStates /\ w.dev_state = state /\ w.stall = {} /\ ~w.out
          /\ w.open = u.open /\ w.halt = u.halt
          /\ [ CtlSendStatus(u) EXCEPT !.dev_state = state ] = CtlSendStatus(w)
      BY <2>1 DEF Before, UsbStates, DevStates, CtlSendStatus
    <3> HIDE DEF w
    <3>2. OpenFits(w, w.dev_state)
      BY <2>1, <3>1 DEF OpenFits, Before
    <3>3. Where(w.dev_state) = UsbSeen!Granted(r) /\ UsbSeen!Grantable(r)
      <4>1. UsbSeen!Granted(r) = IF r.arg = 0 THEN "default" ELSE "address"
        BY <1>5 DEF UsbSeen!Granted
      <4>2. Where(w.dev_state) = IF r.arg = 0 THEN "default" ELSE "address"
        BY <2>1, <3>1 DEF Where
      <4>3. UsbSeen!Grantable(r)
        BY <1>5, <2>1, Places DEF UsbSeen!Grantable
      <4> QED
        BY <4>1, <4>2, <4>3
    <3>4. w.halt \intersect Bulk \in UsbSeen!HaltedAfter(r, "done")
      BY <1>5, <3>1 DEF UsbSeen!HaltedAfter, Before
    <3>5. ~r.in
      BY <1>1, <1>5 DEF Gets
    <3> QED
      BY <3>1, <3>2, <3>3, <3>4, <3>5, Done
  <2>2. StdDevReq(u, r, again) = SetAddress(u, r)
    BY <1>5 DEF StdDevReq
  <2> QED
    BY <1>2, <2>1, <2>2 DEF SetAddress
<1>6. CASE r.req = "SET_CONFIGURATION"
  <2>1. ~r.in
    BY <1>1, <1>6 DEF Gets
  <2>2. u.halt \intersect Bulk \in UsbSeen!HaltedAfter(r, "done")
    BY <1>6 DEF UsbSeen!HaltedAfter, Before
  <2>3. r.arg \in 0 .. 2
    BY RequestTypes
  <2>4. r.arg <= 1 /\ u.dev_state # "DEFAULT" => UsbSeen!Grantable(r)
    BY <1>6, Places DEF UsbSeen!Grantable
  <2>5. CASE u.dev_state = "ADDRESSED" /\ r.arg = 1
    <3> DEFINE w == MscInit([ u EXCEPT !.dev_config = 1, !.dev_state = "CONFIGURED" ])
    <3>1. /\ w \in UsbStates /\ w.dev_state = "CONFIGURED" /\ w.stall = {} /\ ~w.out
          /\ w.open = Bulk /\ w.halt = u.halt /\ w.dev_config = 1
      <4> DEFINE x == [ u EXCEPT !.dev_config = 1, !.dev_state = "CONFIGURED" ]
      <4>1. x \in UsbStates
        <5>1. 1 \in 0 .. 1 /\ "CONFIGURED" \in DevStates
          BY DEF DevStates
        <5> QED
          BY <1>3, <5>1, FieldTypes
      <4>2. /\ x.dev_state = "CONFIGURED" /\ x.stall = {} /\ ~x.out /\ x.halt = u.halt
            /\ x.dev_config = 1
        BY <1>3 DEF Before, UsbStates
      <4> HIDE DEF x
      <4>3. MscInit(x) \in UsbStates
        BY <4>1, MscTypes
      <4>4. /\ MscInit(x).dev_state = "CONFIGURED" /\ MscInit(x).stall = {} /\ ~MscInit(x).out
            /\ MscInit(x).open = Bulk /\ MscInit(x).halt = u.halt /\ MscInit(x).dev_config = 1
        BY <4>1, <4>2 DEF UsbStates, MscInit
      <4> QED
        BY <4>3, <4>4 DEF x
    <3> HIDE DEF w
    <3>2. Where(w.dev_state) = UsbSeen!Granted(r)
      BY <1>6, <2>5, <3>1 DEF Where, UsbSeen!Granted
    <3>3. Served(CtlSendStatus(w), r)
      BY <2>1, <2>2, <2>4, <2>5, <3>1, <3>2, Done DEF OpenFits
    <3>4. StdDevReq(u, r, again) = CtlSendStatus(w)
      BY <1>6, <2>5 DEF StdDevReq, SetConfig, w
    <3> QED
      BY <3>3, <3>4
  <2>6. CASE u.dev_state = "CONFIGURED" /\ r.arg = 0
    <3> DEFINE w == MscDeInit([ u EXCEPT !.dev_config = 0, !.dev_state = "ADDRESSED" ])
    <3>1. /\ w \in UsbStates /\ w.dev_state = "ADDRESSED" /\ w.stall = {} /\ ~w.out
          /\ w.open = {} /\ w.halt = u.halt
      <4> DEFINE x == [ u EXCEPT !.dev_config = 0, !.dev_state = "ADDRESSED" ]
      <4>1. x \in UsbStates
        <5>1. 0 \in 0 .. 1 /\ "ADDRESSED" \in DevStates
          BY DEF DevStates
        <5> QED
          BY <1>3, <5>1, FieldTypes
      <4>2. /\ x.dev_state = "ADDRESSED" /\ x.stall = {} /\ ~x.out /\ x.halt = u.halt
            /\ x.dev_config = 0
        BY <1>3 DEF Before, UsbStates
      <4> HIDE DEF x
      <4>3. MscDeInit(x) \in UsbStates
        BY <4>1, MscTypes
      <4>4. /\ MscDeInit(x).dev_state = "ADDRESSED" /\ MscDeInit(x).stall = {} /\ ~MscDeInit(x).out
            /\ MscDeInit(x).open = {} /\ MscDeInit(x).halt = u.halt /\ MscDeInit(x).dev_config = 0
        BY <4>1, <4>2 DEF UsbStates, MscDeInit
      <4> QED
        BY <4>3, <4>4 DEF x
    <3> HIDE DEF w
    <3>2. Where(w.dev_state) = UsbSeen!Granted(r)
      BY <1>6, <2>6, <3>1 DEF Where, UsbSeen!Granted
    <3>3. Served(CtlSendStatus(w), r)
      BY <2>1, <2>2, <2>4, <2>6, <3>1, <3>2, Done DEF OpenFits
    <3>4. StdDevReq(u, r, again) = CtlSendStatus(w)
      BY <1>6, <2>6 DEF StdDevReq, SetConfig, w
    <3> QED
      BY <3>3, <3>4
  <2>7. CASE \/ u.dev_state = "ADDRESSED" /\ r.arg = 0
             \/ u.dev_state = "CONFIGURED" /\ r.arg = 1
    <3>1. UsbSeen!Granted(r) = UsbPlace
      BY <1>6, <2>7, Places DEF UsbSeen!Granted
    <3>2. UsbSeen!Grantable(r)
      BY <2>4, <2>7
    <3>3. Served(CtlSendStatus(u), r)
      BY <2>1, <2>2, <3>1, <3>2, DoneInPlace
    <3>4. StdDevReq(u, r, again) = CtlSendStatus(u)
      BY <1>6, <2>7 DEF StdDevReq, SetConfig
    <3> QED
      BY <3>3, <3>4
  <2>8. CASE r.arg > 1 \/ u.dev_state = "DEFAULT"
    BY <1>2, <1>6, <2>8 DEF StdDevReq, SetConfig
  <2> QED
    BY <1>3, <2>3, <2>5, <2>6, <2>7, <2>8 DEF DevStates
<1>7. CASE r.req = "GET_CONFIGURATION"
  <2>1. ASSUME u.dev_state \in { "ADDRESSED", "CONFIGURED" },
               NEW value, value = IF u.dev_state = "CONFIGURED" THEN u.dev_config ELSE 0
        PROVE  Served(CtlSendData(u, value), r)
    <3>1. (value = 1) <=> (UsbPlace = "configured")
      BY <2>1, Places DEF Before, OpenFits
    <3>2. UsbSeen!Grantable(r) /\ UsbSeen!Truthful(r, value)
      BY <1>7, <2>1, <3>1, Places DEF UsbSeen!Grantable, UsbSeen!Truthful
    <3> QED
      BY <1>1, <1>7, <3>2, Answered DEF Gets
  <2>2. StdDevReq(u, r, again) = GetConfig(u, r)
    BY <1>7 DEF StdDevReq
  <2> QED
    BY <1>2, <2>1, <2>2 DEF GetConfig
<1>8. CASE r.req = "GET_STATUS"
  <2>1. ASSUME u.dev_state \in { "ADDRESSED", "CONFIGURED" }
        PROVE  Served(CtlSendData(u, u.dev_remote_wakeup), r)
    <3>1. UsbSeen!Grantable(r) /\ UsbSeen!Truthful(r, u.dev_remote_wakeup)
      BY <1>8, <2>1, Places DEF UsbSeen!Grantable, UsbSeen!Truthful
    <3> QED
      BY <1>1, <1>8, <3>1, Answered DEF Gets
  <2>2. StdDevReq(u, r, again) = GetStatus(u)
    BY <1>8 DEF StdDevReq
  <2> QED
    BY <1>2, <2>1, <2>2 DEF GetStatus
<1>9. CASE r.req = "SET_FEATURE"
  <2> DEFINE w == [ u EXCEPT !.dev_remote_wakeup = 1 ]
  <2>1. /\ w \in UsbStates /\ w.dev_state = u.dev_state /\ w.stall = {} /\ ~w.out
        /\ w.open = u.open /\ w.halt = u.halt /\ w.dev_config = u.dev_config
    BY DEF Before, UsbStates
  <2> HIDE DEF w
  <2>2. UsbSeen!Grantable(r) /\ Where(w.dev_state) = UsbSeen!Granted(r)
    <3>1. UsbSeen!Grantable(r)
      BY <1>9 DEF UsbSeen!Grantable
    <3>2. Where(w.dev_state) = UsbSeen!Granted(r)
      BY <1>9, <2>1 DEF UsbSeen!Granted, Before
    <3> QED
      BY <3>1, <3>2
  <2>3. w.halt \intersect Bulk \in UsbSeen!HaltedAfter(r, "done")
    BY <1>9, <2>1 DEF UsbSeen!HaltedAfter, Before
  <2>4. ~r.in /\ OpenFits(w, w.dev_state)
    BY <1>1, <1>9, <2>1 DEF Gets, OpenFits, Before
  <2>5. Served(CtlSendStatus(w), r)
    BY <2>1, <2>2, <2>3, <2>4, Done
  <2>6. StdDevReq(u, r, again) = IF r.arg = 1 THEN CtlSendStatus(w) ELSE u
    BY <1>9 DEF StdDevReq, SetFeature, w
  <2> QED
    BY <1>2, <2>5, <2>6
<1>10. CASE r.req = "CLEAR_FEATURE"
  <2> DEFINE w == [ u EXCEPT !.dev_remote_wakeup = 0 ]
             x == MscClearFeature(w, 0, again)
  <2>1. /\ w \in UsbStates /\ w.dev_state = u.dev_state /\ w.stall = {} /\ ~w.out
        /\ w.open = u.open /\ w.halt = u.halt /\ w.dev_config = u.dev_config
    BY DEF Before, UsbStates
  <2> HIDE DEF w
  <2>2. OpenFits(w, w.dev_state) /\ 0 \in 0 .. 2
    BY <2>1 DEF OpenFits, Before
  <2>3. x \in UsbStates
    BY <2>1, <2>2, MscTypes
  <2>4. /\ x.dev_state = u.dev_state /\ x.stall = {} /\ ~x.out /\ OpenFits(x, x.dev_state)
        /\ x.halt = u.halt \/ x.halt = u.halt \union { BulkIn }
    BY <2>1, <2>2, ClearFeatureIs
  <2> HIDE DEF x
  <2>5. x.halt \intersect Bulk \in UsbSeen!HaltedAfter(r, "done")
    <3>1. \/ x.halt \intersect Bulk = usb.halt \intersect Bulk
          \/ x.halt \intersect Bulk = (usb.halt \intersect Bulk) \union { BulkIn }
      BY <2>4 DEF Before, Bulk
    <3> QED
      BY <1>10, <3>1, SameNames DEF UsbSeen!HaltedAfter
  <2>6. ASSUME u.dev_state \in { "ADDRESSED", "CONFIGURED" }
        PROVE  Served(CtlSendStatus(x), r)
    <3>1. UsbSeen!Grantable(r) /\ Where(x.dev_state) = UsbSeen!Granted(r)
      BY <1>10, <2>4, <2>6, Places DEF UsbSeen!Grantable, UsbSeen!Granted, Before
    <3>2. ~r.in
      BY <1>1, <1>10 DEF Gets
    <3> QED
      BY <2>3, <2>4, <2>5, <3>1, <3>2, Done
  <2>7. StdDevReq(u, r, again) = ClrFeature(u, r, again)
    BY <1>10 DEF StdDevReq
  <2> QED
    BY <1>2, <2>6, <2>7 DEF ClrFeature, w, x
<1>11. CASE r.req = "any"
  BY <1>2, <1>11 DEF StdDevReq
<1> QED
  BY <1>1, <1>4, <1>5, <1>6, <1>7, <1>8, <1>9, <1>10, <1>11

\* Requests for an interface.
LEMMA ItfReqServes ==
  ASSUME NEW u, Before(u), NEW r \in UsbRequests, r.to = "interface", NEW again \in BOOLEAN
  PROVE  Served(StdItfReq(u, r, again), r)
<1>1. /\ r.in <=> r.req \in Gets
      /\ r.in => r.wLength # 0
      /\ r.req \notin { "GET_DESCRIPTOR", "GET_CONFIGURATION", "SET_ADDRESS", "SET_CONFIGURATION" }
      /\ r.arg \in 0 .. 2
  BY RequestForms, RequestTypes
<1>2. Served(CtlError(u), r) /\ Served(u, r)
  BY Refused, Ignored DEF Before
<1>3. CASE u.dev_state # "CONFIGURED" \/ r.arg > 1
  BY <1>2, <1>3 DEF StdItfReq
<1>4. CASE u.dev_state = "CONFIGURED" /\ ~(r.arg > 1)
  <2>1. UsbSeen!Grantable(r) /\ UsbSeen!Granted(r) = UsbPlace
    <3>1. UsbPlace = "configured"
      BY <1>4, Places
    <3> QED
      BY <1>1, <3>1 DEF UsbSeen!Grantable, UsbSeen!Granted
  <2>2. CASE r.req \in { "GET_MAX_LUN", "GET_INTERFACE" }
    <3>1. r.in /\ r.wLength # 0
      BY <1>1, <2>2 DEF Gets
    <3>2. UsbSeen!Truthful(r, 0)
      BY <2>2 DEF UsbSeen!Truthful
    <3>3. StdItfReq(u, r, again) = CtlSendData(u, 0)
      BY <1>4, <2>2 DEF StdItfReq
    <3> QED
      BY <2>1, <3>1, <3>2, <3>3, Answered
  <2>3. CASE r.req = "CLEAR_FEATURE"
    <3> DEFINE w == MscClearFeature(u, r.arg, again)
    <3>1. u \in UsbStates /\ OpenFits(u, u.dev_state)
      BY DEF Before
    <3>2. /\ w \in UsbStates /\ w.dev_state = u.dev_state
          /\ w.stall = u.stall /\ w.out = u.out /\ OpenFits(w, w.dev_state)
          /\ w.halt = u.halt \/ w.halt = u.halt \union { BulkIn }
      BY <1>1, <1>4, <3>1, MscTypes, ClearFeatureIs
    <3>3. StdItfReq(u, r, again) = CtlSendStatus(w)
      BY <1>4, <2>3 DEF StdItfReq
    <3> HIDE DEF w
    <3>4. w.halt \intersect Bulk \in UsbSeen!HaltedAfter(r, "done")
      <4>1. \/ w.halt \intersect Bulk = usb.halt \intersect Bulk
            \/ w.halt \intersect Bulk = (usb.halt \intersect Bulk) \union { BulkIn }
        BY <3>2 DEF Before, Bulk
      <4> QED
        BY <2>3, <4>1, SameNames DEF UsbSeen!HaltedAfter
    <3>5. ~r.in /\ Where(w.dev_state) = UsbSeen!Granted(r) /\ w.stall = {} /\ ~w.out
      BY <1>1, <2>1, <2>3, <3>2 DEF Gets, Before
    <3> QED
      BY <2>1, <3>2, <3>3, <3>4, <3>5, Done
  <2>4. CASE r.req = "GET_STATUS"
    BY <1>2, <1>4, <2>4 DEF StdItfReq
  <2>5. CASE r.req = "any_class"
    <3> DEFINE v == CtlSendStatus(CtlError(u))
    <3>1. v.stall = { "in", "out" } /\ v.in = "status"
      BY DEF Before, UsbStates, CtlSendStatus, CtlError
    <3>2. /\ v.dev_state = CtlError(u).dev_state /\ v.open = CtlError(u).open
          /\ v.dev_config = CtlError(u).dev_config /\ v.halt = CtlError(u).halt
          /\ v.out = CtlError(u).out
      BY DEF Before, UsbStates, CtlSendStatus, CtlError
    <3> HIDE DEF v
    <3>3. ReplyOf(v) = "stall" /\ ReplyOf(CtlError(u)) = "stall"
      BY <3>1 DEF ReplyOf, CtlError, Before, UsbStates
    <3>4. ~r.in
      BY <1>1, <2>5 DEF Gets
    <3>5. Served(v, r)
      BY <1>2, <3>1, <3>2, <3>3, <3>4 DEF Served, OpenFits
    <3> QED
      BY <1>4, <2>5, <3>5 DEF StdItfReq, v
  <2>6. CASE r.req \notin { "GET_MAX_LUN", "GET_INTERFACE", "CLEAR_FEATURE", "GET_STATUS",
                           "any_class" }
    <3>1. StdItfReq(u, r, again) = CtlSendStatus(u)
      BY <1>4, <2>6 DEF StdItfReq
    <3>2. ~r.in
      BY <1>1, <2>6 DEF Gets
    <3>3. u.halt \intersect Bulk \in UsbSeen!HaltedAfter(r, "done")
      <4>1. r.to # "endpoint"
        OBVIOUS
      <4> QED
        BY <2>6, <4>1, SameNames DEF UsbSeen!HaltedAfter, Before
    <3> QED
      BY <2>1, <3>1, <3>2, <3>3, DoneInPlace
  <2> QED
    BY <2>2, <2>3, <2>4, <2>5, <2>6
<1> QED
  BY <1>3, <1>4

\* Requests for an endpoint.
LEMMA EPReqServes ==
  ASSUME NEW u, Before(u), NEW r \in UsbRequests, r.to = "endpoint", NEW again \in BOOLEAN
  PROVE  Served(StdEPReq(u, r, again), r)
<1> DEFINE stalled == [ u EXCEPT !.halt = @ \union ({ r.arg } \intersect Bulk) ]
           cleared == [ u EXCEPT !.halt = @ \ { r.arg } ]
<1>1. /\ r.in <=> r.req \in Gets
      /\ r.in => r.wLength # 0
      /\ r.req \in { "GET_STATUS", "SET_FEATURE", "CLEAR_FEATURE", "any" }
      /\ r.arg \in 0 .. 2
  BY RequestForms, RequestTypes
<1>2. u \in UsbStates /\ u.dev_state \in DevStates
  BY Places DEF Before
<1>3. /\ stalled \in UsbStates /\ stalled.dev_state = u.dev_state /\ stalled.stall = {}
      /\ ~stalled.out /\ stalled.open = u.open /\ stalled.dev_config = u.dev_config
      /\ stalled.halt = u.halt \union ({ r.arg } \intersect Bulk)
  BY DEF Before, UsbStates
<1>4. /\ cleared \in UsbStates /\ cleared.dev_state = u.dev_state /\ cleared.stall = {}
      /\ ~cleared.out /\ cleared.open = u.open /\ cleared.dev_config = u.dev_config
      /\ cleared.halt = u.halt \ { r.arg }
  BY DEF Before, UsbStates
<1>5. Served(CtlError(u), r) /\ Served(u, r) /\ Served(stalled, r)
  BY <1>2, <1>3, Refused, Ignored
<1> HIDE DEF stalled, cleared
<1>6. CASE r.req = "any" \/ u.dev_state # "CONFIGURED"
  BY <1>1, <1>2, <1>5, <1>6 DEF StdEPReq, DevStates, stalled
<1>7. CASE r.req # "any" /\ u.dev_state = "CONFIGURED"
  <2>1. UsbSeen!Grantable(r) /\ UsbSeen!Granted(r) = UsbPlace
    <3>1. UsbPlace = "configured"
      BY <1>7, Places
    <3> QED
      BY <1>1, <3>1 DEF UsbSeen!Grantable, UsbSeen!Granted
  <2>2. CASE r.req = "SET_FEATURE"
    <3>1. StdEPReq(u, r, again) = CtlSendStatus(stalled)
      BY <1>7, <2>2 DEF StdEPReq, stalled
    <3>2. stalled.halt \intersect Bulk \in UsbSeen!HaltedAfter(r, "done")
      <4>1. stalled.halt \intersect Bulk = (usb.halt \intersect Bulk) \union ({ r.arg } \intersect Bulk)
        BY <1>3 DEF Before
      <4> QED
        BY <2>2, <4>1, SameNames DEF UsbSeen!HaltedAfter
    <3>3. ~r.in /\ Where(stalled.dev_state) = UsbSeen!Granted(r)
          /\ OpenFits(stalled, stalled.dev_state)
      BY <1>1, <1>3, <2>1, <2>2 DEF Gets, Before, OpenFits
    <3> QED
      BY <1>3, <2>1, <3>1, <3>2, <3>3, Done
  <2>3. CASE r.req = "CLEAR_FEATURE"
    <3>1. ~r.in
      BY <1>1, <2>3 DEF Gets
    <3>2. CASE r.arg = 0
      <4>1. StdEPReq(u, r, again) = CtlSendStatus(u)
        BY <1>7, <2>3, <3>2 DEF StdEPReq
      <4>2. u.halt \intersect Bulk \in UsbSeen!HaltedAfter(r, "done")
        <5>1. u.halt \intersect Bulk = (usb.halt \intersect Bulk) \ ({ r.arg } \intersect Bulk)
          BY <3>2 DEF Before, Bulk, BulkOut, BulkIn
        <5> QED
          BY <2>3, <5>1, SameNames DEF UsbSeen!HaltedAfter
      <4> QED
        BY <2>1, <3>1, <4>1, <4>2, DoneInPlace
    <3>3. CASE r.arg # 0
      <4> DEFINE w == MscClearFeature(cleared, r.arg, again)
      <4>1. OpenFits(cleared, cleared.dev_state) /\ cleared.dev_state = "CONFIGURED"
        BY <1>4, <1>7 DEF Before, OpenFits
      <4>2. /\ w \in UsbStates /\ w.dev_state = u.dev_state
            /\ w.stall = {} /\ ~w.out /\ OpenFits(w, w.dev_state)
            /\ w.halt = cleared.halt \/ w.halt = cleared.halt \union { BulkIn }
        BY <1>1, <1>4, <4>1, MscTypes, ClearFeatureIs
      <4>3. StdEPReq(u, r, again) = CtlSendStatus(w)
        BY <1>7, <2>3, <3>3 DEF StdEPReq, cleared
      <4> HIDE DEF w
      <4>4. w.halt \intersect Bulk \in UsbSeen!HaltedAfter(r, "done")
        <5>1. LET left == (usb.halt \intersect Bulk) \ ({ r.arg } \intersect Bulk)
              IN w.halt \intersect Bulk \in { left, left \union { BulkIn } }
          BY <1>4, <4>2 DEF Before, Bulk
        <5> QED
          BY <2>3, <5>1, SameNames DEF UsbSeen!HaltedAfter
      <4>5. Where(w.dev_state) = UsbSeen!Granted(r)
        BY <2>1, <4>2 DEF Before
      <4> QED
        BY <2>1, <3>1, <4>2, <4>3, <4>4, <4>5, Done
    <3> QED
      BY <3>2, <3>3
  <2>4. CASE r.req = "GET_STATUS"
    <3> DEFINE value == IF r.arg \in u.halt THEN 1 ELSE 0
    <3>1. StdEPReq(u, r, again) = CtlSendData(u, value)
      BY <1>7, <2>4 DEF StdEPReq
    <3>2. r.arg \in Bulk => ((value = 1) <=> r.arg \in usb.halt \intersect Bulk)
      BY DEF Before
    <3> HIDE DEF value
    <3>3. UsbSeen!Truthful(r, value)
      BY <2>4, <3>2, SameNames DEF UsbSeen!Truthful
    <3>4. r.in /\ r.wLength # 0
      BY <1>1, <2>4 DEF Gets
    <3> QED
      BY <2>1, <3>1, <3>3, <3>4, Answered
  <2> QED
    BY <1>1, <1>7, <2>2, <2>3, <2>4
<1> QED
  BY <1>6, <1>7

\* Any setup packet, with the interrupt masked or not.
LEMMA SetupServes ==
  ASSUME NEW u, Before(u), NEW r \in UsbRequests, NEW again \in BOOLEAN
  PROVE  Served(SetupStage(u, r, again), r)
<1>1. [ u EXCEPT !.dataIn = FALSE ] = u
  BY DEF Before, UsbStates
<1>2. r.to \in { "device", "interface", "endpoint", "other" }
  BY RequestTypes
<1>3. CASE r.to \in { "device", "interface", "endpoint" }
  BY <1>1, <1>3, DevReqServes, ItfReqServes, EPReqServes DEF SetupStage
<1>4. CASE r.to = "other"
  <2> DEFINE v == IF r.in THEN [ u EXCEPT !.stall = { "in" } ]
                  ELSE [ u EXCEPT !.stall = { "out" }, !.halt = @ \union { 0 } ]
  <2>1. SetupStage(u, r, again) = v
    BY <1>1, <1>4 DEF SetupStage
  <2>2. /\ v.in = "nothing" /\ ~v.out
        /\ v.dev_state = u.dev_state /\ v.open = u.open /\ v.dev_config = u.dev_config
        /\ v.halt \in { u.halt, u.halt \union { 0 } }
    BY DEF Before, UsbStates
  <2> HIDE DEF v
  <2>3. ReplyOf(v) \in { "stall", "none" }
    BY <2>2 DEF ReplyOf
  <2>4. v.halt \intersect Bulk = usb.halt \intersect Bulk
    BY <2>2 DEF Before, Bulk, BulkOut, BulkIn
  <2>5. v.halt \intersect Bulk \in UsbSeen!HaltedAfter(r, ReplyOf(v))
    BY <2>3, <2>4 DEF UsbSeen!HaltedAfter
  <2> QED
    BY <2>1, <2>2, <2>3, <2>5 DEF Served, OpenFits, Before
<1> QED
  BY <1>2, <1>3, <1>4

-----------------------------------------------------------------------------
(* The events of the bus. *)

\* The state the device is in, or will wake up in.
StateNow == IF usb.dev_state = "SUSPENDED" THEN usb.dev_old_state ELSE usb.dev_state

\* Between a reset and the unplugging the open endpoints follow the state; sleep and
\* SUSPENDED go together; a data stage has data to send, if anything, and awaits a
\* status after it; an idle host has no request.
CoreInv ==
  /\ host.at # "off" => OpenFits(usb, StateNow)
  /\ host.at # "off" /\ host.asleep => usb.dev_state = "SUSPENDED"
  /\ host.at = "data" => usb.in # "status" /\ (usb.in = "data" => usb.dataIn)
  /\ host.at \in { "off", "idle" } => host.request = NoUsbRequest

SeenInv == UsbTypeOK /\ SleepInv /\ CoreInv

\* The names of the abstract variables.
seenPipes == host.at # "off" /\ usb.open = Bulk
seenHalted == usb.halt \intersect Bulk
seenValue == IF UsbAnswer = "data" THEN usb.value ELSE 0

\* What the host sees of it.
PlaceFits ==
  /\ UsbPlace = IF host.at = "off" THEN "off" ELSE Where(StateNow)
  /\ seenPipes = (UsbPlace = "configured")

AnswerFits ==
  UsbAnswer = IF host.at \in { "off", "idle" } THEN "none"
              ELSE IF host.at = "status_out" THEN IF usb.out THEN "data" ELSE "none"
              ELSE ReplyOf(usb)

LEMMA SeenFits == SeenInv => PlaceFits /\ AnswerFits
<1> SUFFICES ASSUME SeenInv
             PROVE  PlaceFits /\ AnswerFits
  OBVIOUS
<1>1. UsbPlace = IF host.at = "off" THEN "off" ELSE Where(StateNow)
  BY DEF UsbPlace, Where, StateNow
<1>2. Where(StateNow) = "configured" <=> StateNow = "CONFIGURED"
  BY DEF Where
<1>3. ~(Bulk \subseteq { BulkOut })
  BY DEF Bulk, BulkOut, BulkIn
<1>4. host.at # "off" => (usb.open = Bulk <=> StateNow = "CONFIGURED")
  BY <1>3 DEF SeenInv, CoreInv, OpenFits
<1>5. PlaceFits
  BY <1>1, <1>2, <1>4 DEF seenPipes, PlaceFits
<1>6. AnswerFits
  BY DEF SeenInv, UsbTypeOK, UsbAnswer, ReplyOf, AnswerFits
<1> QED
  BY <1>5, <1>6

LEMMA SeenFitsNext == SeenInv' => PlaceFits' /\ AnswerFits'
BY SeenFits, PTL

\* A reply is one of four.
LEMMA ReplyType ==
  ASSUME NEW u \in UsbStates
  PROVE  ReplyOf(u) \in UsbSeen!Answers
BY DEF UsbStates, ReplyOf, UsbSeen!Answers

\* The device at a setup packet.
LEMMA SetupBefore ==
  ASSUME SeenInv, host.at = "idle", ~host.asleep
  PROVE  Before([ SetupReceived(usb) EXCEPT !.dataIn = FALSE ])
<1>1. usb \in UsbStates
  BY Awake DEF SeenInv
<1> DEFINE u == [ SetupReceived(usb) EXCEPT !.dataIn = FALSE ]
<1>2. /\ u \in UsbStates /\ u.in = "nothing" /\ u.stall = {} /\ ~u.out /\ ~u.dataIn
      /\ u.dev_state = usb.dev_state /\ u.open = usb.open /\ u.dev_config = usb.dev_config
      /\ u.halt = usb.halt
  BY <1>1 DEF UsbStates, SetupReceived
<1> HIDE DEF u
<1>3. StateNow = u.dev_state
  BY <1>1, <1>2 DEF StateNow, UsbStates, DevStates
<1>4. OpenFits(u, u.dev_state)
  BY <1>2, <1>3 DEF SeenInv, CoreInv, OpenFits
<1>5. UsbPlace = Where(u.dev_state)
  BY <1>3, SeenFits DEF PlaceFits
<1>6. Before(u)
  BY <1>2, <1>4, <1>5 DEF Before
<1> QED
  BY <1>6 DEF u

LEMMA RequestServed ==
  ASSUME SeenInv, NEW r \in UsbRequests, Request(r)
  PROVE  Served(usb', r)
<1> DEFINE u == [ SetupReceived(usb) EXCEPT !.dataIn = FALSE ]
<1>1. Before(u)
  BY SetupBefore DEF Request
<1>2. usb \in UsbStates
  BY Awake DEF SeenInv, Request
<1>3. CASE usb.deaf
  <2>1. usb' = SetupReceived(usb)
    BY <1>3 DEF Request
  <2>2. /\ usb'.in = "nothing" /\ usb'.stall = {} /\ ~usb'.out
        /\ usb'.dev_state = u.dev_state /\ usb'.open = u.open /\ usb'.dev_config = u.dev_config
        /\ usb'.halt = u.halt
    BY <1>2, <2>1 DEF UsbStates, SetupReceived
  <2> HIDE DEF u
  <2>3. ReplyOf(usb') = "none"
    BY <2>2 DEF ReplyOf
  <2>4. usb'.halt \intersect Bulk \in UsbSeen!HaltedAfter(r, "none")
    BY <1>1, <2>2 DEF UsbSeen!HaltedAfter, Before
  <2> QED
    BY <1>1, <2>2, <2>3, <2>4 DEF Served, Before, OpenFits
<1>4. CASE ~usb.deaf
  <2>1. PICK again \in BOOLEAN : usb' = SetupStage(SetupReceived(usb), r, again)
    BY <1>4 DEF Request
  <2>2. SetupStage(SetupReceived(usb), r, again) = SetupStage(u, r, again)
    <3>1. [ u EXCEPT !.dataIn = FALSE ] = u
      BY <1>2 DEF UsbStates, SetupReceived
    <3> QED
      BY <3>1 DEF SetupStage
  <2> HIDE DEF u
  <2> QED
    BY <1>1, <2>1, <2>2, SetupServes
<1> QED
  BY <1>3, <1>4

LEMMA RequestSeen ==
  ASSUME SeenInv, NEW r \in UsbRequests, Request(r)
  PROVE  CoreInv' /\ (SeenInv' => UsbSeen!Serve(r))
<1>1. Served(usb', r)
  BY RequestServed
<1>2. /\ host.at = "idle" /\ ~host.asleep /\ host.request = NoUsbRequest
      /\ host'.request = r /\ ~host'.asleep /\ host'.asleep = host.asleep
      /\ host'.at = IF r.in /\ r.wLength # 0 THEN "data" ELSE "status_in"
  BY DEF Request, SeenInv, CoreInv, UsbTypeOK
<1>3. usb' \in UsbStates
  <2>1. UsbTypeOK' /\ SleepInv'
    BY RequestKeeps DEF SeenInv
  <2> QED
    BY <1>2, <2>1, Awake DEF UsbTypeOK, SleepInv, UsbStates
<1>4. StateNow' = usb'.dev_state
  BY <1>3 DEF StateNow, UsbStates, DevStates
<1>5. CoreInv'
  BY <1>1, <1>2, <1>4 DEF CoreInv, Served
<1>6. ASSUME SeenInv' PROVE UsbSeen!Serve(r)
  <2>1. UsbPlace' = Where(usb'.dev_state)
    <3>1. UsbPlace' = IF host'.at = "off" THEN "off" ELSE Where(StateNow')
      BY <1>6, SeenFitsNext DEF PlaceFits
    <3> QED
      BY <1>2, <1>4, <3>1
  <2>2. UsbAnswer' = ReplyOf(usb')
    <3>1. UsbAnswer' = IF host'.at \in { "off", "idle" } THEN "none"
                       ELSE IF host'.at = "status_out" THEN IF usb'.out THEN "data" ELSE "none"
                       ELSE ReplyOf(usb')
      BY <1>6, SeenFitsNext DEF AnswerFits
    <3> QED
      BY <1>2, <3>1
  <2>3. seenPipes' = (UsbPlace' = "configured")
    BY <1>6, SeenFitsNext DEF PlaceFits
  <2>4. UsbPlace # "off"
    BY <1>2, SeenFits DEF PlaceFits, Where
  <2>5. UsbAnswer' \in UsbSeen!Answers /\ seenValue' \in 0 .. 1
    BY <1>3, <2>2, ReplyType DEF seenValue, UsbStates
  <2>6. UsbAnswer' = "data" => seenValue' = usb'.value
    BY DEF seenValue
  <2>7. UsbAnswer' \in { "data", "done" } => UsbSeen!Grantable(r) /\ (UsbAnswer' = "data" => r.in)
    <3>1. ReplyOf(usb') = "data" => usb'.in = "data"
      BY <1>3 DEF ReplyOf, UsbStates
    <3> QED
      BY <1>1, <2>2, <3>1 DEF Served
  <2>8. UsbPlace' = IF UsbAnswer' = "done" THEN UsbSeen!Granted(r) ELSE UsbPlace
    BY <1>1, <2>1, <2>2 DEF Served
  <2>9. UsbAnswer' = "data" => UsbSeen!Truthful(r, seenValue')
    BY <1>1, <2>2, <2>6 DEF Served
  <2>10. seenHalted' \in UsbSeen!HaltedAfter(r, UsbAnswer')
    BY <1>1, <2>2 DEF Served, seenHalted
  <2> QED
    BY <1>2, <2>3, <2>4, <2>5, <2>7, <2>8, <2>9, <2>10, SameNames
    DEF UsbSeen!Serve, UsbSeen!Moves, UsbSeen!Values, seenPipes, seenHalted, seenValue
<1> QED
  BY <1>5, <1>6

\* A transfer that goes on, or that ends the request.
LEMMA TransferSeen ==
  ASSUME SeenInv, UsbTransfer \/ GiveUp
  PROVE  CoreInv' /\ (SeenInv' => UsbSeen!Finish \/ UNCHANGED UsbSeen!vars)
<1> DEFINE taken == [ usb EXCEPT !.in = "nothing" ]
<1>1. UsbTypeOK
  BY DEF SeenInv
<1>2. /\ taken.dev_state = usb.dev_state /\ taken.dev_old_state = usb.dev_old_state
      /\ taken.open = usb.open /\ taken.dev_config = usb.dev_config /\ taken.halt = usb.halt
      /\ taken.value = usb.value /\ taken.dataIn = usb.dataIn /\ taken.in = "nothing"
      /\ DataInStage(taken).dev_state = usb.dev_state
      /\ DataInStage(taken).dev_old_state = usb.dev_old_state
      /\ DataInStage(taken).open = usb.open /\ DataInStage(taken).dev_config = usb.dev_config
      /\ DataInStage(taken).halt = usb.halt /\ DataInStage(taken).value = usb.value
      /\ usb.dataIn => DataInStage(taken).out
  BY <1>1 DEF UsbTypeOK, DataInStage, CtlReceiveStatus
<1> HIDE DEF taken
<1>3. /\ usb'.dev_state = usb.dev_state /\ usb'.dev_old_state = usb.dev_old_state
      /\ usb'.open = usb.open /\ usb'.dev_config = usb.dev_config /\ usb'.halt = usb.halt
      /\ usb'.value = usb.value
  <2>1. CASE ReadData \/ ReadStatus
    BY <1>2, <2>1 DEF ReadData, ReadStatus, taken
  <2>2. CASE SendStatus
    BY <1>1, <2>2 DEF SendStatus, UsbTypeOK
  <2>3. CASE Stalled \/ GiveUp
    BY <2>3 DEF Stalled, GiveUp
  <2> QED
    BY <2>1, <2>2, <2>3 DEF UsbTransfer
<1>4. /\ host.at # "off" /\ host'.at # "off" /\ host'.asleep = host.asleep
      /\ (host'.at = "idle" /\ host'.request = NoUsbRequest) \/ ReadData
  BY <1>1 DEF UsbTransfer, GiveUp, ReadData, SendStatus, ReadStatus, Stalled, HostAt, HostDone,
              UsbTypeOK
<1>5. StateNow' = StateNow /\ seenHalted' = seenHalted
  BY <1>3 DEF StateNow, seenHalted
<1>6. ReadData => host'.at = "status_out" /\ host'.request = host.request
  BY <1>1 DEF ReadData, HostAt, UsbTypeOK
<1>7. CoreInv'
  BY <1>3, <1>4, <1>5, <1>6 DEF SeenInv, CoreInv, OpenFits
<1>8. ASSUME SeenInv' PROVE UsbSeen!Finish \/ UNCHANGED UsbSeen!vars
  <2>1. UsbPlace' = UsbPlace /\ seenPipes' = seenPipes
    BY <1>4, <1>5, <1>8, SeenFits, SeenFitsNext DEF PlaceFits
  <2>2. CASE host'.at = "idle" /\ host'.request = NoUsbRequest
    <3>1. UsbAnswer' = "none" /\ seenValue' = 0
      BY <1>8, <2>2, SeenFitsNext DEF AnswerFits, seenValue
    <3> QED
      BY <1>4, <1>5, <2>1, <2>2, <3>1, SameNames
      DEF UsbSeen!Finish, UsbSeen!Silent, seenPipes, seenHalted, seenValue
  <2>3. CASE ReadData
    <3>1. UsbAnswer = "data"
      <4>1. ReplyOf(usb) = "data"
        BY <2>3 DEF ReadData, SeenInv, CoreInv, UsbTypeOK, ReplyOf
      <4> QED
        BY <2>3, <4>1, SeenFits DEF AnswerFits, ReadData
    <3>2. usb'.out
      BY <1>2, <2>3 DEF ReadData, SeenInv, CoreInv, UsbTypeOK, taken
    <3>3. UsbAnswer' = "data"
      BY <1>6, <1>8, <2>3, <3>2, SeenFitsNext DEF AnswerFits
    <3>4. seenValue' = seenValue
      BY <1>3, <3>1, <3>3 DEF seenValue
    <3> QED
      BY <1>4, <1>5, <1>6, <2>1, <2>3, <3>1, <3>3, <3>4
      DEF UsbSeen!vars, seenPipes, seenHalted, seenValue
  <2> QED
    BY <1>4, <2>2, <2>3
<1> QED
  BY <1>7, <1>8

\* Reset and unplugging, sleep and waking, and the halts of the class.
LEMMA ResetSeen ==
  ASSUME SeenInv, BusReset
  PROVE  CoreInv' /\ (SeenInv' => UsbSeen!Reset)
<1>1. /\ usb'.dev_state = "DEFAULT" /\ usb'.open = {} /\ usb'.halt = usb.halt
      /\ host' = [ at |-> "idle", request |-> NoUsbRequest, asleep |-> FALSE ]
  BY DEF BusReset, LLReset, SeenInv, UsbTypeOK
<1>2. StateNow' = "DEFAULT"
  BY <1>1 DEF StateNow
<1>3. CoreInv'
  BY <1>1, <1>2 DEF CoreInv, OpenFits
<1>4. ASSUME SeenInv' PROVE UsbSeen!Reset
  <2>1. UsbPlace' = "default" /\ seenPipes' = (UsbPlace' = "configured")
    BY <1>1, <1>2, <1>4, SeenFitsNext DEF PlaceFits, Where
  <2>2. UsbAnswer' = "none" /\ seenValue' = 0
    BY <1>1, <1>4, SeenFitsNext DEF AnswerFits, seenValue
  <2> QED
    BY <1>1, <2>1, <2>2, SameNames
    DEF UsbSeen!Reset, UsbSeen!Moves, UsbSeen!Silent, seenPipes, seenValue
<1> QED
  BY <1>3, <1>4

LEMMA DetachSeen ==
  ASSUME SeenInv, Detach
  PROVE  CoreInv' /\ (SeenInv' => UsbSeen!Detach)
<1>1. /\ usb'.halt = usb.halt
      /\ host'.at = "off" /\ host'.request = NoUsbRequest /\ host'.asleep = host.asleep
  BY DEF Detach, DevDisconnected, MscDeInit, HostDone, SeenInv, UsbTypeOK
<1>2. CoreInv'
  BY <1>1 DEF CoreInv
<1>3. ASSUME SeenInv' PROVE UsbSeen!Detach
  <2>1. UsbPlace' = "off" /\ seenPipes' = (UsbPlace' = "configured")
    BY <1>1, <1>3, SeenFitsNext DEF PlaceFits
  <2>2. UsbAnswer' = "none" /\ seenValue' = 0
    BY <1>1, <1>3, SeenFitsNext DEF AnswerFits, seenValue
  <2> QED
    BY <1>1, <2>1, <2>2, SameNames
    DEF UsbSeen!Detach, UsbSeen!Moves, UsbSeen!Silent, seenPipes, seenValue
<1> QED
  BY <1>2, <1>3

LEMMA SleepSeen ==
  ASSUME SeenInv, BusSuspend \/ BusResume
  PROVE  CoreInv' /\ (SeenInv' => UsbSeen!Sleep \/ UsbSeen!Wake)
<1>1. /\ usb'.open = usb.open /\ usb'.dev_config = usb.dev_config /\ usb'.halt = usb.halt
      /\ usb'.in = usb.in /\ usb'.dataIn = usb.dataIn /\ usb'.out = usb.out
      /\ usb'.stall = usb.stall /\ usb'.value = usb.value
      /\ host'.at = host.at /\ host'.request = host.request
  BY DEF BusSuspend, BusResume, LLSuspend, LLResume, SeenInv, UsbTypeOK
<1>2. BusSuspend => host'.asleep = TRUE /\ usb'.dev_state = "SUSPENDED" /\ StateNow' = StateNow
  BY DEF BusSuspend, LLSuspend, SeenInv, UsbTypeOK, SleepInv, StateNow, DevStates
<1>3. /\ BusResume => host'.asleep = FALSE
      /\ BusResume /\ host.at # "off" => StateNow' = StateNow
  BY DEF BusResume, LLResume, SeenInv, UsbTypeOK, SleepInv, CoreInv, StateNow, DevStates
<1>4. host.at # "off" => StateNow' = StateNow
  BY <1>2, <1>3
<1>5. CoreInv'
  BY <1>1, <1>2, <1>3, <1>4 DEF SeenInv, CoreInv, OpenFits
<1>6. ASSUME SeenInv' PROVE UsbSeen!Sleep \/ UsbSeen!Wake
  <2>1. UsbPlace' = UsbPlace /\ seenPipes' = seenPipes
    BY <1>1, <1>4, <1>6, SeenFits, SeenFitsNext DEF PlaceFits
  <2>2. UsbAnswer' = UsbAnswer /\ seenValue' = seenValue
    BY <1>1 DEF UsbAnswer, seenValue
  <2> QED
    BY <1>1, <1>2, <1>3, <2>1, <2>2 DEF UsbSeen!Sleep, UsbSeen!Wake, seenPipes, seenValue
<1> QED
  BY <1>5, <1>6

LEMMA HaltSeen ==
  ASSUME SeenInv, ClassHalts
  PROVE  CoreInv' /\ (SeenInv' => UsbSeen!Halt)
<1>1. PICK ep \in Bulk : usb' = [ usb EXCEPT !.halt = @ \union { ep } ]
  BY DEF ClassHalts
<1>2. /\ usb'.open = usb.open /\ usb'.dev_config = usb.dev_config
      /\ usb'.halt = usb.halt \union { ep }
      /\ usb'.in = usb.in /\ usb'.dataIn = usb.dataIn /\ usb'.out = usb.out
      /\ usb'.stall = usb.stall /\ usb'.value = usb.value
      /\ usb'.dev_state = usb.dev_state /\ usb'.dev_old_state = usb.dev_old_state
      /\ host' = host
  BY <1>1 DEF ClassHalts, SeenInv, UsbTypeOK
<1>3. StateNow' = StateNow
  BY <1>2 DEF StateNow
<1>4. CoreInv'
  BY <1>2, <1>3 DEF SeenInv, CoreInv, OpenFits
<1>5. ASSUME SeenInv' PROVE UsbSeen!Halt
  <2>1. UsbPlace' = UsbPlace /\ seenPipes' = seenPipes
    BY <1>2, <1>3, <1>5, SeenFits, SeenFitsNext DEF PlaceFits
  <2>2. UsbAnswer' = UsbAnswer /\ seenValue' = seenValue
    BY <1>2 DEF UsbAnswer, seenValue
  <2>3. UsbPlace = "configured"
    BY SeenFits DEF PlaceFits, ClassHalts, StateNow, Where
  <2>4. seenHalted' = seenHalted \union { ep } /\ ep \in UsbSeen!Bulk
    BY <1>1, <1>2, SameNames DEF seenHalted
  <2> QED
    BY <1>2, <2>1, <2>2, <2>3, <2>4 DEF UsbSeen!Halt, seenPipes, seenHalted, seenValue
<1> QED
  BY <1>4, <1>5

-----------------------------------------------------------------------------
LEMMA SeenStart == UsbInit => SeenInv /\ UsbSeen!Init
<1> SUFFICES ASSUME UsbInit
             PROVE  SeenInv /\ UsbSeen!Init
  OBVIOUS
<1>1. SeenInv
  BY UsbStart DEF SeenInv, CoreInv, UsbInit
<1>2. UsbPlace = "off" /\ seenPipes = FALSE /\ UsbAnswer = "none" /\ seenValue = 0
  BY <1>1, SeenFits DEF PlaceFits, AnswerFits, UsbInit, seenPipes, seenValue
<1>3. seenHalted = {} /\ host.asleep = FALSE /\ host.request = NoUsbRequest
  BY DEF UsbInit, seenHalted
<1> QED
  BY <1>1, <1>2, <1>3, SameNames DEF UsbSeen!Init, seenPipes, seenHalted, seenValue

LEMMA SeenSteps ==
  SeenInv /\ [UsbNext]_usbVars => SeenInv' /\ [UsbSeen!Next]_(UsbSeen!vars)
<1> SUFFICES ASSUME SeenInv, [UsbNext]_usbVars
             PROVE  SeenInv' /\ [UsbSeen!Next]_(UsbSeen!vars)
  OBVIOUS
<1>1. UsbTypeOK' /\ SleepInv'
  BY UsbSteps DEF SeenInv
<1>2. CASE UNCHANGED usbVars
  <2>1. SeenInv'
    BY <1>1, <1>2 DEF SeenInv, CoreInv, StateNow, usbVars
  <2>2. UsbPlace' = UsbPlace /\ UsbAnswer' = UsbAnswer
    BY <1>2 DEF UsbPlace, UsbAnswer, usbVars
  <2>3. UNCHANGED UsbSeen!vars
    BY <1>2, <2>2 DEF UsbSeen!vars, usbVars
  <2> QED
    BY <2>1, <2>3
<1>3. CASE \E r \in UsbRequests : Request(r)
  <2>1. PICK r \in UsbRequests : Request(r)
    BY <1>3
  <2>2. CoreInv' /\ (SeenInv' => UsbSeen!Serve(r))
    BY <2>1, RequestSeen
  <2>3. SeenInv'
    BY <1>1, <2>2 DEF SeenInv
  <2> QED
    BY <2>1, <2>2, <2>3, SameNames DEF UsbSeen!Next
<1>4. CASE UsbTransfer \/ GiveUp
  <2>1. SeenInv'
    BY <1>1, <1>4, TransferSeen DEF SeenInv
  <2> QED
    BY <1>4, <2>1, TransferSeen DEF UsbSeen!Next
<1>5. CASE BusReset \/ Detach
  <2>1. SeenInv'
    BY <1>1, <1>5, ResetSeen, DetachSeen DEF SeenInv
  <2> QED
    BY <1>5, <2>1, ResetSeen, DetachSeen DEF UsbSeen!Next
<1>6. CASE BusSuspend \/ BusResume
  <2>1. SeenInv'
    BY <1>1, <1>6, SleepSeen DEF SeenInv
  <2> QED
    BY <1>6, <2>1, SleepSeen DEF UsbSeen!Next
<1>7. CASE ClassHalts
  <2>1. SeenInv'
    BY <1>1, <1>7, HaltSeen DEF SeenInv
  <2> QED
    BY <1>7, <2>1, HaltSeen DEF UsbSeen!Next
<1> QED
  BY <1>2, <1>3, <1>4, <1>5, <1>6, <1>7 DEF UsbNext

\* The core keeps to chapter 9 as its host sees it: a granted request takes the device
\* to the address, configuration and halts that it names, one that is refused or not
\* answered to no other address or configuration, the bulk endpoints are open exactly
\* while it is configured, suspend and resume change nothing, and what GET_STATUS and
\* GET_CONFIGURATION tell is so.
THEOREM ImplementsUsbDevice == UsbInit /\ [][UsbNext]_usbVars => IsUsbDevice
<1>1. UsbInit /\ [][UsbNext]_usbVars => [](SeenInv)
  <2>1. UsbInit => SeenInv
    BY SeenStart
  <2>2. SeenInv /\ [UsbNext]_usbVars => SeenInv'
    BY SeenSteps
  <2> QED
    BY <2>1, <2>2, PTL
<1> QED
  BY <1>1, SeenStart, SeenSteps, PTL DEF IsUsbDevice, UsbSeen!Spec

-----------------------------------------------------------------------------
(* LcdRender, for lists of any length: its types, that the signals of the engine are *)
(* accounted for, that what is shown is complete, and that the engine does not draw  *)
(* to the buffer scanned out.  LcdLines, for any set of tasks that log and any       *)
(* number of lines: its types, that the lines drawn exist, and that the newest one   *)
(* is on the display.                                                                *)

Lists == [ Slots -> Buffers \union { End, Unwritten } ]
Engines == [ mem : Lists, isr : Slots, op : Buffers \union { None }, irq : BOOLEAN,
             sem : Nat, astray : BOOLEAN, wild : BOOLEAN ]
Tasks == [ at : { "start", "sync", "draw", "wait" }, draw : Buffers,
           cur : Slots, fresh : BOOLEAN, late : 0 .. MaxLate ]
Displays == [ scan : Buffers, shown : Buffers, wait : BOOLEAN, sem : { 0, 1 } ]

\* The last slot holds no operation: a walk ends there at the latest.
ListEnds == dma.mem[MaxOps + 1] \notin Buffers

RenderTypes == RenderTypeOK /\ ListEnds

\* While the task waits for the list there may be one signal more than the waits
\* that timed out.
Signals ==
  lcd.late < MaxLate =>
    dma.sem + (IF dma.irq THEN 1 ELSE 0) <= lcd.late + (IF lcd.at = "wait" THEN 1 ELSE 0)

\* The list of the frame: operations up to its end.
ListDrawn == \A s \in Slots : s < lcd.cur => dma.mem[s] = lcd.draw

\* Before any wait timed out.  Outside the wait the engine rests ...
Rests ==
  /\ dma.isr = 1 /\ dma.op = None /\ ~dma.irq /\ dma.sem = 0
  /\ undone[lcd.draw] = lcd.cur - 1

\* ... and in it, it is at the operation before mDma2dIsrBuf, or it has signalled.
Works ==
  /\ dma.op = None =>
       dma.isr = 1 /\ dma.sem = 1 /\ ~dma.irq /\ undone[lcd.draw] = 0
  /\ dma.op # None =>
       /\ dma.op = lcd.draw /\ dma.irq /\ dma.sem = 0
       /\ 2 <= dma.isr /\ dma.isr <= lcd.cur
       /\ undone[lcd.draw] = lcd.cur - dma.isr + 1
  /\ dma.mem[lcd.cur] = End

InTime ==
  lcd.late = 0 =>
    /\ ~dma.astray /\ ~dma.wild
    /\ ListDrawn
    /\ lcd.at # "wait" => Rests
    /\ lcd.at = "wait" => Works
    /\ lcd.at \in { "start", "sync" } => lcd.cur = 1
    /\ ltdc.shown = (IF lcd.at = "start" THEN lcd.draw ELSE 1 - lcd.draw)
    /\ undone[ltdc.shown] = 0

\* The frame that began without an old signal: after the one it waited for, the
\* display scans what is shown.
Fresh ==
  lcd.fresh /\ lcd.late = 0 =>
    /\ lcd.at = "sync" /\ ltdc.sem = 1 => ltdc.scan = ltdc.shown
    /\ lcd.at \in { "draw", "wait" } => ltdc.scan = ltdc.shown

RenderInv == RenderTypes /\ Signals /\ InTime /\ Fresh

LEMMA Typed == RenderTypeOK <=> /\ lcd \in Tasks /\ ltdc \in Displays /\ dma \in Engines
                                /\ undone \in [ Buffers -> Nat ]
BY DEF RenderTypeOK, Tasks, Displays, Engines, Lists

LEMMA SlotFacts == /\ 1 \in Slots /\ MaxOps + 1 \in Slots /\ MaxOps \in Nat /\ MaxOps > 0
                   /\ MaxLate \in Nat /\ MaxLate > 0
BY RenderAssumption DEF Slots

LEMMA RenderInitInv == RenderInit => RenderInv
<1> SUFFICES ASSUME RenderInit PROVE RenderInv
  OBVIOUS
<1>1. lcd \in Tasks
  BY SlotFacts DEF RenderInit, Tasks, Buffers
<1>2. ltdc \in Displays
  BY DEF RenderInit, Displays, Buffers
<1>3. dma \in Engines
  <2>1. dma.mem \in Lists
    BY DEF RenderInit, Lists
  <2> QED
    BY <2>1, SlotFacts DEF RenderInit, Engines
<1>4. undone \in [ Buffers -> Nat ]
  BY DEF RenderInit
<1>5. RenderTypes
  <2>1. dma.mem[MaxOps + 1] = Unwritten
    BY SlotFacts DEF RenderInit
  <2> QED
    BY <1>1, <1>2, <1>3, <1>4, <2>1, Typed DEF RenderTypes, ListEnds, Buffers, Unwritten
<1>6. Signals /\ Fresh
  BY SlotFacts DEF RenderInit, Signals, Fresh
<1>7. InTime
  BY SlotFacts DEF RenderInit, InTime, ListDrawn, Rests, Works, Slots, Buffers, None
<1> QED
  BY <1>5, <1>6, <1>7 DEF RenderInv

-----------------------------------------------------------------------------
(* What Put and Walk do. *)

LEMMA PutFields ==
  ASSUME lcd \in Tasks, dma \in Engines, NEW word \in Buffers \union { End, Unwritten }
  PROVE  LET d == Put(dma, word)
         IN  /\ d \in Engines
             /\ d.mem = [ dma.mem EXCEPT ![lcd.cur] = word ]
             /\ d.astray = (dma.astray \/ dma.isr # 1)
             /\ d.isr = dma.isr /\ d.op = dma.op /\ d.irq = dma.irq
             /\ d.sem = dma.sem /\ d.wild = dma.wild
<1>1. [ dma.mem EXCEPT ![lcd.cur] = word ] \in Lists
  <2>1. dma.mem \in Lists
    BY DEF Engines
  <2> QED
    BY <2>1 DEF Lists
<1>2. Put(dma, word).mem = [ dma.mem EXCEPT ![lcd.cur] = word ]
  BY DEF Put, Engines
<1>3. Put(dma, word).astray = (dma.astray \/ dma.isr # 1)
  BY DEF Put, Engines
<1>4. /\ Put(dma, word).isr = dma.isr /\ Put(dma, word).op = dma.op /\ Put(dma, word).irq = dma.irq
      /\ Put(dma, word).sem = dma.sem /\ Put(dma, word).wild = dma.wild
  BY DEF Put, Engines
<1>5. Put(dma, word) \in Engines
  <2>1. (dma.astray \/ dma.isr # 1) \in BOOLEAN
    OBVIOUS
  <2> QED
    BY <1>1, <2>1 DEF Put, Engines
<1> QED
  BY <1>2, <1>3, <1>4, <1>5

LEMMA WalkFields ==
  ASSUME NEW d \in Engines, d.mem[MaxOps + 1] \notin Buffers, NEW word \in Words(d)
  PROVE  LET e == Walk(d, word)
         IN  /\ e \in Engines /\ e.mem = d.mem
             /\ word = End =>
                  /\ e.isr = 1 /\ e.sem = d.sem + 1 /\ ~e.irq /\ ~e.astray
                  /\ e.op = d.op /\ e.wild = d.wild
             /\ word \in Buffers =>
                  /\ e.isr = d.isr + 1 /\ e.irq /\ e.sem = d.sem
                  /\ e.astray = d.astray /\ e.wild = d.wild
                  /\ e.op = (IF d.op = None THEN word ELSE d.op)
             /\ word = Unwritten => e = [ d EXCEPT !.wild = TRUE ]
             /\ word \in Buffers \union { End, Unwritten }
             /\ word # Unwritten => word = d.mem[d.isr]
<1>1. word \in Buffers \union { End, Unwritten } /\ (word # Unwritten => word = d.mem[d.isr])
  BY DEF Words, Engines, Lists
<1>2. CASE word = End
  <2>1. Walk(d, word) = [ d EXCEPT !.isr = 1, !.sem = @ + 1, !.irq = FALSE, !.astray = FALSE ]
    BY <1>2 DEF Walk, End, Buffers
  <2>2. word # Unwritten /\ word \notin Buffers /\ 1 \in Slots
    BY <1>2, SlotFacts DEF End, Buffers, Unwritten
  <2> HIDE DEF Walk
  <2>3. d.sem \in Nat /\ d.sem + 1 \in Nat
    BY DEF Engines
  <2>4. /\ Walk(d, word).mem = d.mem
        /\ Walk(d, word).isr = 1 /\ Walk(d, word).sem = d.sem + 1
        /\ Walk(d, word).irq = FALSE /\ Walk(d, word).astray = FALSE
        /\ Walk(d, word).op = d.op /\ Walk(d, word).wild = d.wild
    BY <2>1 DEF Engines
  <2>5. Walk(d, word) \in Engines
    BY <2>1, <2>2, <2>3 DEF Engines
  <2> QED
    BY <1>1, <1>2, <2>2, <2>4, <2>5
<1>3. CASE word \in Buffers
  <2>1. d.isr + 1 \in Slots
    <3>1. d.isr # MaxOps + 1 /\ d.isr \in Slots
      BY <1>1, <1>3 DEF Engines, Buffers, Unwritten
    <3> QED
      BY <3>1, SlotFacts DEF Slots
  <2>2. word # End /\ word # Unwritten
    BY <1>3 DEF Buffers, End, Unwritten
  <2>3. CASE d.op = None
    <3>1. Walk(d, word) = [ d EXCEPT !.isr = @ + 1, !.op = word, !.irq = TRUE ]
      BY <1>3, <2>2, <2>3 DEF Walk
    <3> QED
      BY <1>1, <1>3, <2>1, <2>2, <2>3, <3>1 DEF Engines
  <2>4. CASE d.op # None
    <3>1. Walk(d, word) = [ d EXCEPT !.isr = @ + 1, !.irq = TRUE ]
      BY <1>3, <2>2, <2>4 DEF Walk
    <3> QED
      BY <1>1, <1>3, <2>1, <2>2, <2>4, <3>1 DEF Engines
  <2> QED
    BY <2>3, <2>4
<1>4. CASE word = Unwritten
  <2>1. Walk(d, word) = [ d EXCEPT !.wild = TRUE ] /\ word # End /\ word \notin Buffers
    BY <1>4 DEF Walk, Unwritten, End, Buffers
  <2> QED
    BY <1>1, <1>4, <2>1 DEF Engines
<1> QED
  BY <1>1, <1>2, <1>3, <1>4

-----------------------------------------------------------------------------
(* The steps that leave the engine alone. *)

LEMMA StartRenderInv == RenderInv /\ StartRender => RenderInv'
<1> SUFFICES ASSUME RenderInv, StartRender PROVE RenderInv'
  OBVIOUS
<1>1. lcd \in Tasks /\ ltdc \in Displays /\ dma \in Engines /\ undone \in [ Buffers -> Nat ]
  BY Typed DEF RenderInv, RenderTypes
<1>2. /\ lcd.at = "start" /\ dma' = dma
      /\ lcd' = [ lcd EXCEPT !.at = "sync", !.draw = 1 - @, !.fresh = (ltdc.sem = 0) ]
      /\ ltdc' = [ ltdc EXCEPT !.wait = TRUE ]
      /\ undone' = [ undone EXCEPT ![1 - lcd.draw] = 0 ]
  BY DEF StartRender
<1>3. 1 - lcd.draw \in Buffers
  BY <1>1 DEF Tasks, Buffers
<1>4. /\ lcd' \in Tasks /\ ltdc' \in Displays
      /\ lcd'.at = "sync" /\ lcd'.draw = 1 - lcd.draw /\ lcd'.cur = lcd.cur /\ lcd'.late = lcd.late
      /\ lcd'.fresh = (ltdc.sem = 0)
      /\ ltdc'.sem = ltdc.sem /\ ltdc'.shown = ltdc.shown
  BY <1>1, <1>2, <1>3 DEF Tasks, Displays
<1>5. undone' \in [ Buffers -> Nat ] /\ undone'[1 - lcd.draw] = 0
      /\ \A b \in Buffers : undone[b] = 0 => undone'[b] = 0
  BY <1>1, <1>2, <1>3
<1>6. RenderTypes'
  BY <1>1, <1>2, <1>4, <1>5, Typed DEF RenderInv, RenderTypes, RenderTypeOK, ListEnds, Tasks, Displays, Engines, Lists
<1>7. Signals' /\ Fresh'
  <2>1. Signals'
    BY <1>2, <1>4 DEF RenderInv, Signals
  <2>2. ASSUME lcd'.fresh, ltdc'.sem = 1 PROVE FALSE
    <3>1. lcd'.fresh = (ltdc.sem = 0)
      BY <1>4
    <3>2. (ltdc.sem = 0) = TRUE
      BY <2>2, <3>1, Zenon
    <3> QED
      BY <1>4, <2>2, <3>2
  <2>3. Fresh'
    BY <1>4, <2>2 DEF Fresh
  <2> QED
    BY <2>1, <2>3
<1>8. InTime'
  <2>1. SUFFICES ASSUME lcd.late = 0 PROVE InTime'
    BY <1>4 DEF InTime
  <2>2. ltdc.shown = lcd.draw /\ lcd.cur = 1 /\ undone[ltdc.shown] = 0 /\ Rests /\ ~dma.astray /\ ~dma.wild
    BY <1>2, <2>1 DEF RenderInv, InTime
  <2>3. ltdc'.shown = 1 - lcd'.draw /\ undone'[ltdc'.shown] = 0
    BY <1>1, <1>4, <1>5, <2>2 DEF Tasks, Buffers
  <2>4. ListDrawn'
    BY <1>4, <2>2 DEF ListDrawn, Slots
  <2>5. Rests'
    BY <1>2, <1>4, <1>5, <2>2 DEF Rests
  <2> QED
    BY <1>2, <1>4, <2>2, <2>3, <2>4, <2>5 DEF InTime
<1> QED
  BY <1>6, <1>7, <1>8 DEF RenderInv

LEMMA SyncInv == RenderInv /\ (SyncTaken \/ SyncTimeout) => RenderInv'
<1> SUFFICES ASSUME RenderInv, SyncTaken \/ SyncTimeout PROVE RenderInv'
  OBVIOUS
<1>1. lcd \in Tasks /\ ltdc \in Displays /\ dma \in Engines /\ undone \in [ Buffers -> Nat ]
  BY Typed DEF RenderInv, RenderTypes
<1>2. /\ lcd.at = "sync" /\ UNCHANGED << dma, undone >>
      /\ lcd' \in Tasks /\ ltdc' \in Displays
      /\ lcd'.at = "draw" /\ lcd'.draw = lcd.draw /\ lcd'.cur = lcd.cur /\ lcd'.late = lcd.late
      /\ ltdc'.scan = ltdc.scan /\ ltdc'.shown = ltdc.shown
      /\ lcd'.fresh => lcd.fresh /\ ltdc.sem = 1
  <2>1. CASE SyncTaken
    <3>1. lcd' = [ lcd EXCEPT !.at = "draw" ] /\ ltdc' = [ ltdc EXCEPT !.sem = 0 ]
          /\ lcd.at = "sync" /\ ltdc.sem = 1 /\ UNCHANGED << dma, undone >>
      BY <2>1 DEF SyncTaken
    <3>2. /\ lcd' \in Tasks /\ lcd'.at = "draw" /\ lcd'.draw = lcd.draw /\ lcd'.cur = lcd.cur
          /\ lcd'.late = lcd.late /\ lcd'.fresh = lcd.fresh
      BY <1>1, <3>1 DEF Tasks
    <3>3. ltdc' \in Displays /\ ltdc'.scan = ltdc.scan /\ ltdc'.shown = ltdc.shown
      BY <1>1, <3>1 DEF Displays
    <3> QED
      BY <3>1, <3>2, <3>3
  <2>2. CASE SyncTimeout
    <3>1. lcd' = [ lcd EXCEPT !.at = "draw", !.fresh = FALSE ] /\ lcd.at = "sync"
          /\ UNCHANGED << ltdc, dma, undone >>
      BY <2>2 DEF SyncTimeout
    <3>2. /\ lcd' \in Tasks /\ lcd'.at = "draw" /\ lcd'.draw = lcd.draw /\ lcd'.cur = lcd.cur
          /\ lcd'.late = lcd.late /\ ~lcd'.fresh
      BY <1>1, <3>1 DEF Tasks
    <3> QED
      BY <1>1, <3>1, <3>2
  <2> QED
    BY <2>1, <2>2
<1>3. RenderTypes'
  BY <1>1, <1>2 DEF RenderInv, RenderTypes, RenderTypeOK, ListEnds, Tasks, Displays, Engines, Lists
<1>4. Signals' /\ Fresh'
  BY <1>1, <1>2 DEF RenderInv, Signals, Fresh
<1>5. InTime'
  BY <1>2 DEF RenderInv, InTime, ListDrawn, Rests, Works
<1> QED
  BY <1>3, <1>4, <1>5 DEF RenderInv

LEMMA LineIrqInv == RenderInv /\ LineIrq => RenderInv'
<1> SUFFICES ASSUME RenderInv, LineIrq PROVE RenderInv'
  OBVIOUS
<1>1. lcd \in Tasks /\ ltdc \in Displays /\ dma \in Engines /\ undone \in [ Buffers -> Nat ]
  BY Typed DEF RenderInv, RenderTypes
<1>2. /\ UNCHANGED << lcd, dma, undone >>
      /\ ltdc' \in Displays /\ ltdc'.scan = ltdc.shown /\ ltdc'.shown = ltdc.shown
  BY <1>1 DEF LineIrq, Displays
<1>3. RenderTypes'
  BY <1>1, <1>2 DEF RenderInv, RenderTypes, RenderTypeOK, ListEnds, Tasks, Displays, Engines, Lists
<1>4. Signals' /\ Fresh'
  BY <1>2 DEF RenderInv, Signals, Fresh
<1>5. InTime'
  BY <1>2 DEF RenderInv, InTime, ListDrawn, Rests, Works
<1> QED
  BY <1>3, <1>4, <1>5 DEF RenderInv

LEMMA WaitInv == RenderInv /\ (WaitTaken \/ WaitTimeout) => RenderInv'
<1> SUFFICES ASSUME RenderInv, WaitTaken \/ WaitTimeout PROVE RenderInv'
  OBVIOUS
<1>1. lcd \in Tasks /\ ltdc \in Displays /\ dma \in Engines /\ undone \in [ Buffers -> Nat ]
  BY Typed DEF RenderInv, RenderTypes
<1>2. /\ lcd.at = "wait" /\ undone' = undone
      /\ ltdc' \in Displays /\ ltdc'.shown = lcd.draw
  BY <1>1 DEF WaitTaken, WaitTimeout, Shown, Displays, Tasks
<1>3. /\ lcd' \in Tasks /\ lcd'.at = "start" /\ lcd'.cur = 1 /\ lcd'.draw = lcd.draw
      /\ WaitTaken => lcd'.late = lcd.late
      /\ WaitTimeout => lcd'.late = (IF lcd.late < MaxLate THEN lcd.late + 1 ELSE lcd.late)
  <2>1. lcd.late \in 0 .. MaxLate /\ (IF lcd.late < MaxLate THEN lcd.late + 1 ELSE lcd.late) \in 0 .. MaxLate
    BY <1>1, SlotFacts DEF Tasks
  <2>2. CASE WaitTaken
    <3>1. lcd' = [ lcd EXCEPT !.at = "start", !.cur = 1 ] /\ dma.sem > 0
      BY <2>2 DEF WaitTaken
    <3>2. ~WaitTimeout
      BY <1>1, <3>1 DEF WaitTimeout, Engines
    <3> QED
      BY <1>1, <3>1, <3>2, SlotFacts DEF Tasks
  <2>3. CASE WaitTimeout
    <3>1. lcd' = [ lcd EXCEPT !.at = "start", !.cur = 1,
                              !.late = (IF lcd.late < MaxLate THEN lcd.late + 1 ELSE lcd.late) ]
      BY <1>1, <2>3 DEF WaitTimeout, Tasks
    <3>2. ~WaitTaken
      BY <1>1, <2>3 DEF WaitTaken, WaitTimeout, Engines
    <3> QED
      BY <1>1, <2>1, <3>1, <3>2, SlotFacts DEF Tasks
  <2> QED
    BY <2>2, <2>3
<1>4. /\ dma' \in Engines /\ dma'.mem = [ dma.mem EXCEPT ![1] = End ]
      /\ dma'.isr = dma.isr /\ dma'.op = dma.op /\ dma'.irq = dma.irq
      /\ dma'.astray = dma.astray /\ dma'.wild = dma.wild
      /\ WaitTaken => dma.sem > 0 /\ dma'.sem = dma.sem - 1
      /\ WaitTimeout => dma.sem = 0 /\ dma'.sem = 0
  <2>1. dma.mem \in Lists /\ [ dma.mem EXCEPT ![1] = End ] \in Lists /\ dma.sem \in Nat
    BY <1>1 DEF Engines, Lists
  <2>2. CASE WaitTaken
    <3>1. dma' = [ dma EXCEPT !.sem = dma.sem - 1, !.mem = [ dma.mem EXCEPT ![1] = End ] ] /\ dma.sem > 0
      BY <1>1, <2>2 DEF WaitTaken, Engines
    <3>2. dma.sem - 1 \in Nat
      BY <2>1, <3>1
    <3> QED
      BY <1>1, <2>1, <3>1, <3>2 DEF WaitTimeout, Engines
  <2>3. CASE WaitTimeout
    <3>1. dma' = [ dma EXCEPT !.mem = [ dma.mem EXCEPT ![1] = End ] ] /\ dma.sem = 0
      BY <1>1, <2>3 DEF WaitTimeout, Engines
    <3> QED
      BY <1>1, <2>1, <3>1 DEF WaitTaken, Engines
  <2> QED
    BY <2>2, <2>3
<1>5. RenderTypes'
  <2>1. dma'.mem[MaxOps + 1] \notin Buffers
    <3>1. dma.mem \in Lists /\ dma.mem[MaxOps + 1] \notin Buffers
      BY <1>1 DEF Engines, RenderInv, RenderTypes, ListEnds
    <3> QED
      BY <1>4, <3>1, SlotFacts DEF Lists, End, Buffers
  <2> QED
    BY <1>1, <1>2, <1>3, <1>4, <2>1 DEF RenderTypes, RenderTypeOK, ListEnds, Tasks, Displays, Engines, Lists
<1>6. Signals'
  <2>1. lcd.late \in Nat /\ dma.sem \in Nat
    BY <1>1, SlotFacts DEF Tasks, Engines
  <2> QED
    BY <1>2, <1>3, <1>4, <2>1, SlotFacts DEF RenderInv, Signals
<1>7. Fresh'
  BY <1>3 DEF Fresh
<1>8. InTime'
  <2>1. CASE WaitTimeout
    <3>1. lcd'.late # 0
      BY <1>1, <1>3, <2>1, SlotFacts DEF Tasks
    <3> QED
      BY <3>1 DEF InTime
  <2>2. CASE WaitTaken /\ lcd.late = 0
    <3>1. Works /\ ~dma.astray /\ ~dma.wild
      BY <1>2, <2>2 DEF RenderInv, InTime
    <3>2. dma.op = None
      BY <1>4, <2>2, <3>1 DEF Works
    <3>3. Rests'
      BY <1>2, <1>3, <1>4, <2>2, <3>1, <3>2 DEF Works, Rests
    <3>4. ListDrawn'
      BY <1>3 DEF ListDrawn, Slots
    <3>5. undone'[ltdc'.shown] = 0
      BY <1>2, <3>1, <3>2 DEF Works
    <3> QED
      BY <1>2, <1>3, <1>4, <3>1, <3>3, <3>4, <3>5 DEF InTime
  <2> QED
    BY <1>3, <2>1, <2>2 DEF InTime
<1> QED
  BY <1>5, <1>6, <1>7, <1>8 DEF RenderInv

-----------------------------------------------------------------------------
(* The list and the engine. *)

LEMMA DrawInv == RenderInv /\ Draw => RenderInv'
<1> SUFFICES ASSUME RenderInv, Draw PROVE RenderInv'
  OBVIOUS
<1>1. lcd \in Tasks /\ ltdc \in Displays /\ dma \in Engines /\ undone \in [ Buffers -> Nat ]
  BY Typed DEF RenderInv, RenderTypes
<1>2. /\ lcd.at = "draw" /\ lcd.cur <= MaxOps /\ ~dma.wild /\ ltdc' = ltdc
      /\ dma' = Put(dma, lcd.draw)
      /\ lcd' = [ lcd EXCEPT !.cur = @ + 1 ]
      /\ undone' = [ undone EXCEPT ![lcd.draw] = @ + 1 ]
  BY DEF Draw
<1>3. /\ lcd' \in Tasks /\ lcd'.at = lcd.at /\ lcd'.draw = lcd.draw /\ lcd'.late = lcd.late
      /\ lcd'.fresh = lcd.fresh /\ lcd'.cur = lcd.cur + 1
      /\ lcd.draw \in Buffers /\ lcd.cur \in Nat /\ lcd.cur # MaxOps + 1 /\ lcd.cur \in Slots
  <2>1. lcd.cur \in Slots /\ lcd.cur + 1 \in Slots /\ lcd.cur \in Nat /\ lcd.cur # MaxOps + 1
    BY <1>1, <1>2, SlotFacts DEF Tasks, Slots
  <2> QED
    BY <1>1, <1>2, <2>1 DEF Tasks
<1>4. /\ dma' \in Engines /\ dma'.mem = [ dma.mem EXCEPT ![lcd.cur] = lcd.draw ]
      /\ dma'.astray = (dma.astray \/ dma.isr # 1)
      /\ dma'.isr = dma.isr /\ dma'.op = dma.op /\ dma'.irq = dma.irq
      /\ dma'.sem = dma.sem /\ dma'.wild = dma.wild
  BY <1>1, <1>2, <1>3, PutFields
<1>5. undone' \in [ Buffers -> Nat ] /\ undone'[lcd.draw] = undone[lcd.draw] + 1
      /\ \A b \in Buffers \ { lcd.draw } : undone'[b] = undone[b]
  BY <1>1, <1>2, <1>3
<1>6. dma.mem \in Lists /\ dma'.mem[lcd.cur] = lcd.draw
      /\ \A s \in Slots \ { lcd.cur } : dma'.mem[s] = dma.mem[s]
  BY <1>1, <1>3, <1>4 DEF Engines, Lists
<1>7. RenderTypes'
  <2>1. dma'.mem[MaxOps + 1] \notin Buffers
    BY <1>3, <1>6, SlotFacts DEF RenderInv, RenderTypes, ListEnds
  <2> QED
    BY <1>1, <1>2, <1>3, <1>4, <1>5, <2>1
       DEF RenderTypes, RenderTypeOK, ListEnds, Tasks, Displays, Engines, Lists
<1>8. Signals' /\ Fresh'
  BY <1>2, <1>3, <1>4 DEF RenderInv, Signals, Fresh
<1>9. InTime'
  <2>1. SUFFICES ASSUME lcd.late = 0 PROVE InTime'
    BY <1>3 DEF InTime
  <2>2. /\ ~dma.astray /\ ~dma.wild /\ ListDrawn /\ Rests
        /\ ltdc.shown = 1 - lcd.draw /\ undone[ltdc.shown] = 0
    BY <1>2, <2>1 DEF RenderInv, InTime
  <2>3. ListDrawn'
    BY <1>3, <1>6, <2>2 DEF ListDrawn, Slots
  <2>4. Rests'
    BY <1>3, <1>4, <1>5, <2>2 DEF Rests
  <2>5. undone'[ltdc'.shown] = 0
    BY <1>2, <1>3, <1>5, <2>2 DEF Buffers
  <2>6. ~dma'.astray
    BY <1>4, <2>2 DEF Rests
  <2> QED
    BY <1>2, <1>3, <1>4, <2>2, <2>3, <2>4, <2>5, <2>6 DEF InTime
<1> QED
  BY <1>7, <1>8, <1>9 DEF RenderInv

LEMMA SendInv == RenderInv /\ Send => RenderInv'
<1> SUFFICES ASSUME RenderInv, Send PROVE RenderInv'
  OBVIOUS
<1> DEFINE d == Put(dma, End)
<1>1. lcd \in Tasks /\ ltdc \in Displays /\ dma \in Engines /\ undone \in [ Buffers -> Nat ]
  BY Typed DEF RenderInv, RenderTypes
<1>2. /\ d \in Engines /\ d.mem = [ dma.mem EXCEPT ![lcd.cur] = End ]
      /\ d.astray = (dma.astray \/ dma.isr # 1)
      /\ d.isr = dma.isr /\ d.op = dma.op /\ d.irq = dma.irq /\ d.sem = dma.sem /\ d.wild = dma.wild
  BY <1>1, PutFields
<1>3. PICK word \in Words(d) : dma' = Walk(d, word)
  BY DEF Send
<1>4. /\ lcd.at = "draw" /\ ~dma.wild /\ UNCHANGED << ltdc, undone >>
      /\ lcd' \in Tasks /\ lcd'.at = "wait" /\ lcd'.draw = lcd.draw /\ lcd'.late = lcd.late
      /\ lcd'.fresh = lcd.fresh /\ lcd'.cur = lcd.cur
  BY <1>1 DEF Send, Tasks
<1> HIDE DEF d
<1>5. /\ dma.mem \in Lists /\ d.mem[lcd.cur] = End /\ lcd.cur \in Slots
      /\ \A s \in Slots \ { lcd.cur } : d.mem[s] = dma.mem[s]
  BY <1>1, <1>2 DEF Engines, Lists, Tasks
<1>6. d.mem[MaxOps + 1] \notin Buffers
  BY <1>5, SlotFacts DEF RenderInv, RenderTypes, ListEnds, End, Buffers
<1>7. /\ dma' \in Engines /\ dma'.mem = d.mem
      /\ word = End =>
           /\ dma'.isr = 1 /\ dma'.sem = d.sem + 1 /\ ~dma'.irq /\ ~dma'.astray
           /\ dma'.op = d.op /\ dma'.wild = d.wild
      /\ word \in Buffers =>
           /\ dma'.isr = d.isr + 1 /\ dma'.irq /\ dma'.sem = d.sem
           /\ dma'.astray = d.astray /\ dma'.wild = d.wild
           /\ dma'.op = (IF d.op = None THEN word ELSE d.op)
      /\ word = Unwritten => dma' = [ d EXCEPT !.wild = TRUE ]
      /\ word \in Buffers \union { End, Unwritten }
      /\ word # Unwritten => word = d.mem[d.isr]
  BY <1>2, <1>3, <1>6, WalkFields
<1>8. RenderTypes'
  BY <1>1, <1>4, <1>6, <1>7
     DEF RenderTypes, RenderTypeOK, ListEnds, Tasks, Displays, Engines, Lists
<1>9. Signals'
  <2>1. /\ dma'.sem + (IF dma'.irq THEN 1 ELSE 0) <= dma.sem + (IF dma.irq THEN 1 ELSE 0) + 1
        /\ dma.sem \in Nat /\ dma'.sem \in Nat
    BY <1>1, <1>2, <1>7 DEF Engines
  <2>3. lcd.late \in Nat
    BY <1>1 DEF Tasks
  <2>2. lcd.late < MaxLate => dma.sem + (IF dma.irq THEN 1 ELSE 0) <= lcd.late
    BY <1>4, <2>1, <2>3 DEF RenderInv, Signals
  <2> QED
    BY <1>4, <2>1, <2>2, <2>3 DEF Signals
<1>10. Fresh'
  BY <1>4 DEF RenderInv, Fresh
<1>11. InTime'
  <2>1. SUFFICES ASSUME lcd.late = 0 PROVE InTime'
    BY <1>4 DEF InTime
  <2>2. /\ ~dma.astray /\ ~dma.wild /\ ListDrawn /\ Rests
        /\ ltdc.shown = 1 - lcd.draw /\ undone[ltdc.shown] = 0
    BY <1>4, <2>1 DEF RenderInv, InTime
  <2>3. d.isr = 1 /\ ~d.astray /\ ~d.wild /\ d.op = None /\ ~d.irq /\ d.sem = 0
    BY <1>2, <2>2 DEF Rests
  <2>4. word = d.mem[1]
    BY <2>3 DEF Words
  <2>5. \A s \in Slots : s < lcd.cur => d.mem[s] = lcd.draw
    BY <1>5, <2>2 DEF ListDrawn, Slots
  <2>6. ListDrawn'
    BY <1>4, <1>7, <2>5 DEF ListDrawn
  <2>7. Works' /\ ~dma'.astray /\ ~dma'.wild
    <3>1. CASE lcd.cur = 1
      <4>1. word = End
        BY <1>5, <2>4, <3>1
      <4> QED
        BY <1>4, <1>5, <1>7, <2>2, <2>3, <3>1, <4>1 DEF Works, Rests
    <3>2. CASE lcd.cur # 1
      <4>1. lcd.cur \in Nat /\ 1 < lcd.cur /\ 1 \in Slots
        BY <1>5, <3>2, SlotFacts DEF Slots
      <4>2. word = lcd.draw /\ lcd.draw \in Buffers /\ lcd.draw # None
        BY <1>1, <2>4, <2>5, <4>1 DEF Tasks, Buffers, None
      <4>3. dma'.op = lcd.draw /\ dma'.irq /\ dma'.sem = 0 /\ dma'.isr = 2 /\ ~dma'.astray /\ ~dma'.wild
        BY <1>7, <2>3, <4>2
      <4>4. undone'[lcd'.draw] = lcd'.cur - dma'.isr + 1
        BY <1>4, <2>2, <4>1, <4>3 DEF Rests
      <4> QED
        BY <1>4, <1>5, <1>7, <4>1, <4>2, <4>3, <4>4 DEF Works
    <3> QED
      BY <3>1, <3>2
  <2> QED
    BY <1>4, <2>2, <2>6, <2>7 DEF InTime
<1> QED
  BY <1>8, <1>9, <1>10, <1>11 DEF RenderInv

LEMMA OperationDoneInv == RenderInv /\ OperationDone => RenderInv'
<1> SUFFICES ASSUME RenderInv, OperationDone PROVE RenderInv'
  OBVIOUS
<1> DEFINE d == [ dma EXCEPT !.op = None ]
<1>1. lcd \in Tasks /\ ltdc \in Displays /\ dma \in Engines /\ undone \in [ Buffers -> Nat ]
  BY Typed DEF RenderInv, RenderTypes
<1>2. /\ d \in Engines /\ d.mem = dma.mem /\ d.astray = dma.astray /\ d.isr = dma.isr /\ d.op = None
      /\ d.irq = dma.irq /\ d.sem = dma.sem /\ d.wild = dma.wild
  BY <1>1 DEF Engines
<1>3. /\ dma.op # None /\ ~dma.wild /\ UNCHANGED << lcd, ltdc >>
      /\ undone' = [ undone EXCEPT ![dma.op] = IF @ = 0 THEN 0 ELSE @ - 1 ]
      /\ dma.irq => \E word \in Words(d) : dma' = Walk(d, word)
      /\ ~dma.irq => dma' = d
  BY DEF OperationDone
<1> HIDE DEF d
<1>4. dma.op \in Buffers /\ d.mem[MaxOps + 1] \notin Buffers
  BY <1>1, <1>2, <1>3 DEF Engines, RenderInv, RenderTypes, ListEnds
<1>5. /\ undone' \in [ Buffers -> Nat ]
      /\ undone'[dma.op] = (IF undone[dma.op] = 0 THEN 0 ELSE undone[dma.op] - 1)
      /\ \A b \in Buffers \ { dma.op } : undone'[b] = undone[b]
  BY <1>1, <1>3, <1>4
<1>6. ASSUME NEW word \in Words(d), dma' = Walk(d, word)
      PROVE  /\ dma' \in Engines /\ dma'.mem = dma.mem
             /\ word = End =>
                  /\ dma'.isr = 1 /\ dma'.sem = dma.sem + 1 /\ ~dma'.irq /\ ~dma'.astray
                  /\ dma'.op = None /\ dma'.wild = dma.wild
             /\ word \in Buffers =>
                  /\ dma'.isr = dma.isr + 1 /\ dma'.irq /\ dma'.sem = dma.sem
                  /\ dma'.astray = dma.astray /\ dma'.wild = dma.wild /\ dma'.op = word
             /\ word = Unwritten => dma'.irq = dma.irq /\ dma'.sem = dma.sem
             /\ word \in Buffers \union { End, Unwritten }
  <2>1. word = Unwritten => Walk(d, word) = [ d EXCEPT !.wild = TRUE ]
    BY <1>2, <1>4, <1>6, WalkFields
  <2>2. word = Unwritten => dma'.irq = dma.irq /\ dma'.sem = dma.sem
    BY <1>2, <1>6, <2>1 DEF Engines
  <2> QED
    BY <1>2, <1>4, <1>6, <2>2, WalkFields
<1>7. dma' \in Engines /\ dma'.mem = dma.mem
  <2>1. CASE dma.irq
    BY <1>3, <1>6, <2>1
  <2>2. CASE ~dma.irq
    BY <1>2, <1>3, <2>2
  <2> QED
    BY <2>1, <2>2
<1>8. RenderTypes'
  BY <1>1, <1>3, <1>5, <1>7
     DEF RenderInv, RenderTypes, RenderTypeOK, ListEnds, Tasks, Displays, Engines, Lists
<1>9. Signals'
  <2>1. dma'.sem + (IF dma'.irq THEN 1 ELSE 0) = dma.sem + (IF dma.irq THEN 1 ELSE 0)
    <3>1. CASE dma.irq
      <4>1. PICK word \in Words(d) : dma' = Walk(d, word)
        BY <1>3, <3>1
      <4>2. dma.sem \in Nat
        BY <1>1 DEF Engines
      <4>3. CASE word = End
        <5>1. dma'.sem = dma.sem + 1 /\ ~dma'.irq
          BY <1>6, <4>1, <4>3
        <5> QED
          BY <3>1, <4>2, <5>1
      <4>4. CASE word \in Buffers
        <5>1. dma'.sem = dma.sem /\ dma'.irq
          BY <1>6, <4>1, <4>4
        <5> QED
          BY <3>1, <4>2, <5>1
      <4>5. CASE word = Unwritten
        <5>1. dma'.sem = dma.sem /\ (dma'.irq = dma.irq)
          BY <1>6, <4>1, <4>5
        <5> QED
          BY <3>1, <4>2, <5>1
      <4> QED
        BY <1>6, <4>1, <4>3, <4>4, <4>5
    <3>2. CASE ~dma.irq
      BY <1>2, <1>3, <3>2
    <3> QED
      BY <3>1, <3>2
  <2> QED
    BY <1>3, <2>1 DEF RenderInv, Signals
<1>10. Fresh'
  BY <1>3 DEF RenderInv, Fresh
<1>11. InTime'
  <2>1. SUFFICES ASSUME lcd.late = 0 PROVE InTime'
    BY <1>3 DEF InTime
  <2>2. /\ ~dma.astray /\ ~dma.wild /\ ListDrawn /\ lcd.at = "wait" /\ Works
        /\ ltdc.shown = 1 - lcd.draw /\ undone[ltdc.shown] = 0
    BY <1>1, <1>3, <2>1 DEF RenderInv, InTime, Rests, Tasks
  <2>3. /\ dma.op = lcd.draw /\ dma.irq /\ dma.sem = 0 /\ 2 <= dma.isr /\ dma.isr <= lcd.cur
        /\ undone[lcd.draw] = lcd.cur - dma.isr + 1 /\ dma.mem[lcd.cur] = End
    BY <1>3, <2>2 DEF Works
  <2>4. dma.isr \in Slots /\ dma.isr \in Nat /\ lcd.cur \in Slots /\ lcd.cur \in Nat
    BY <1>1 DEF Engines, Tasks, Slots
  <2>5. PICK word \in Words(d) : dma' = Walk(d, word)
    BY <1>3, <2>3
  <2>6. word = dma.mem[dma.isr]
    BY <1>2, <2>2, <2>5 DEF Words
  <2>7. ListDrawn'
    BY <1>3, <1>7, <2>2 DEF ListDrawn
  <2>8. undone'[lcd.draw] = lcd.cur - dma.isr
    BY <1>5, <2>3, <2>4
  <2>9. undone'[ltdc'.shown] = 0
    BY <1>3, <1>4, <1>5, <2>2, <2>3 DEF Buffers
  <2>10. Works' /\ ~dma'.astray /\ ~dma'.wild
    <3>1. CASE dma.isr = lcd.cur
      <4>1. word = End
        BY <2>3, <2>6, <3>1
      <4>2. dma'.isr = 1 /\ dma'.sem = 1 /\ ~dma'.irq /\ ~dma'.astray /\ dma'.op = None /\ ~dma'.wild
        <5>1. /\ dma'.isr = 1 /\ dma'.sem = dma.sem + 1 /\ ~dma'.irq /\ ~dma'.astray
              /\ dma'.op = None /\ dma'.wild = dma.wild
          BY <1>6, <2>5, <4>1, Zenon
        <5>2. ~dma'.wild
          BY <2>2, <5>1, Zenon
        <5>3. dma'.sem = 1
          BY <2>3, <5>1
        <5> QED
          BY <5>1, <5>2, <5>3
      <4>3. undone'[lcd.draw] = 0
        BY <2>3, <2>4, <2>8, <3>1
      <4>4. dma'.mem[lcd.cur] = End
        BY <1>7, <2>3
      <4> QED
        BY <1>3, <4>2, <4>3, <4>4 DEF Works
    <3>2. CASE dma.isr # lcd.cur
      <4>1. word = lcd.draw /\ word \in Buffers /\ word # None
        BY <1>4, <2>2, <2>3, <2>4, <2>6, <3>2 DEF ListDrawn, Buffers, None
      <4>2. /\ dma'.isr = dma.isr + 1 /\ dma'.irq /\ dma'.sem = 0 /\ ~dma'.astray /\ ~dma'.wild
            /\ dma'.op = lcd.draw
        BY <1>6, <2>2, <2>3, <2>5, <4>1
      <4>3. dma.isr + 1 \in Nat /\ 2 <= dma.isr + 1 /\ dma.isr + 1 <= lcd.cur
        BY <2>3, <2>4, <3>2
      <4>4. undone'[lcd.draw] = lcd.cur - (dma.isr + 1) + 1
        BY <2>4, <2>8
      <4>5. dma'.mem[lcd.cur] = End
        BY <1>7, <2>3
      <4> QED
        BY <1>3, <4>1, <4>2, <4>3, <4>4, <4>5 DEF Works
    <3> QED
      BY <3>1, <3>2
  <2> QED
    BY <1>3, <2>2, <2>7, <2>9, <2>10 DEF InTime
<1> QED
  BY <1>8, <1>9, <1>10, <1>11 DEF RenderInv

-----------------------------------------------------------------------------
LEMMA RenderNextInv == RenderInv /\ [RenderNext]_renderVars => RenderInv'
<1>1. RenderInv /\ UNCHANGED renderVars => RenderInv'
  BY DEF RenderInv, RenderTypes, RenderTypeOK, ListEnds, Signals, InTime, ListDrawn, Rests, Works, Fresh,
         renderVars
<1> QED
  BY <1>1, StartRenderInv, SyncInv, DrawInv, SendInv, OperationDoneInv, WaitInv, LineIrqInv
     DEF RenderNext, RenderTask

LEMMA RenderAlways == RenderInit /\ [][RenderNext]_renderVars => []RenderInv
BY RenderInitInv, RenderNextInv, PTL

\* The types of the rendering: the walk never leaves the list.
THEOREM RenderTypeCorrect == RenderInit /\ [][RenderNext]_renderVars => []RenderTypeOK
<1>1. RenderInv => RenderTypeOK
  BY DEF RenderInv, RenderTypes
<1> QED
  BY <1>1, RenderAlways, PTL

\* What is shown has every operation of its frame done, until a wait for the list times
\* out.
THEOREM ShownFramesAreComplete == RenderInit /\ [][RenderNext]_renderVars => []ShownIsComplete
<1>1. RenderInv => ShownIsComplete
  BY DEF RenderInv, InTime, ShownIsComplete
<1> QED
  BY <1>1, RenderAlways, PTL

\* The engine does not draw to the buffer scanned out, in a frame that began without an
\* old signal.
THEOREM FreshFramesDoNotTear == RenderInit /\ [][RenderNext]_renderVars => []NoTearing
<1>1. RenderInv => NoTearing
  <2> SUFFICES ASSUME RenderInv, lcd.fresh, lcd.late = 0 PROVE dma.op # ltdc.scan
    BY DEF NoTearing
  <2>1. lcd \in Tasks /\ ltdc \in Displays
    BY Typed DEF RenderInv, RenderTypes
  <2>2. CASE dma.op = None
    BY <2>1, <2>2 DEF Displays, Buffers, None
  <2>3. CASE dma.op # None
    <3>1. lcd.at = "wait" /\ dma.op = lcd.draw
      BY <2>3 DEF RenderInv, InTime, Rests, Works
    <3>2. ltdc.shown = 1 - lcd.draw /\ ltdc.scan = ltdc.shown
      BY <3>1 DEF RenderInv, InTime, Fresh
    <3> QED
      BY <2>1, <3>1, <3>2 DEF Tasks, Buffers
  <2> QED
    BY <2>2, <2>3
<1> QED
  BY <1>1, RenderAlways, PTL

\* No more signals are left between two waits than waits that timed out, and the handler
\* reads operations only as long as none did.
THEOREM SignalsAreAccounted == RenderInit /\ [][RenderNext]_renderVars => []SignalsAccounted
<1>1. RenderInv => SignalsAccounted
  <2> SUFFICES ASSUME RenderInv PROVE SignalsAccounted
    OBVIOUS
  <2>1. lcd \in Tasks /\ dma \in Engines
    BY Typed DEF RenderInv, RenderTypes
  <2>2. lcd.late \in Nat
    BY <2>1 DEF Tasks
  <2>3. lcd.late = 0 => ~dma.astray /\ ~dma.wild
    BY DEF RenderInv, InTime
  <2>4. lcd.at # "wait" /\ lcd.late < MaxLate => dma.sem + (IF dma.irq THEN 1 ELSE 0) <= lcd.late
    BY <2>1, <2>2 DEF RenderInv, Signals, Engines
  <2> QED
    BY <2>2, <2>3, <2>4 DEF SignalsAccounted
<1> QED
  BY <1>1, RenderAlways, PTL

-----------------------------------------------------------------------------
(* The log lines. *)

\* A call of info that makes the display follow has at least a displayful of lines.
Full(t) ==
  caller[t].at # "out" /\ caller[t].tail =>
    /\ mLastLine >= mNumDrawLines - 1
    /\ caller[t].at = "last" => caller[t].line >= mNumDrawLines - 1

RangeInv ==
  /\ ~past.torn => mFirstLine >= 0 /\ \A t \in Loggers : Full(t)
  /\ \A t \in Loggers : caller[t].at = "first" => caller[t].tail

\* One call of info at a time keeps the newest line shown: it knows at each of its
\* places whether it is going to move past the display.
Shows(t) ==
  /\ caller[t].at = "pick" =>
       /\ caller[t].tail = (mLastLine = mFirstLine + mNumDrawLines - 1)
       /\ mLastLine < mFirstLine + mNumDrawLines
  /\ caller[t].at = "last" /\ ~caller[t].tail => caller[t].line < mFirstLine + mNumDrawLines

NewestInv ==
  ~past.moved =>
    /\ \A t, u \in Logging : t = u
    /\ Logging = {} => mLastLine < mFirstLine + mNumDrawLines
    /\ \A t \in Loggers : Shows(t)

LinesInv == LinesTypeOK /\ RangeInv /\ NewestInv

\* The number of lines shown is one of those there are.
LEMMA DrawLines ==
  ASSUME mNumDrawLines \in DrawLineCounts
  PROVE  mNumDrawLines \in Int /\ 1 <= mNumDrawLines /\ mNumDrawLines <= mMaxLine /\ mMaxLine \in Int
BY LinesAssumption

LEMMA LinesInitInv == LinesInit => LinesInv
<1> SUFFICES ASSUME LinesInit PROVE LinesInv
  OBVIOUS
<1>1. mNumDrawLines \in DrawLineCounts
  BY LinesAssumption DEF LinesInit
<1>2. LinesTypeOK
  <2>1. caller \in [ Loggers -> [ at : { "out", "pick", "last", "first" },
                                 tail : BOOLEAN, line : 0 .. mMaxLine - 1 ] ]
    BY LinesAssumption DEF LinesInit, Outside
  <2>2. past \in [ torn : BOOLEAN, moved : BOOLEAN ]
    BY DEF LinesInit
  <2> QED
    BY <1>1, <2>1, <2>2, LinesAssumption DEF LinesInit, LinesTypeOK
<1>3. \A t \in Loggers : caller[t].at = "out"
  BY DEF LinesInit, Outside
<1> QED
  BY <1>1, <1>2, <1>3, DrawLines DEF LinesInit, LinesInv, RangeInv, NewestInv, Full, Shows, Logging

-----------------------------------------------------------------------------
(* The steps of info. *)

LEMMA AskInv == ASSUME LinesInv, NEW t \in Loggers, Ask(t) PROVE LinesInv'
<1> DEFINE r == [ caller[t] EXCEPT !.at = "pick",
                                   !.tail = (mLastLine = mFirstLine + mNumDrawLines - 1) ]
<1> USE DEF LinesInv, LinesTypeOK
<1>1. /\ r \in [ at : { "out", "pick", "last", "first" }, tail : BOOLEAN, line : 0 .. mMaxLine - 1 ]
      /\ r.at = "pick" /\ r.tail = (mLastLine = mFirstLine + mNumDrawLines - 1)
  OBVIOUS
<1>2. /\ caller' = [ caller EXCEPT ![t] = r ] /\ caller[t].at = "out"
      /\ past' = [ past EXCEPT !.moved = @ \/ Logging # {} ]
      /\ UNCHANGED << mFirstLine, mLastLine, mNumDrawLines >>
  BY DEF Ask
<1>3. caller'[t] = r /\ \A u \in Loggers : u # t => caller'[u] = caller[u]
  BY <1>2
<1>4. past'.torn = past.torn /\ past'.moved = (past.moved \/ Logging # {})
      /\ past' \in [ torn : BOOLEAN, moved : BOOLEAN ]
  BY <1>2
<1> HIDE DEF r
<1>5. LinesTypeOK'
  BY <1>1, <1>2, <1>4
<1>6. RangeInv'
  <2>1. ASSUME ~past.torn PROVE Full(t)'
    BY <1>1, <1>2, <1>3, <2>1, DrawLines DEF RangeInv, Full
  <2>2. ASSUME ~past.torn, NEW u \in Loggers, u # t PROVE Full(u)'
    BY <1>2, <1>3, <2>2 DEF RangeInv, Full
  <2> QED
    BY <1>1, <1>2, <1>3, <1>4, <2>1, <2>2 DEF RangeInv
<1>7. NewestInv'
  <2>1. SUFFICES ASSUME ~past'.moved
                 PROVE  /\ Logging' = { t }
                        /\ \A u \in Loggers : Shows(u)'
    BY DEF NewestInv
  <2>2. ~past.moved /\ Logging = {}
    BY <1>4, <2>1
  <2>3. \A u \in Loggers : u # t => caller'[u].at = "out"
    BY <1>3, <2>2 DEF Logging
  <2>4. Logging' = { t }
    BY <1>1, <1>3, <2>3 DEF Logging
  <2>5. Shows(t)'
    BY <1>1, <1>2, <1>3, <2>2 DEF NewestInv, Shows
  <2> QED
    BY <2>3, <2>4, <2>5 DEF Shows
<1> QED
  BY <1>5, <1>6, <1>7

LEMMA PickInv == ASSUME LinesInv, NEW t \in Loggers, Pick(t) PROVE LinesInv'
<1> DEFINE r == [ caller[t] EXCEPT !.at = "last", !.line = Smaller(mLastLine + 1, mMaxLine - 1) ]
<1> USE DEF LinesInv, LinesTypeOK
<1>1. /\ r \in [ at : { "out", "pick", "last", "first" }, tail : BOOLEAN, line : 0 .. mMaxLine - 1 ]
      /\ r.at = "last" /\ r.tail = caller[t].tail /\ r.line = Smaller(mLastLine + 1, mMaxLine - 1)
  <2>1. Smaller(mLastLine + 1, mMaxLine - 1) \in 0 .. mMaxLine - 1
    BY LinesAssumption DEF Smaller
  <2> QED
    BY <2>1
<1>2. /\ caller' = [ caller EXCEPT ![t] = r ] /\ caller[t].at = "pick"
      /\ UNCHANGED << mFirstLine, mLastLine, mNumDrawLines, past >>
  BY DEF Pick
<1>3. caller'[t] = r /\ \A u \in Loggers : u # t => caller'[u] = caller[u]
  BY <1>2
<1> HIDE DEF r
<1>5. LinesTypeOK'
  BY <1>1, <1>2
<1>6. RangeInv'
  <2>1. ASSUME ~past.torn PROVE Full(t)'
    <3>1. CASE caller[t].tail
      <4>1. mLastLine >= mNumDrawLines - 1
        BY <1>2, <2>1, <3>1 DEF RangeInv, Full
      <4>2. r.line >= mNumDrawLines - 1
        BY <1>1, <4>1, DrawLines DEF Smaller
      <4> QED
        BY <1>2, <1>3, <4>1, <4>2 DEF Full
    <3>2. CASE ~caller[t].tail
      BY <1>1, <1>3, <3>2 DEF Full
    <3> QED
      BY <3>1, <3>2
  <2>2. ASSUME ~past.torn, NEW u \in Loggers, u # t PROVE Full(u)'
    BY <1>2, <1>3, <2>2 DEF RangeInv, Full
  <2> QED
    BY <1>1, <1>2, <1>3, <2>1, <2>2 DEF RangeInv
<1>7. NewestInv'
  <2>1. Logging' = Logging /\ t \in Logging
    BY <1>1, <1>2, <1>3 DEF Logging
  <2>2. ASSUME ~past.moved PROVE Shows(t)'
    BY <1>1, <1>2, <1>3, <2>2, DrawLines DEF NewestInv, Shows, Smaller
  <2>3. ASSUME ~past.moved, NEW u \in Loggers, u # t PROVE Shows(u)'
    BY <1>2, <1>3, <2>3 DEF NewestInv, Shows
  <2> QED
    BY <1>2, <2>1, <2>2, <2>3 DEF NewestInv
<1> QED
  BY <1>5, <1>6, <1>7

LEMMA SetLastInv == ASSUME LinesInv, NEW t \in Loggers, SetLast(t) PROVE LinesInv'
<1> DEFINE r == IF caller[t].tail THEN [ caller[t] EXCEPT !.at = "first" ] ELSE Outside
<1> USE DEF LinesInv, LinesTypeOK
<1>1. /\ r \in [ at : { "out", "pick", "last", "first" }, tail : BOOLEAN, line : 0 .. mMaxLine - 1 ]
      /\ r.at = (IF caller[t].tail THEN "first" ELSE "out")
      /\ r.at = "first" => r.tail
      /\ caller[t].tail \in BOOLEAN /\ caller[t].line \in 0 .. mMaxLine - 1
  BY LinesAssumption DEF Outside
<1>2. /\ caller' = [ caller EXCEPT ![t] = r ] /\ caller[t].at = "last"
      /\ mLastLine' = caller[t].line
      /\ past' = [ past EXCEPT !.torn = @ \/ (caller[t].line < mLastLine /\ Following \ { t } # {}) ]
      /\ UNCHANGED << mFirstLine, mNumDrawLines >>
  BY DEF SetLast
<1>3. caller'[t] = r /\ \A u \in Loggers : u # t => caller'[u] = caller[u]
  BY <1>2
<1>4. /\ past'.torn = (past.torn \/ (caller[t].line < mLastLine /\ Following \ { t } # {}))
      /\ past'.moved = past.moved /\ past' \in [ torn : BOOLEAN, moved : BOOLEAN ]
  BY <1>2
<1> HIDE DEF r
<1>5. LinesTypeOK'
  BY <1>1, <1>2, <1>4, LinesAssumption
<1>6. RangeInv'
  <2>1. SUFFICES ASSUME ~past'.torn PROVE \A u \in Loggers : Full(u)'
    BY <1>1, <1>2, <1>3, <1>4 DEF RangeInv
  <2>2. Full(t)'
    BY <1>1, <1>2, <1>3, <1>4, <2>1, DrawLines DEF RangeInv, Full
  <2>3. ASSUME NEW u \in Loggers, u # t PROVE Full(u)'
    <3>1. SUFFICES ASSUME caller[u].at # "out", caller[u].tail
                   PROVE  mLastLine' >= mNumDrawLines - 1
      BY <1>2, <1>3, <1>4, <2>1, <2>3 DEF RangeInv, Full
    <3>2. u \in Following \ { t }
      BY <2>3, <3>1 DEF Following, Logging
    <3>3. caller[t].line >= mLastLine
      BY <1>1, <1>4, <2>1, <3>2
    <3>4. mLastLine >= mNumDrawLines - 1
      BY <1>4, <2>1, <3>1 DEF RangeInv, Full
    <3> QED
      BY <1>1, <1>2, <3>3, <3>4, DrawLines
  <2> QED
    BY <2>2, <2>3
<1>7. NewestInv'
  <2>1. SUFFICES ASSUME ~past.moved PROVE NewestInv'
    BY <1>4 DEF NewestInv
  <2>2. Logging = { t }
    BY <1>2, <2>1 DEF NewestInv, Logging
  <2>3. \A u \in Loggers : u # t => caller'[u].at = "out"
    BY <1>3, <2>2 DEF Logging
  <2>4. Logging' \in { {}, { t } }
    BY <2>3 DEF Logging
  <2>5. \A u \in Loggers : Shows(u)'
    BY <1>1, <1>3, <2>3 DEF Shows
  <2>6. ASSUME Logging' = {} PROVE mLastLine' < mFirstLine' + mNumDrawLines'
    <3>1. ~caller[t].tail
      BY <1>1, <1>3, <2>6 DEF Logging
    <3> QED
      BY <1>2, <2>1, <3>1 DEF NewestInv, Shows
  <2> QED
    BY <2>4, <2>5, <2>6 DEF NewestInv
<1> QED
  BY <1>5, <1>6, <1>7

LEMMA SetFirstInv == ASSUME LinesInv, NEW t \in Loggers, SetFirst(t) PROVE LinesInv'
<1> USE DEF LinesInv, LinesTypeOK
<1>1. Outside \in [ at : { "out", "pick", "last", "first" }, tail : BOOLEAN, line : 0 .. mMaxLine - 1 ]
      /\ Outside.at = "out"
  BY LinesAssumption DEF Outside
<1>2. /\ caller' = [ caller EXCEPT ![t] = Outside ] /\ caller[t].at = "first"
      /\ mFirstLine' = mLastLine - mNumDrawLines + 1
      /\ UNCHANGED << mLastLine, mNumDrawLines, past >>
  BY DEF SetFirst
<1>3. caller'[t] = Outside /\ \A u \in Loggers : u # t => caller'[u] = caller[u]
  BY <1>2
<1>5. LinesTypeOK'
  BY <1>1, <1>2, DrawLines
<1>6. ASSUME ~past.torn, caller[t].tail PROVE mFirstLine' >= 0
  BY <1>2, <1>6, DrawLines DEF RangeInv, Full
<1>7. RangeInv'
  <2>1. ASSUME NEW u \in Loggers, ~past.torn PROVE Full(u)'
    BY <1>1, <1>2, <1>3, <2>1 DEF RangeInv, Full
  <2> QED
    BY <1>1, <1>2, <1>3, <1>6, <2>1 DEF RangeInv
<1>8. NewestInv'
  <2>1. SUFFICES ASSUME ~past.moved PROVE NewestInv'
    BY <1>2 DEF NewestInv
  <2>2. Logging = { t }
    BY <1>2, <2>1 DEF NewestInv, Logging
  <2>3. \A u \in Loggers : caller'[u].at = "out"
    BY <1>1, <1>3, <2>2 DEF Logging
  <2>4. Logging' = {}
    BY <2>3 DEF Logging
  <2>5. \A u \in Loggers : Shows(u)'
    BY <2>3 DEF Shows
  <2>6. mLastLine' < mFirstLine' + mNumDrawLines'
    BY <1>2, DrawLines
  <2> QED
    BY <2>4, <2>5, <2>6 DEF NewestInv
<1> QED
  BY <1>5, <1>7, <1>8

-----------------------------------------------------------------------------
(* The steps of the main task. *)

\* Logging and Following depend on the callers only.
LEMMA CallersKept ==
  ASSUME UNCHANGED caller PROVE UNCHANGED << Logging, Following >>
BY DEF Following, Logging

LEMMA ScrollInv == LinesInv /\ (Scroll \/ displayTop \/ displayTail) => LinesInv'
<1> SUFFICES ASSUME LinesInv, Scroll \/ displayTop \/ displayTail PROVE LinesInv'
  OBVIOUS
<1> USE DEF LinesInv, LinesTypeOK
<1>1. /\ mFirstLine' \in 0 .. mMaxLine - 1
      /\ UNCHANGED << mLastLine, mNumDrawLines, caller >>
      /\ past'.torn = past.torn /\ past' \in [ torn : BOOLEAN, moved : BOOLEAN ]
  <2>1. CASE Scroll
    <3>1. mFirstLine' \in 0 .. mMaxLine - 1
      <4>1. CASE mLastLine <= mNumDrawLines - 1
        BY <2>1, <4>1, DrawLines DEF Scroll
      <4>2. CASE ~(mLastLine <= mNumDrawLines - 1)
        BY <2>1, <4>2, DrawLines DEF Scroll
      <4> QED
        BY <4>1, <4>2
    <3> QED
      BY <2>1, <3>1 DEF Scroll, Moved
  <2>2. CASE displayTop
    <3>1. 0 \in 0 .. mMaxLine - 1
      BY LinesAssumption
    <3> QED
      BY <2>2, <3>1 DEF displayTop, Moved
  <2>3. CASE displayTail
    <3>1. mFirstLine' = (IF mLastLine > mNumDrawLines - 1 THEN mLastLine - mNumDrawLines + 1 ELSE 0)
      BY <2>3 DEF displayTail
    <3>2. mFirstLine' \in 0 .. mMaxLine - 1
      BY <3>1, DrawLines, LinesAssumption
    <3> QED
      BY <2>3, <3>2 DEF displayTail
  <2> QED
    BY <2>1, <2>2, <2>3
<1>2. LinesTypeOK'
  BY <1>1, DrawLines
<1>3. RangeInv'
  <2>1. ASSUME NEW u \in Loggers, Full(u) PROVE Full(u)'
    BY <1>1, <2>1 DEF Full
  <2> QED
    BY <1>1, <2>1 DEF RangeInv
<1>4. NewestInv'
  <2>1. SUFFICES ASSUME ~past'.moved PROVE NewestInv'
    BY DEF NewestInv
  <2>2. Logging = {} /\ mLastLine < mFirstLine' + mNumDrawLines
    <3>1. displayTail /\ Logging = {}
      BY <2>1 DEF Scroll, displayTop, displayTail, Moved
    <3> QED
      BY <3>1, DrawLines DEF displayTail
  <2>3. Logging' = {}
    BY <1>1, <2>2, CallersKept
  <2>4. \A u \in Loggers : Shows(u)'
    BY <2>3 DEF Shows, Logging
  <2> QED
    BY <1>1, <2>2, <2>3, <2>4 DEF NewestInv
<1> QED
  BY <1>2, <1>3, <1>4

LEMMA ResetInv == LinesInv /\ reset => LinesInv'
<1> SUFFICES ASSUME LinesInv, reset PROVE LinesInv'
  OBVIOUS
<1> USE DEF LinesInv, LinesTypeOK
<1>1. /\ mFirstLine' = 0 /\ mLastLine' = -1 /\ UNCHANGED << mNumDrawLines, caller >>
      /\ past'.torn = (Following # {}) /\ past'.moved = (Logging # {})
      /\ past' \in [ torn : BOOLEAN, moved : BOOLEAN ]
  BY DEF reset
<1>2. LinesTypeOK'
  BY <1>1, DrawLines
<1>3. RangeInv'
  <2>1. ASSUME Following = {}, NEW u \in Loggers PROVE Full(u)'
    BY <1>1, <2>1 DEF Full, Following, Logging
  <2> QED
    BY <1>1, <2>1 DEF RangeInv
<1>4. NewestInv'
  <2>1. SUFFICES ASSUME Logging = {} PROVE NewestInv'
    BY <1>1 DEF NewestInv
  <2>2. Logging' = {}
    BY <1>1, <2>1, CallersKept
  <2>3. \A u \in Loggers : Shows(u)'
    BY <2>2 DEF Shows, Logging
  <2> QED
    BY <1>1, <2>2, <2>3, DrawLines DEF NewestInv
<1> QED
  BY <1>2, <1>3, <1>4

LEMMA SetShowDebugInv == LinesInv /\ setShowDebug => LinesInv'
<1> SUFFICES ASSUME LinesInv, setShowDebug PROVE LinesInv'
  OBVIOUS
<1> USE DEF LinesInv, LinesTypeOK
<1>1. /\ Logging = {} /\ mNumDrawLines' \in DrawLineCounts
      /\ past'.torn = past.torn /\ past'.moved /\ past' \in [ torn : BOOLEAN, moved : BOOLEAN ]
      /\ UNCHANGED << mFirstLine, mLastLine, caller >>
  BY DEF setShowDebug, Moved
<1>2. \A u \in Loggers : caller'[u].at = "out"
  BY <1>1 DEF Logging
<1>3. RangeInv'
  BY <1>1, <1>2 DEF RangeInv, Full
<1> QED
  BY <1>1, <1>3 DEF NewestInv

-----------------------------------------------------------------------------
LEMMA LinesNextInv == LinesInv /\ [LinesNext]_linesVars => LinesInv'
<1>1. LinesInv /\ UNCHANGED linesVars => LinesInv'
  BY DEF LinesInv, LinesTypeOK, RangeInv, Full, NewestInv, Shows, Logging, linesVars
<1> QED
  BY <1>1, AskInv, PickInv, SetLastInv, SetFirstInv, ScrollInv, ResetInv, SetShowDebugInv DEF LinesNext

LEMMA LinesAlways == LinesInit /\ [][LinesNext]_linesVars => []LinesInv
BY LinesInitInv, LinesNextInv, PTL

\* The types of the log lines.
THEOREM LinesTypeCorrect == LinesInit /\ [][LinesNext]_linesVars => []LinesTypeOK
<1>1. LinesInv => LinesTypeOK
  BY DEF LinesInv
<1> QED
  BY <1>1, LinesAlways, PTL

\* The lines that endRender draws are lines of mLines, however many tasks log at once,
\* but for the races that LinesInRange names.
THEOREM DrawnLinesExist == LinesInit /\ [][LinesNext]_linesVars => []LinesInRange
<1>1. LinesInv => LinesInRange
  BY DrawLines DEF LinesInv, LinesTypeOK, RangeInv, LinesInRange, Drawn, Smaller
<1> QED
  BY <1>1, LinesAlways, PTL

\* The newest line is on the display when nobody is in info.
THEOREM NewestLineShown == LinesInit /\ [][LinesNext]_linesVars => []NewestIsShown
<1>1. LinesInv => NewestIsShown
  BY DEF LinesInv, NewestInv, NewestIsShown
<1> QED
  BY <1>1, LinesAlways, PTL

-----------------------------------------------------------------------------
(* Mp3Player, for any number of files and frames: its types, that what the user      *)
(* touches is done, and that the wave form is that of the file it is taken for.      *)

\* How far the wave task is.
Loading ==
  /\ wave.at = "open" => mWaveLoadFrame = 0
  /\ wave.at \in { "load", "count" } => wave.file \in Files
  /\ wave.at = "count" => mWaveLoadFrame < NumFrames /\ offsetOf[mWaveLoadFrame] = wave.file

\* A choice that was not raced with stays the index until it is opened, and the
\* play task will see the flag before it advances.
ChoiceKept ==
  touch.choice # NoFile /\ ~touch.raced =>
    /\ fileIndex = touch.choice
    /\ play.at # "advance"
    /\ touch.at # "set" => fileIndexChanged \/ play.at \in { "reset", "open", "crashed" }

\* The flag of a position touched stands, and is not about to be cleared.
SeekKept == touch.seek /\ touch.at # "moved" => mWaveChanged /\ play.at # "seeked"

\* The count is the frame touched, or one more when the play task has counted and
\* looks, which it does only when the flag stands.
FrameKept ==
  touch.seek /\ ~touch.spoilt =>
    \/ mMp3PlayFrame = touch.frame /\ (play.at = "store" => play.count = touch.frame)
    \/ /\ touch.at # "moved" /\ play.at \in { "look", "seek", "crashed" }
       /\ mMp3PlayFrame = Counted(touch.frame)

LoadInv == Mp3TypeOK /\ Loading /\ TableIsOfOneFile
TouchInv == ChoiceKept /\ SeekKept /\ FrameKept
Mp3Inv == LoadInv /\ TouchInv /\ WaveIsOfTheFile

LEMMA Mp3InitInv == Mp3Init => Mp3Inv
<1> SUFFICES ASSUME Mp3Init PROVE Mp3Inv
  OBVIOUS
<1>1. /\ play \in Plays
      /\ wave \in Waves
      /\ touch \in Touches
  BY Mp3Assumption DEF Mp3Init, NoFile, Plays, Waves, Touches
<1>2. Mp3TypeOK
  <2>1. 0 \in 0 .. NumFrames /\ 0 \in 0 .. NumFiles
    BY Mp3Assumption
  <2>2. offsetOf \in [ Frames -> Files \union { NoFile } ]
    BY DEF Mp3Init
  <2> QED
    BY <1>1, <2>1, <2>2 DEF Mp3Init, Mp3TypeOK
<1>3. Loading /\ TableIsOfOneFile /\ TouchInv /\ WaveIsOfTheFile
  BY DEF Mp3Init, Loading, TableIsOfOneFile, TouchInv, ChoiceKept, SeekKept, FrameKept, WaveIsOfTheFile
<1> QED
  BY <1>2, <1>3 DEF Mp3Inv, LoadInv

-----------------------------------------------------------------------------
(* Types, and the table of the wave task. *)

LEMMA SetFileIndexType ==
  ASSUME LoadInv, NEW index \in 0 .. NumFiles, SetFileIndex(index, wave.at)
  PROVE  /\ fileIndex' \in 0 .. NumFiles
         /\ wave' = [ wave EXCEPT !.back = wave'.back ]
         /\ wave'.back \in BOOLEAN
BY DEF LoadInv, Mp3TypeOK, SetFileIndex, Waves

\* The table is the wave task's: a step of another task leaves it.
LEMMA PlayMoves ==
  ASSUME LoadInv, UNCHANGED << fileIndex, mWaveLoadFrame, offsetOf, wave >>,
         fileIndexChanged' \in BOOLEAN, mWaveChanged' \in BOOLEAN,
         mMp3PlayFrame' \in 0 .. NumFrames, play' \in Plays, touch' \in Touches
  PROVE  LoadInv'
<1>1. Mp3TypeOK'
  BY DEF LoadInv, Mp3TypeOK
<1>2. Loading' /\ TableIsOfOneFile'
  BY DEF LoadInv, Loading, TableIsOfOneFile
<1> QED
  BY <1>1, <1>2 DEF LoadInv

LEMMA TouchForms ==
  ASSUME Mp3TypeOK
  PROVE  NoSeek \in Touches /\ Spoil \in Touches
<1>1. 0 \in 0 .. NumFrames /\ touch \in Touches
  BY Mp3Assumption DEF Mp3TypeOK
<1>2. NoSeek \in Touches
  BY <1>1 DEF Touches, NoSeek
<1>3. Spoil \in Touches
  BY <1>1 DEF Touches, Spoil
<1> QED
  BY <1>2, <1>3

LEMMA PlayForms ==
  ASSUME Mp3TypeOK, NEW place \in { "mount", "gone", "reset", "open", "frame", "store", "look",
                                    "seek", "seeked", "next", "advance", "clear", "crashed" }
  PROVE  /\ PlayAt(place) => play' \in Plays /\ play'.at = place
         /\ LeaveFile(place) => play' \in Plays /\ play'.at = place
<1>1. 0 \in 0 .. NumFrames /\ play \in Plays
  BY Mp3Assumption DEF Mp3TypeOK
<1> QED
  BY <1>1 DEF Plays, PlayAt, LeaveFile

LEMMA PlayLoadInv == LoadInv /\ PlayTask => LoadInv'
<1> SUFFICES ASSUME LoadInv, PlayTask PROVE LoadInv'
  OBVIOUS
<1> USE Mp3Assumption
<1>T. Mp3TypeOK
  BY DEF LoadInv
<1>1. CASE Mount
  <2>1. play' \in Plays
    BY <1>1, <1>T, PlayForms DEF Mount
  <2>2. wave' \in Waves /\ (wave' = wave \/ (wave'.at = "read" /\ wave'.file = wave.file))
    <3>1. wave \in Waves /\ NoFile \in 0 .. NoFile
      BY <1>T DEF Mp3TypeOK, NoFile
    <3>2. wave' = wave \/ wave' = AnotherFile
      BY <1>1 DEF Mount
    <3> QED
      BY <3>1, <3>2 DEF AnotherFile, Waves
  <2>3. UNCHANGED << fileIndex, fileIndexChanged, mWaveChanged, mMp3PlayFrame, mWaveLoadFrame,
                     offsetOf, touch >>
    BY <1>1 DEF Mount
  <2> QED
    BY <2>1, <2>2, <2>3 DEF LoadInv, Mp3TypeOK, Loading, TableIsOfOneFile
<1>2. CASE PlayReset
  BY <1>2, <1>T, PlayForms, PlayMoves, TouchForms DEF PlayReset, Mp3TypeOK
<1>3. CASE PlayOpen
  <2>1. play' \in Plays
    <3>1. 0 \in 0 .. NumFrames /\ play \in Plays
      BY <1>T DEF Mp3TypeOK
    <3> QED
      BY <1>3, <3>1 DEF PlayOpen, Crash, PlayAt, Plays
  <2>2. touch' \in Touches
    BY <1>3, <1>T DEF PlayOpen, Crash, Touches, Mp3TypeOK
  <2>3. UNCHANGED << fileIndex, fileIndexChanged, mWaveChanged, mMp3PlayFrame, mWaveLoadFrame,
                     offsetOf, wave >>
    BY <1>3 DEF PlayOpen, Crash
  <2> QED
    BY <1>T, <2>1, <2>2, <2>3, PlayMoves DEF Mp3TypeOK
<1>4. CASE PlayFrame
  <2>1. play' \in Plays
    BY <1>4, <1>T, PlayForms DEF PlayFrame, Plays, Mp3TypeOK
  <2>2. UNCHANGED << fileIndex, fileIndexChanged, mWaveChanged, mMp3PlayFrame, mWaveLoadFrame,
                     offsetOf, wave, touch >>
    BY <1>4 DEF PlayFrame
  <2> QED
    BY <1>T, <2>1, <2>2, PlayMoves DEF Mp3TypeOK
<1>5. CASE PlayStore
  <2>1. play' \in Plays /\ mMp3PlayFrame' \in 0 .. NumFrames
    <3>1. 0 \in 0 .. NumFrames /\ play \in Plays
      BY <1>T DEF Mp3TypeOK
    <3>2. play.count \in 0 .. NumFrames
      BY <3>1 DEF Plays
    <3>3. Counted(play.count) \in 0 .. NumFrames
      BY <3>2 DEF Counted
    <3> QED
      BY <1>5, <3>1, <3>3 DEF PlayStore, Plays
  <2>2. touch' \in Touches
    BY <1>5, <1>T, TouchForms DEF PlayStore, Mp3TypeOK
  <2>3. UNCHANGED << fileIndex, fileIndexChanged, mWaveChanged, mWaveLoadFrame, offsetOf, wave >>
    BY <1>5 DEF PlayStore
  <2> QED
    BY <1>T, <2>1, <2>2, <2>3, PlayMoves DEF Mp3TypeOK
<1>6. CASE PlayLook
  <2>1. play' \in Plays
    BY <1>6, <1>T, PlayForms DEF PlayLook
  <2>2. UNCHANGED << fileIndex, fileIndexChanged, mWaveChanged, mMp3PlayFrame, mWaveLoadFrame,
                     offsetOf, wave, touch >>
    BY <1>6 DEF PlayLook
  <2> QED
    BY <1>T, <2>1, <2>2, PlayMoves DEF Mp3TypeOK
<1>7. CASE Seek
  <2>1. play' \in Plays
    BY <1>7, <1>T DEF Seek, Plays, Mp3TypeOK
  <2>2. UNCHANGED << fileIndex, fileIndexChanged, mWaveChanged, mMp3PlayFrame, mWaveLoadFrame,
                     offsetOf, wave >> /\ touch' = NoSeek
    BY <1>7 DEF Seek
  <2> QED
    BY <1>T, <2>1, <2>2, PlayMoves, TouchForms DEF Mp3TypeOK
<1>8. CASE SeekClear
  <2>1. play' \in Plays
    BY <1>8, <1>T, PlayForms DEF SeekClear
  <2> QED
    BY <1>8, <1>T, <2>1, PlayMoves DEF SeekClear, Mp3TypeOK
<1>9. CASE PlayNext
  <2>1. play' \in Plays
    BY <1>9, <1>T, PlayForms DEF PlayNext
  <2>2. touch' \in Touches
    BY <1>9, <1>T DEF PlayNext, Mp3TypeOK, Touches
  <2> QED
    BY <1>9, <1>T, <2>1, <2>2, PlayMoves DEF PlayNext, Mp3TypeOK
<1>10. CASE PlayAdvance
  <2>1. PICK index \in 0 .. NumFiles : SetFileIndex(index, wave.at)
    BY <1>10, <1>T DEF PlayAdvance, Mp3TypeOK
  <2>2. /\ fileIndex' \in 0 .. NumFiles
        /\ wave' = [ wave EXCEPT !.back = wave'.back ] /\ wave'.back \in BOOLEAN
    BY <2>1, SetFileIndexType
  <2>3. wave' \in Waves /\ wave'.at = wave.at /\ wave'.file = wave.file
    BY <2>2, <1>T DEF Waves, Mp3TypeOK
  <2>4. play' \in Plays
    BY <1>10, <1>T, PlayForms DEF PlayAdvance
  <2>5. UNCHANGED << fileIndexChanged, mWaveChanged, mMp3PlayFrame, mWaveLoadFrame, offsetOf, touch >>
    BY <1>10 DEF PlayAdvance
  <2> QED
    BY <2>2, <2>3, <2>4, <2>5 DEF LoadInv, Mp3TypeOK, Loading, TableIsOfOneFile
<1>11. CASE PlayClear
  <2>1. play' \in Plays
    BY <1>11, <1>T, PlayForms DEF PlayClear
  <2> QED
    BY <1>11, <1>T, <2>1, PlayMoves DEF PlayClear, Mp3TypeOK
<1> QED
  BY <1>1, <1>2, <1>3, <1>4, <1>5, <1>6, <1>7, <1>8, <1>9, <1>10, <1>11 DEF PlayTask

LEMMA WaveLoadInv == LoadInv /\ WaveTask => LoadInv'
<1> SUFFICES ASSUME LoadInv, WaveTask PROVE LoadInv'
  OBVIOUS
<1> USE Mp3Assumption DEF LoadInv, Mp3TypeOK, Loading, TableIsOfOneFile, Waves
<1>1. CASE WaveRead
  <2>1. wave' \in Waves
        /\ wave'.at = "open" /\ wave'.file = NoFile
    BY <1>1 DEF WaveRead, NoFile
  <2>2. offsetOf' \in [ Frames -> Files \union { NoFile } ]
    BY <1>1 DEF WaveRead
  <2> QED
    BY <1>1, <2>1, <2>2 DEF WaveRead
<1>2. CASE WaveOpen
  <2>1. play' \in Plays
    BY <1>2 DEF WaveOpen, Crash, PlayAt, Plays
  <2>2. /\ wave' \in Waves
        /\ wave'.at \in { "load", "idle", "open" }
        /\ wave'.at = "load" => wave'.file \in Files
    BY <1>2 DEF WaveOpen, Crash, PlayAt, Plays
  <2>3. /\ UNCHANGED << fileIndex, fileIndexChanged, mWaveChanged, mMp3PlayFrame, mWaveLoadFrame, offsetOf, touch >>
        /\ mWaveLoadFrame = 0
    BY <1>2 DEF WaveOpen, Crash, PlayAt, Plays
  <2>4. \A f \in Frames : ~(f < mWaveLoadFrame')
    BY <2>3 DEF Frames
  <2> QED
    BY <2>1, <2>2, <2>3, <2>4
<1>3. CASE WaveOffset
  <2>1. /\ mWaveLoadFrame \in Frames /\ wave.file \in Files /\ wave.at = "load"
        /\ offsetOf' = [ offsetOf EXCEPT ![mWaveLoadFrame] = wave.file ]
        /\ wave' = [ wave EXCEPT !.at = "count" ]
        /\ UNCHANGED << fileIndex, fileIndexChanged, mWaveChanged, mMp3PlayFrame, mWaveLoadFrame, play, touch >>
    BY <1>3 DEF WaveOffset, Frames
  <2>2. offsetOf' \in [ Frames -> Files \union { NoFile } ] /\ offsetOf'[mWaveLoadFrame] = wave.file
    BY <2>1
  <2>3. \A f \in Frames : f < mWaveLoadFrame => offsetOf'[f] = offsetOf[f]
    BY <2>1 DEF Frames
  <2>4. wave' \in Waves /\ wave'.at = "count" /\ wave'.file = wave.file
    BY <2>1
  <2>5. Mp3TypeOK'
    BY <2>1, <2>2, <2>4
  <2>6. Loading'
    BY <2>1, <2>2, <2>4 DEF Frames
  <2>7. TableIsOfOneFile'
    BY <2>1, <2>3, <2>4 DEF Files, NoFile
  <2> QED
    BY <2>5, <2>6, <2>7
<1>4. CASE WaveCount
  BY <1>4 DEF WaveCount, Frames
<1>5. CASE WaveEnd
  BY <1>5 DEF WaveEnd
<1>6. CASE WaveAgain
  <2>1. wave' \in Waves /\ wave'.at = "read" /\ wave'.file = wave.file
    <3>1. wave \in Waves /\ NoFile \in 0 .. NoFile
      BY DEF NoFile
    <3> QED
      BY <1>6, <3>1 DEF WaveAgain, AnotherFile
  <2> QED
    BY <1>6, <2>1 DEF WaveAgain
<1> QED
  BY <1>1, <1>2, <1>3, <1>4, <1>5, <1>6 DEF WaveTask

LEMMA TouchLoadInv == LoadInv /\ (TouchFile \/ TouchFlag \/ TouchFrame \/ TouchWave) => LoadInv'
<1> SUFFICES ASSUME LoadInv, TouchFile \/ TouchFlag \/ TouchFrame \/ TouchWave PROVE LoadInv'
  OBVIOUS
<1> USE Mp3Assumption
<1>T. Mp3TypeOK
  BY DEF LoadInv
<1>1. CASE TouchFile
  <2>1. PICK file \in Files :
          /\ SetFileIndex(file, wave.at)
          /\ touch' = [ touch EXCEPT !.at = "set", !.choice = file, !.raced = (play.at = "advance") ]
    BY <1>1 DEF TouchFile
  <2>2. file \in 0 .. NumFiles
    BY DEF Files
  <2>3. /\ fileIndex' \in 0 .. NumFiles
        /\ wave' = [ wave EXCEPT !.back = wave'.back ] /\ wave'.back \in BOOLEAN
    BY <2>1, <2>2, SetFileIndexType
  <2>4. wave' \in Waves /\ wave'.at = wave.at /\ wave'.file = wave.file
    BY <2>3, <1>T DEF Waves, Mp3TypeOK
  <2>5. touch' \in Touches
    BY <2>1, <1>T DEF Touches, Mp3TypeOK
  <2>6. UNCHANGED << fileIndexChanged, mWaveChanged, mMp3PlayFrame, mWaveLoadFrame, offsetOf, play >>
    BY <1>1 DEF TouchFile
  <2> QED
    BY <2>3, <2>4, <2>5, <2>6 DEF LoadInv, Mp3TypeOK, Loading, TableIsOfOneFile
<1>2. CASE TouchFlag
  <2>1. touch' \in Touches
    BY <1>2, <1>T DEF TouchFlag, Touches, Mp3TypeOK
  <2> QED
    BY <1>2, <1>T, <2>1, PlayMoves DEF TouchFlag, Mp3TypeOK
<1>3. CASE TouchFrame
  <2>1. touch' \in Touches /\ mMp3PlayFrame' \in 0 .. NumFrames
    <3>1. 0 \in 0 .. NumFrames /\ touch \in Touches /\ Frames \subseteq 0 .. NumFrames
      BY <1>T DEF Mp3TypeOK, Frames
    <3> QED
      BY <1>3, <3>1 DEF TouchFrame, Spoil, Touches
  <2> QED
    BY <1>3, <1>T, <2>1, PlayMoves DEF TouchFrame, Mp3TypeOK
<1>4. CASE TouchWave
  <2>1. touch' \in Touches
    <3>1. NoSeek \in Touches /\ touch \in Touches
      BY <1>T, TouchForms DEF Mp3TypeOK
    <3> QED
      BY <1>4, <3>1 DEF TouchWave, Touches
  <2> QED
    BY <1>4, <1>T, <2>1, PlayMoves DEF TouchWave, Mp3TypeOK
<1> QED
  BY <1>1, <1>2, <1>3, <1>4

-----------------------------------------------------------------------------
(* What the user touches, and the file of the wave form. *)

LEMMA NextTouchInv == LoadInv /\ TouchInv /\ Mp3Next => TouchInv'
<1> SUFFICES ASSUME LoadInv, TouchInv, Mp3Next PROVE TouchInv'
  OBVIOUS
<1> USE DEF LoadInv, Mp3TypeOK, TouchInv, ChoiceKept, SeekKept, FrameKept, PlayAt, LeaveFile,
            NoSeek, Spoil, Plays, Touches
<1>1. CASE Mount
  BY <1>1 DEF Mount
<1>2. CASE PlayReset
  BY <1>2 DEF PlayReset
<1>3. CASE PlayOpen
  BY <1>3 DEF PlayOpen, Crash
<1>4. CASE PlayFrame
  <2>1. UNCHANGED << fileIndex, fileIndexChanged, mWaveChanged, mMp3PlayFrame, touch >>
    BY <1>4 DEF PlayFrame
  <2>2. /\ play.at = "frame"
        /\ play'.at \in { "look", "next" } \/ (play'.at = "store" /\ play'.count = mMp3PlayFrame)
    <3>1. CASE LeaveFile("next")
      BY <1>4, <3>1, PlayForms DEF PlayFrame
    <3>2. CASE play' = [ at |-> "store", position |-> play.position + 1, count |-> mMp3PlayFrame ]
      BY <1>4, <3>2 DEF PlayFrame
    <3>3. CASE play' = [ at |-> "look", position |-> play.position + 1, count |-> 0 ]
      BY <1>4, <3>3 DEF PlayFrame
    <3> QED
      BY <1>4, <3>1, <3>2, <3>3 DEF PlayFrame
  <2>3. ChoiceKept' /\ SeekKept'
    BY <2>1, <2>2
  <2>4. FrameKept'
    BY <2>1, <2>2
  <2> QED
    BY <2>3, <2>4
<1>5. CASE PlayStore
  BY <1>5 DEF PlayStore
<1>6. CASE PlayLook
  BY <1>6 DEF PlayLook
<1>7. CASE Seek
  BY <1>7 DEF Seek
<1>8. CASE SeekClear
  BY <1>8 DEF SeekClear
<1>9. CASE PlayNext
  BY <1>9 DEF PlayNext
<1>10. CASE PlayAdvance
  BY <1>10 DEF PlayAdvance, SetFileIndex
<1>11. CASE PlayClear
  BY <1>11 DEF PlayClear
<1>12. CASE WaveTask
  <2>1. CASE WaveOpen
    <3>1. UNCHANGED << fileIndex, fileIndexChanged, mWaveChanged, mMp3PlayFrame, touch >>
      BY <2>1 DEF WaveOpen, Crash
    <3>2. play' = play \/ play'.at = "crashed"
      BY <2>1 DEF WaveOpen, Crash
    <3>3. play.at # "crashed"
      BY <2>1 DEF WaveOpen
    <3> QED
      BY <3>1, <3>2, <3>3
  <2>2. CASE ~WaveOpen
    BY <1>12, <2>2 DEF WaveTask, WaveRead, WaveOffset, WaveCount, WaveEnd, WaveAgain
  <2> QED
    BY <2>1, <2>2
<1>13. CASE TouchFile
  BY <1>13 DEF TouchFile, SetFileIndex
<1>14. CASE TouchFlag
  BY <1>14 DEF TouchFlag
<1>15. CASE TouchFrame
  BY <1>15 DEF TouchFrame
<1>16. CASE TouchWave
  BY <1>16 DEF TouchWave
<1> QED
  BY <1>1, <1>2, <1>3, <1>4, <1>5, <1>6, <1>7, <1>8, <1>9, <1>10, <1>11, <1>12, <1>13, <1>14,
     <1>15, <1>16 DEF Mp3Next, PlayTask

LEMMA NextWaveFile == LoadInv /\ WaveIsOfTheFile /\ Mp3Next => WaveIsOfTheFile'
<1> SUFFICES ASSUME LoadInv, WaveIsOfTheFile, Mp3Next PROVE WaveIsOfTheFile'
  OBVIOUS
<1> USE DEF LoadInv, Mp3TypeOK, WaveIsOfTheFile, PlayAt, Waves
<1>1. CASE PlayReset \/ PlayOpen \/ PlayFrame \/ PlayStore \/ PlayLook \/ Seek
  BY <1>1 DEF PlayReset, PlayOpen, PlayFrame, PlayStore, PlayLook, Seek, Crash
<1>2. CASE SeekClear \/ PlayNext \/ PlayClear \/ TouchFlag \/ TouchFrame \/ TouchWave
  BY <1>2 DEF SeekClear, PlayNext, PlayClear, TouchFlag, TouchFrame, TouchWave
<1>3. CASE PlayAdvance
  BY <1>3 DEF PlayAdvance, SetFileIndex
<1>4. CASE TouchFile
  BY <1>4 DEF TouchFile, SetFileIndex
<1>5. CASE WaveOpen
  <2>1. fileIndex' = fileIndex
    BY <1>5 DEF WaveOpen, Crash
  <2>2. wave'.file = fileIndex \/ (wave'.file = wave.file /\ wave'.loaded = wave.loaded
                                  /\ wave'.back = wave.back)
    <3>1. CASE wave' = [ wave EXCEPT !.at = "load", !.file = fileIndex ]
      BY <3>1
    <3>2. CASE wave' = [ wave EXCEPT !.at = "idle" ] \/ wave' = wave
      BY <3>2
    <3> QED
      BY <1>5, <3>1, <3>2 DEF WaveOpen, Crash
  <2> QED
    BY <2>1, <2>2
<1>6. CASE WaveRead \/ WaveOffset \/ WaveCount \/ WaveEnd
  <2>1. CASE WaveRead
    BY <2>1 DEF WaveRead
  <2>2. CASE WaveOffset
    BY <2>2 DEF WaveOffset
  <2>3. CASE WaveCount
    BY <2>3 DEF WaveCount
  <2>4. CASE WaveEnd
    BY <2>4 DEF WaveEnd
  <2> QED
    BY <1>6, <2>1, <2>2, <2>3, <2>4
<1>7. CASE Mount \/ WaveAgain
  <2>1. fileIndex' = fileIndex /\ fileIndex # NoFile
    BY <1>7, Mp3Assumption DEF Mount, WaveAgain, NoFile
  <2>2. wave' = wave \/ wave' = AnotherFile
    BY <1>7 DEF Mount, WaveAgain
  <2>3. CASE wave' = AnotherFile
    BY <2>1, <2>3 DEF AnotherFile
  <2> QED
    BY <2>1, <2>2, <2>3
<1> QED
  BY <1>1, <1>2, <1>3, <1>4, <1>5, <1>6, <1>7 DEF Mp3Next, PlayTask, WaveTask

LEMMA Mp3NextInv == Mp3Inv /\ [Mp3Next]_mp3Vars => Mp3Inv'
<1>1. Mp3Inv /\ UNCHANGED mp3Vars => Mp3Inv'
  BY DEF Mp3Inv, LoadInv, TouchInv, Mp3TypeOK, Loading, TableIsOfOneFile, ChoiceKept, SeekKept, FrameKept,
         WaveIsOfTheFile, mp3Vars
<1>2. Mp3Inv /\ Mp3Next => Mp3Inv'
  BY PlayLoadInv, WaveLoadInv, TouchLoadInv, NextTouchInv, NextWaveFile DEF Mp3Inv, Mp3Next
<1> QED
  BY <1>1, <1>2

LEMMA Mp3Always == Mp3Init /\ [][Mp3Next]_mp3Vars => []Mp3Inv
BY Mp3InitInv, Mp3NextInv, PTL

-----------------------------------------------------------------------------
\* The types of the MP3 player.
THEOREM Mp3TypeCorrect == Mp3Init /\ [][Mp3Next]_mp3Vars => []Mp3TypeOK
<1>1. Mp3Inv => Mp3TypeOK
  BY DEF Mp3Inv, LoadInv
<1> QED
  BY <1>1, Mp3Always, PTL

\* What is touched is done, however the three tasks interleave, but for the
\* races that NoTouchLost names.
THEOREM TouchIsKept == Mp3Init /\ [][Mp3Next]_mp3Vars => []NoTouchLost
<1>1. Mp3Inv => NoTouchLost
  BY Mp3Assumption DEF Mp3Inv, LoadInv, Mp3TypeOK, Touches, TouchInv, ChoiceKept, SeekKept,
         FrameKept, Counted, NoTouchLost
<1> QED
  BY <1>1, Mp3Always, PTL

\* The offsets that are drawn and sought by are all of one file.
THEOREM TableIsWhole == Mp3Init /\ [][Mp3Next]_mp3Vars => []TableIsOfOneFile
<1>1. Mp3Inv => TableIsOfOneFile
  BY DEF Mp3Inv, LoadInv
<1> QED
  BY <1>1, Mp3Always, PTL

\* That file is the one selected, as long as the wave task believes so.
THEOREM WaveIsRight == Mp3Init /\ [][Mp3Next]_mp3Vars => []WaveIsOfTheFile
<1>1. Mp3Inv => WaveIsOfTheFile
  BY DEF Mp3Inv
<1> QED
  BY <1>1, Mp3Always, PTL

-----------------------------------------------------------------------------
(* EthernetInput, for any ring, pool and mailbox: its types, that the pool's buffers *)
(* are kept, that neither task finds the handle locked by the other, that frames     *)
(* reach LwIP in the order they came, and that a receive task that sleeps with no    *)
(* interrupt to come leaves one in the ring only after a drop.  The last two rest on *)
(* the shape of the ring (FrameInv): what the DMA has filled are the descriptors     *)
(* from the one the task reads next to the one the DMA fills next, the oldest frame  *)
(* first.                                                                            *)

\* The frame in the receive task's hand is one that arrived.
InHand ==
  /\ rx.at \in { "alloc", "copy" } => ring[rx.desc] \in 1 .. MaxFrames
  /\ rx.at = "input" => rx.frame \in 1 .. MaxFrames

\* What the handle is locked for: the scan, or a transmission that the receive task
\* has not got past.
LockInv ==
  Lock => \/ rx.at = "scan"
          \/ tx /\ (isr \/ (rx.at = "wait" /\ mRxSem = 0))

EthInv == EthTypeOK /\ InHand /\ PbufsKept /\ LockInv

LEMMA EthInitInv == EthInit => EthInv
<1> SUFFICES ASSUME EthInit PROVE EthInv
  OBVIOUS
<1>1. 0 \in Descs
  BY EthAssumption DEF Descs
<1>2. /\ ring \in [ Descs -> 0 .. MaxFrames ]
      /\ mac \in [ desc : Descs, frame : 1 .. MaxFrames + 1, flag : BOOLEAN ]
      /\ rx \in [ at : { "wait", "get", "scan", "alloc", "copy", "input" },
                  desc : Descs, frame : 0 .. MaxFrames ]
      /\ RxDesc \in Descs
  BY <1>1, EthAssumption DEF EthInit
<1>4. mbox \in Seq(1 .. MaxFrames) /\ handled \in 0 .. MaxFrames /\ pool \in 0 .. PBUF_POOL_SIZE
  BY EthAssumption DEF EthInit
<1>5. EthTypeOK
  BY <1>2, <1>4 DEF EthInit, EthTypeOK
<1>3. InHand /\ PbufsKept /\ LockInv
  BY EthAssumption DEF EthInit, InHand, PbufsKept, LockInv
<1> QED
  BY <1>5, <1>3 DEF EthInv

LEMMA NextDescType == ASSUME NEW d \in Descs PROVE NextDesc(d) \in Descs
BY EthAssumption DEF Descs, NextDesc

\* The MAC and its interrupt.
LEMMA ArriveInv == EthInv /\ Arrive => EthInv'
<1> SUFFICES ASSUME EthInv, Arrive PROVE EthInv'
  OBVIOUS
<1> USE DEF EthInv, Arrive
<1>1. mac.desc \in Descs /\ NextDesc(mac.desc) \in Descs /\ mac.frame \in 1 .. MaxFrames
  BY NextDescType, EthAssumption DEF EthTypeOK
<1>2. EthTypeOK'
  <2>1. ring' \in [ Descs -> 0 .. MaxFrames ]
    <3>1. ring' = ring \/ ring' = [ ring EXCEPT ![mac.desc] = mac.frame ]
      OBVIOUS
    <3>2. mac.frame \in 0 .. MaxFrames
      BY <1>1, EthAssumption
    <3> QED
      BY <1>1, <3>1, <3>2 DEF EthTypeOK
  <2>2. mac' \in [ desc : Descs, frame : 1 .. MaxFrames + 1, flag : BOOLEAN ]
    <3>1. mac.frame + 1 \in 1 .. MaxFrames + 1 /\ mac.flag \in BOOLEAN
      BY <1>1, EthAssumption DEF EthTypeOK
    <3>2. CASE ring[mac.desc] = 0
      <4>1. mac' = [ desc |-> NextDesc(mac.desc), frame |-> mac.frame + 1, flag |-> TRUE ]
        BY <3>2
      <4> HIDE DEF Arrive, EthInv
      <4> QED
        BY <1>1, <3>1, <4>1
    <3>3. CASE ring[mac.desc] # 0
      <4>1. mac' = [ mac EXCEPT !.frame = @ + 1 ]
        BY <3>3
      <4>2. mac \in [ desc : Descs, frame : 1 .. MaxFrames + 1, flag : BOOLEAN ]
        BY DEF EthTypeOK
      <4> HIDE DEF Arrive, EthInv
      <4> QED
        BY <3>1, <4>1, <4>2
    <3> QED
      BY <3>2, <3>3
  <2> QED
    BY <2>1, <2>2 DEF EthTypeOK
<1>3. InHand'
  BY <1>1 DEF InHand, EthTypeOK
<1>4. PbufsKept' /\ LockInv'
  BY DEF PbufsKept, LockInv
<1> QED
  BY <1>2, <1>3, <1>4

LEMMA IrqInv == EthInv /\ (IrqGive \/ IrqClear) => EthInv'
<1> SUFFICES ASSUME EthInv, IrqGive \/ IrqClear PROVE EthInv'
  OBVIOUS
<1> USE DEF EthInv, IrqGive, IrqClear
<1>1. EthTypeOK'
  BY DEF EthTypeOK
<1>2. InHand' /\ PbufsKept' /\ LockInv'
  BY DEF InHand, PbufsKept, LockInv, EthTypeOK
<1> QED
  BY <1>1, <1>2

\* The receive task.
LEMMA RxInv == EthInv /\ RxTask => EthInv'
<1> SUFFICES ASSUME EthInv, RxTask PROVE EthInv'
  OBVIOUS
<1> USE DEF EthInv, RxAt
<1>1. CASE RxTake
  BY <1>1 DEF RxTake, EthTypeOK, InHand, PbufsKept, LockInv
<1>2. CASE RxLock
  BY <1>2 DEF RxLock, EthTypeOK, InHand, PbufsKept, LockInv
<1>3. CASE RxScan
  <2>1. NextDesc(RxDesc) \in Descs /\ ring[RxDesc] \in 0 .. MaxFrames
    BY NextDescType DEF EthTypeOK
  <2>2. EthTypeOK'
    BY <1>3, <2>1 DEF RxScan, EthTypeOK
  <2>3. InHand'
    <3>1. rx'.at \notin { "copy", "input" } /\ ring' = ring
      BY <1>3 DEF RxScan, EthTypeOK
    <3>2. rx'.at = "alloc" => rx'.desc = RxDesc /\ ring[RxDesc] # 0
      BY <1>3 DEF RxScan, EthTypeOK
    <3> QED
      BY <2>1, <3>1, <3>2, EthAssumption DEF InHand
  <2>4. PbufsKept' /\ LockInv'
    BY <1>3 DEF RxScan, EthTypeOK, PbufsKept, LockInv
  <2> QED
    BY <2>2, <2>3, <2>4
<1>4. CASE RxAlloc
  <2>1. CASE pool > 0
    <3>1. pool' = pool - 1 /\ ring' = ring /\ rx' = [ rx EXCEPT !.at = "copy" ] /\ rx.at = "alloc"
          /\ UNCHANGED << short, mac, RxDesc, Lock, mRxSem, isr, tx, mbox, handled >>
      BY <1>4, <2>1 DEF RxAlloc
    <3>2. rx' \in [ at : { "wait", "get", "scan", "alloc", "copy", "input" },
                    desc : Descs, frame : 0 .. MaxFrames ]
          /\ rx'.at = "copy" /\ rx'.desc = rx.desc
      BY <3>1 DEF EthTypeOK
    <3>3. pool' \in 0 .. PBUF_POOL_SIZE
      BY <3>1, <2>1, EthAssumption DEF EthTypeOK
    <3>4. EthTypeOK'
      BY <3>1, <3>2, <3>3 DEF EthTypeOK
    <3>5. InHand' /\ LockInv'
      BY <3>1, <3>2 DEF InHand, LockInv
    <3>6. PbufsKept'
      <4>1. pool \in Nat /\ Len(mbox) \in Nat /\ rx.at = "alloc" /\ rx'.at = "copy"
        BY <3>1, <3>2, <1>4, EthAssumption, LenProperties DEF EthTypeOK, RxAlloc, RxAt
      <4>2. pool' = pool - 1 /\ mbox' = mbox
        BY <3>1
      <4> QED
        BY <4>1, <4>2, EthAssumption DEF PbufsKept
    <3> QED
      BY <3>4, <3>5, <3>6
  <2>2. CASE ~(pool > 0)
    <3>1. ring' = [ ring EXCEPT ![rx.desc] = 0 ] /\ rx' = [ rx EXCEPT !.at = "wait" ] /\ rx.at = "alloc"
          /\ short' = TRUE /\ UNCHANGED << pool, mac, RxDesc, Lock, mRxSem, isr, tx, mbox, handled >>
      BY <1>4, <2>2 DEF RxAlloc
    <3>2. rx' \in [ at : { "wait", "get", "scan", "alloc", "copy", "input" },
                    desc : Descs, frame : 0 .. MaxFrames ] /\ rx'.at = "wait"
      BY <3>1 DEF EthTypeOK
    <3>3. ring' \in [ Descs -> 0 .. MaxFrames ]
      BY <3>1, EthAssumption DEF EthTypeOK
    <3>4. EthTypeOK'
      BY <3>1, <3>2, <3>3 DEF EthTypeOK
    <3>5. InHand' /\ PbufsKept' /\ LockInv'
      BY <3>1, <3>2 DEF InHand, PbufsKept, LockInv
    <3> QED
      BY <3>4, <3>5
  <2> QED
    BY <2>1, <2>2
<1>5. CASE RxCopy
  <2>1. EthTypeOK'
    <3>1. ring' \in [ Descs -> 0 .. MaxFrames ]
      BY <1>5, EthAssumption DEF RxCopy, EthTypeOK
    <3>2. rx' \in [ at : { "wait", "get", "scan", "alloc", "copy", "input" },
                    desc : Descs, frame : 0 .. MaxFrames ]
      BY <1>5, EthAssumption DEF RxCopy, EthTypeOK
    <3> QED
      BY <1>5, <3>1, <3>2 DEF RxCopy, EthTypeOK
  <2>2. InHand' /\ PbufsKept' /\ LockInv'
    BY <1>5 DEF RxCopy, EthTypeOK, InHand, PbufsKept, LockInv
  <2> QED
    BY <2>1, <2>2
<1>6. CASE RxInput
  <2>1. rx.frame \in 1 .. MaxFrames /\ mbox \in Seq(1 .. MaxFrames)
    BY <1>6 DEF RxInput, InHand, EthTypeOK
  <2>2. /\ Append(mbox, rx.frame) \in Seq(1 .. MaxFrames)
        /\ Len(Append(mbox, rx.frame)) = Len(mbox) + 1
        /\ Len(mbox) \in Nat
    BY <2>1, AppendProperties, LenProperties
  <2>3. PbufsKept' /\ pool' \in 0 .. PBUF_POOL_SIZE
    <3>1. rx'.at = "get" /\ rx.at = "input"
      BY <1>6 DEF RxInput, RxAt, EthTypeOK
    <3>2. \/ Len(mbox') = Len(mbox) + 1 /\ pool' = pool
          \/ mbox' = mbox /\ pool' = pool + 1
      BY <1>6, <2>2 DEF RxInput
    <3>3. /\ pool \in 0 .. PBUF_POOL_SIZE /\ PBUF_POOL_SIZE \in Nat
          /\ pool + Len(mbox) + 1 = PBUF_POOL_SIZE
      BY <3>1, EthAssumption DEF EthTypeOK, PbufsKept
    <3>4. CASE Len(mbox') = Len(mbox) + 1 /\ pool' = pool
      <4>1. pool' + Len(mbox') + 0 = PBUF_POOL_SIZE /\ pool' \in 0 .. PBUF_POOL_SIZE
        BY <2>2, <3>3, <3>4
      <4> QED
        BY <3>1, <4>1 DEF PbufsKept
    <3>5. CASE mbox' = mbox /\ pool' = pool + 1
      <4>1. Len(mbox') = Len(mbox)
        BY <3>5
      <4>2. pool' + Len(mbox') + 0 = PBUF_POOL_SIZE /\ pool' \in 0 .. PBUF_POOL_SIZE
        BY <2>2, <3>3, <3>5, <4>1
      <4> QED
        BY <3>1, <4>2 DEF PbufsKept
    <3> QED
      BY <3>2, <3>4, <3>5
  <2>4. EthTypeOK'
    <3>1. rx' \in [ at : { "wait", "get", "scan", "alloc", "copy", "input" },
                    desc : Descs, frame : 0 .. MaxFrames ]
      BY <1>6 DEF RxInput, EthTypeOK
    <3>2. mbox' \in Seq(1 .. MaxFrames)
      BY <1>6, <2>1, <2>2 DEF RxInput
    <3>3. UNCHANGED << ring, mac, RxDesc, Lock, mRxSem, isr, tx, handled, short >>
      BY <1>6 DEF RxInput
    <3> QED
      BY <2>3, <3>1, <3>2, <3>3 DEF EthTypeOK
  <2>5. InHand' /\ LockInv'
    BY <1>6 DEF RxInput, EthTypeOK, InHand, LockInv
  <2> QED
    BY <2>3, <2>4, <2>5
<1> QED
  BY <1>1, <1>2, <1>3, <1>4, <1>5, <1>6 DEF RxTask

\* The TCP/IP task.
LEMMA TcpipInv == EthInv /\ (Handle \/ Transmit \/ Transmitted) => EthInv'
<1> SUFFICES ASSUME EthInv, Handle \/ Transmit \/ Transmitted PROVE EthInv'
  OBVIOUS
<1> USE DEF EthInv, RxWaits
<1>1. CASE Handle
  <2>1. mbox \in Seq(1 .. MaxFrames) /\ mbox # << >>
    BY <1>1 DEF Handle, EthTypeOK
  <2>2. /\ Head(mbox) \in 1 .. MaxFrames /\ Tail(mbox) \in Seq(1 .. MaxFrames)
        /\ Len(Tail(mbox)) = Len(mbox) - 1
        /\ Len(mbox) \in Nat
    BY <2>1, HeadTailProperties, LenProperties
  <2>3. PbufsKept' /\ pool' \in 0 .. PBUF_POOL_SIZE
    <3>1. Len(mbox) >= 1
      BY <2>1, <2>2
    <3> QED
      BY <1>1, <2>2, <3>1, EthAssumption DEF Handle, EthTypeOK, PbufsKept
  <2>4. EthTypeOK'
    BY <1>1, <2>2, <2>3 DEF Handle, EthTypeOK
  <2>5. InHand' /\ LockInv'
    BY <1>1 DEF Handle, EthTypeOK, InHand, LockInv
  <2> QED
    BY <2>3, <2>4, <2>5
<1>2. CASE Transmit
  BY <1>2 DEF Transmit, EthTypeOK, InHand, PbufsKept, LockInv
<1>3. CASE Transmitted
  BY <1>3 DEF Transmitted, EthTypeOK, InHand, PbufsKept, LockInv
<1> QED
  BY <1>1, <1>2, <1>3

LEMMA EthNextInv == EthInv /\ [EthNext]_ethVars => EthInv'
<1>1. EthInv /\ UNCHANGED ethVars => EthInv'
  BY DEF EthInv, EthTypeOK, InHand, PbufsKept, LockInv, ethVars
<1> QED
  BY <1>1, ArriveInv, IrqInv, RxInv, TcpipInv DEF EthNext

LEMMA EthAlways == EthInit /\ [][EthNext]_ethVars => []EthInv
BY EthInitInv, EthNextInv, PTL

LEMMA EthInvBusy == EthInv => NeverBusy
BY DEF EthInv, EthTypeOK, LockInv, NeverBusy, RxAt, RxWaits

\* The types of the Ethernet part.
THEOREM EthTypeCorrect == EthInit /\ [][EthNext]_ethVars => []EthTypeOK
<1>1. EthInv => EthTypeOK
  BY DEF EthInv
<1> QED
  BY <1>1, EthAlways, PTL

\* Every buffer of the pool is free, in the mailbox or in the receive task's hand,
\* whatever the sizes and however often the mailbox refuses a frame.
THEOREM PbufsAreKept == EthInit /\ [][EthNext]_ethVars => []PbufsKept
<1>1. EthInv => PbufsKept
  BY DEF EthInv
<1> QED
  BY <1>1, EthAlways, PTL

\* HAL_BUSY never happens: a transmission holds the lock only while the receive task
\* waits, and the interrupt that would wake it takes the lock away first.
THEOREM LockIsNeverBusy == EthInit /\ [][EthNext]_ethVars => []NeverBusy
BY EthInvBusy, EthAlways, PTL

-----------------------------------------------------------------------------
(* The ring. *)

\* How far descriptor d is behind descriptor t, which is the next to be read.
Pos(t, d) == IF d >= t THEN d - t ELSE d - t + ETH_RXBUFNB

\* The descriptors that hold a frame run from t to the one before m, all of them if
\* the ring is full; the frames rise from t on.
FilledFrom(r, t, m) ==
  \/ t = m /\ \A d \in Descs : r[d] # 0
  \/ \A d \in Descs : r[d] # 0 <=> Pos(t, d) < Pos(t, m)

RisingFrom(r, t) ==
  \A d, e \in Descs : r[d] # 0 /\ r[e] # 0 /\ Pos(t, d) < Pos(t, e) => r[d] < r[e]

LEMMA NextDescIs ==
  ASSUME NEW d \in Descs
  PROVE  NextDesc(d) = IF d + 1 = ETH_RXBUFNB THEN 0 ELSE d + 1
BY EthAssumption DEF Descs, NextDesc

LEMMA PosFacts ==
  ASSUME NEW t \in Descs, NEW d \in Descs
  PROVE  /\ Pos(t, d) \in 0 .. ETH_RXBUFNB - 1
         /\ Pos(t, t) = 0
         /\ \A e \in Descs : Pos(t, d) = Pos(t, e) => d = e
BY EthAssumption DEF Descs, Pos

LEMMA PosSteps ==
  ASSUME NEW t \in Descs, NEW d \in Descs
  PROVE  /\ Pos(t, NextDesc(d)) = IF Pos(t, d) = ETH_RXBUFNB - 1 THEN 0 ELSE Pos(t, d) + 1
         /\ Pos(NextDesc(t), d) = IF d = t THEN ETH_RXBUFNB - 1 ELSE Pos(t, d) - 1
BY NextDescIs, EthAssumption DEF Descs, Pos

\* A frame newer than all the others is stored behind them.
LEMMA StoreInRing ==
  ASSUME NEW r \in [ Descs -> Nat ], NEW t \in Descs, NEW m \in Descs,
         FilledFrom(r, t, m), RisingFrom(r, t), r[m] = 0,
         NEW f \in Nat \ { 0 }, \A d \in Descs : r[d] < f,
         NEW s, s = [ r EXCEPT ![m] = f ]
  PROVE  FilledFrom(s, t, NextDesc(m)) /\ RisingFrom(s, t)
<1>1. \A d \in Descs : r[d] # 0 <=> Pos(t, d) < Pos(t, m)
  BY DEF FilledFrom
<1>2. s[m] = f /\ \A d \in Descs \ { m } : s[d] = r[d]
  OBVIOUS
<1>3. \A d \in Descs : s[d] # 0 <=> Pos(t, d) <= Pos(t, m)
  BY <1>1, <1>2, PosFacts
<1>4. CASE Pos(t, m) = ETH_RXBUFNB - 1
  <2>1. NextDesc(m) = t
    <3>1. Pos(t, NextDesc(m)) = Pos(t, t)
      BY <1>4, PosSteps, PosFacts
    <3> QED
      BY <3>1, PosFacts, NextDescType
  <2>2. \A d \in Descs : s[d] # 0
    BY <1>3, <1>4, PosFacts, EthAssumption
  <2> QED
    BY <1>1, <1>2, <1>3, <2>1, <2>2, PosFacts DEF FilledFrom, RisingFrom
<1>5. CASE Pos(t, m) # ETH_RXBUFNB - 1
  <2>1. Pos(t, NextDesc(m)) = Pos(t, m) + 1
    BY <1>5, PosSteps
  <2>2. \A d \in Descs : s[d] # 0 <=> Pos(t, d) < Pos(t, NextDesc(m))
    BY <1>3, <2>1, PosFacts
  <2> QED
    BY <1>1, <1>2, <1>3, <2>2, PosFacts DEF FilledFrom, RisingFrom
<1> QED
  BY <1>4, <1>5

\* The descriptor that was read first is given back.
LEMMA ReleaseInRing ==
  ASSUME NEW r \in [ Descs -> Nat ], NEW t \in Descs, NEW m \in Descs,
         FilledFrom(r, t, m), RisingFrom(r, t), r[t] # 0,
         NEW s, s = [ r EXCEPT ![t] = 0 ]
  PROVE  FilledFrom(s, NextDesc(t), m) /\ RisingFrom(s, NextDesc(t))
<1>1. s[t] = 0 /\ \A d \in Descs \ { t } : s[d] = r[d]
  OBVIOUS
<1>2. /\ \A d \in Descs \ { t } : Pos(NextDesc(t), d) = Pos(t, d) - 1
      /\ Pos(NextDesc(t), t) = ETH_RXBUFNB - 1
  BY PosSteps
<1>3. \A d \in Descs : Pos(t, d) \in 0 .. ETH_RXBUFNB - 1 /\ (d # t => Pos(t, d) # 0)
  BY PosFacts
<1>4. RisingFrom(s, NextDesc(t))
  BY <1>1, <1>2, <1>3 DEF RisingFrom
<1>5. \A d \in Descs : s[d] # 0 <=> Pos(NextDesc(t), d) < Pos(NextDesc(t), m)
  <2>1. CASE t = m /\ \A d \in Descs : r[d] # 0
    BY <1>1, <1>2, <1>3, <2>1, EthAssumption
  <2>2. CASE \A d \in Descs : r[d] # 0 <=> Pos(t, d) < Pos(t, m)
    <3>1. m # t
      BY <2>2, PosFacts
    <3> QED
      BY <1>1, <1>2, <1>3, <2>2, <3>1, EthAssumption
  <2> QED
    BY <2>1, <2>2 DEF FilledFrom
<1> QED
  BY <1>4, <1>5 DEF FilledFrom

\* When the next descriptor is empty they all are, and when it is not it has the
\* oldest frame.
LEMMA FirstOfRing ==
  ASSUME NEW r \in [ Descs -> Nat ], NEW t \in Descs, NEW m \in Descs,
         FilledFrom(r, t, m), RisingFrom(r, t)
  PROVE  /\ r[t] = 0 => \A d \in Descs : r[d] = 0
         /\ \A d \in Descs \ { t } : r[t] # 0 /\ r[d] # 0 => r[t] < r[d]
<1>1. \A d \in Descs : Pos(t, d) \in 0 .. ETH_RXBUFNB - 1 /\ (d # t => Pos(t, d) # 0)
  BY PosFacts
<1>2. Pos(t, t) = 0
  BY PosFacts
<1> QED
  BY <1>1, <1>2, EthAssumption DEF FilledFrom, RisingFrom

-----------------------------------------------------------------------------
(* The order of the frames. *)

\* The descriptor the receive task reads or will read next.
Oldest == IF rx.at \in { "alloc", "copy" } THEN rx.desc ELSE RxDesc

RingInv ==
  /\ rx.at \in { "alloc", "copy" } => RxDesc = NextDesc(rx.desc)
  /\ FilledFrom(ring, Oldest, mac.desc)
  /\ RisingFrom(ring, Oldest)

\* All the frames that have left the ring came before frame n.
PassedBefore(n) ==
  /\ handled < n
  /\ \A i \in 1 .. Len(mbox) : mbox[i] < n
  /\ rx.at = "input" => rx.frame < n

NewerInv ==
  /\ PassedBefore(mac.frame)
  /\ \A d \in Descs : ring[d] # 0 => PassedBefore(ring[d]) /\ ring[d] < mac.frame

OrderInv ==
  /\ \A i \in 1 .. Len(mbox) : handled < mbox[i]
  /\ \A i, j \in 1 .. Len(mbox) : i < j => mbox[i] < mbox[j]
  /\ rx.at = "input" =>
       handled < rx.frame /\ \A i \in 1 .. Len(mbox) : mbox[i] < rx.frame

\* The interrupt has signalled before it clears its flag, and the task waits with no
\* signal only when it has emptied the ring, or a frame was dropped.
LeftInv ==
  /\ isr => mRxSem = 1
  /\ rx.at = "wait" /\ mRxSem = 0 /\ ~mac.flag /\ ~short => \A d \in Descs : ring[d] = 0

FrameInv == RingInv /\ NewerInv /\ OrderInv /\ LeftInv

LEMMA RingTypes ==
  ASSUME EthInv
  PROVE  /\ ring \in [ Descs -> Nat ] /\ mac.desc \in Descs /\ mac.frame \in Nat \ { 0 }
         /\ RxDesc \in Descs /\ rx.desc \in Descs /\ Oldest \in Descs
         /\ handled \in Nat /\ mbox \in Seq(Nat) /\ Len(mbox) \in Nat
         /\ \A i \in 1 .. Len(mbox) : mbox[i] \in Nat
         /\ rx.frame \in Nat
<1>1. 0 .. MaxFrames \subseteq Nat /\ 1 .. MaxFrames \subseteq Nat
  BY EthAssumption
<1>2. mbox \in Seq(1 .. MaxFrames)
  BY DEF EthInv, EthTypeOK
<1>3. mbox \in Seq(Nat) /\ Len(mbox) \in Nat /\ \A i \in 1 .. Len(mbox) : mbox[i] \in Nat
  BY <1>1, <1>2, SeqMonotonic, LenProperties, ElementOfSeq
<1>4. ring \in [ Descs -> Nat ]
  BY <1>1 DEF EthInv, EthTypeOK
<1> QED
  BY <1>1, <1>3, <1>4, EthAssumption DEF EthInv, EthTypeOK, Oldest

LEMMA InitFrames == EthInit => FrameInv
<1> SUFFICES ASSUME EthInit PROVE FrameInv
  OBVIOUS
<1>1. 0 \in Descs
  BY EthAssumption DEF Descs
<1>2. Oldest = 0 /\ mac.desc = 0 /\ Len(mbox) = 0 /\ \A d \in Descs : ring[d] = 0
  BY DEF EthInit, Oldest
<1>3. RingInv
  BY <1>1, <1>2, PosFacts DEF RingInv, EthInit, FilledFrom, RisingFrom
<1> QED
  BY <1>2, <1>3 DEF FrameInv, NewerInv, OrderInv, LeftInv, PassedBefore, EthInit

LEMMA ArriveFrames ==
  ASSUME EthInv, FrameInv, Arrive
  PROVE  FrameInv'
<1>1. CASE ring[mac.desc] = 0
  <2>1. /\ ring' = [ ring EXCEPT ![mac.desc] = mac.frame ]
        /\ mac' = [ desc |-> NextDesc(mac.desc), frame |-> mac.frame + 1, flag |-> TRUE ]
        /\ UNCHANGED << RxDesc, Lock, mRxSem, isr, rx, tx, pool, mbox, handled >>
    BY <1>1 DEF Arrive
  <2>2. mac'.desc = NextDesc(mac.desc) /\ mac'.frame = mac.frame + 1 /\ mac'.flag
    BY <2>1
  <2>3. RingInv'
    <3>1. \A d \in Descs : ring[d] < mac.frame
      BY RingTypes DEF FrameInv, NewerInv
    <3>2. FilledFrom(ring', Oldest, NextDesc(mac.desc)) /\ RisingFrom(ring', Oldest)
      BY <1>1, <2>1, <3>1, RingTypes, StoreInRing DEF FrameInv, RingInv
    <3>3. Oldest' = Oldest
      BY <2>1 DEF Oldest
    <3> QED
      BY <2>1, <2>2, <3>2, <3>3 DEF FrameInv, RingInv
  <2>4. NewerInv'
    <3>1. PassedBefore(mac.frame) /\ PassedBefore(mac.frame + 1)
      BY RingTypes DEF FrameInv, NewerInv, PassedBefore
    <3>2. \A d \in Descs : ring'[d] = ring[d] \/ ring'[d] = mac.frame
      BY <2>1, RingTypes
    <3> QED
      BY <2>1, <2>2, <3>1, <3>2, RingTypes DEF FrameInv, NewerInv, PassedBefore
  <2> QED
    BY <2>1, <2>2, <2>3, <2>4 DEF FrameInv, OrderInv, LeftInv
<1>2. CASE ring[mac.desc] # 0
  <2>1. /\ mac' = [ mac EXCEPT !.frame = @ + 1 ] /\ UNCHANGED << ring, short >>
        /\ UNCHANGED << RxDesc, Lock, mRxSem, isr, rx, tx, pool, mbox, handled >>
    BY <1>2 DEF Arrive
  <2>2. mac'.desc = mac.desc /\ mac'.frame = mac.frame + 1 /\ mac'.flag = mac.flag
    BY <2>1 DEF EthInv, EthTypeOK
  <2>3. RingInv'
    BY <2>1, <2>2 DEF FrameInv, RingInv, Oldest, FilledFrom, RisingFrom
  <2>4. NewerInv'
    BY <2>1, <2>2, RingTypes DEF FrameInv, NewerInv, PassedBefore
  <2> QED
    BY <2>1, <2>2, <2>3, <2>4 DEF FrameInv, OrderInv, LeftInv
<1> QED
  BY <1>1, <1>2

LEMMA IrqFrames ==
  ASSUME EthInv, FrameInv, IrqGive \/ IrqClear
  PROVE  FrameInv'
<1>1. /\ mac'.desc = mac.desc /\ mac'.frame = mac.frame
      /\ UNCHANGED << ring, RxDesc, rx, mbox, handled, short >>
  BY DEF IrqGive, IrqClear, EthInv, EthTypeOK
<1>2. RingInv' /\ NewerInv' /\ OrderInv'
  BY <1>1 DEF FrameInv, RingInv, Oldest, FilledFrom, RisingFrom, NewerInv, PassedBefore, OrderInv
<1>3. LeftInv'
  BY <1>1 DEF IrqGive, IrqClear, FrameInv, LeftInv
<1> QED
  BY <1>2, <1>3 DEF FrameInv

\* Steps of the receive task that touch no frame.
LEMMA RxQuietFrames ==
  ASSUME EthInv, FrameInv, RxTake \/ RxLock \/ RxScan \/ (RxAlloc /\ pool > 0)
  PROVE  FrameInv'
<1>1. /\ rx.at \in { "wait", "get", "scan", "alloc" }
      /\ rx'.at \in { "wait", "get", "scan", "alloc", "copy" }
      /\ UNCHANGED << ring, mac, isr, mbox, handled, short >>
  BY DEF RxTake, RxLock, RxScan, RxAlloc, RxAt, EthInv, EthTypeOK
<1>2. Oldest' = Oldest
  BY DEF RxTake, RxLock, RxScan, RxAlloc, RxAt, Oldest, EthInv, EthTypeOK
<1>3. rx'.at \in { "alloc", "copy" } => RxDesc' = NextDesc(rx'.desc)
  BY DEF RxTake, RxLock, RxScan, RxAlloc, RxAt, FrameInv, RingInv, EthInv, EthTypeOK
<1>4. RingInv'
  BY <1>1, <1>2, <1>3 DEF FrameInv, RingInv
<1>5. NewerInv' /\ OrderInv'
  BY <1>1 DEF FrameInv, NewerInv, PassedBefore, OrderInv
<1>6. LeftInv'
  <2>1. CASE RxTake
    BY <2>1 DEF RxTake, RxAt, FrameInv, LeftInv, EthInv, EthTypeOK
  <2>2. CASE RxLock
    BY <2>2, EthInvBusy DEF RxLock, RxAt, NeverBusy, FrameInv, LeftInv, EthInv, EthTypeOK
  <2>3. CASE RxScan
    <3>1. ring[RxDesc] = 0 => \A d \in Descs : ring[d] = 0
      <4>1. Oldest = RxDesc
        BY <2>3 DEF RxScan, RxAt, Oldest
      <4> QED
        BY <4>1, FirstOfRing, RingTypes DEF FrameInv, RingInv
    <3>2. rx'.at = "wait" => ring[RxDesc] = 0
      BY <2>3 DEF RxScan, RxAt, EthInv, EthTypeOK
    <3> QED
      BY <2>3, <3>1, <3>2 DEF RxScan, FrameInv, LeftInv
  <2>4. CASE RxAlloc /\ pool > 0
    BY <2>4 DEF RxAlloc, FrameInv, LeftInv, EthInv, EthTypeOK
  <2> QED
    BY <2>1, <2>2, <2>3, <2>4
<1> QED
  BY <1>4, <1>5, <1>6 DEF FrameInv

\* The oldest frame is read, or dropped.
LEMMA ReadFrames ==
  ASSUME EthInv, FrameInv, RxCopy \/ (RxAlloc /\ ~(pool > 0))
  PROVE  FrameInv'
<1>1. /\ rx.at \in { "alloc", "copy" } /\ Oldest = rx.desc /\ ring[rx.desc] # 0
      /\ ring' = [ ring EXCEPT ![rx.desc] = 0 ]
      /\ UNCHANGED << mac, RxDesc, isr, mRxSem, mbox, handled >>
  BY DEF RxCopy, RxAlloc, RxAt, Oldest, EthInv, InHand
<1>2. \/ rx'.at = "input" /\ rx'.frame = ring[rx.desc]
      \/ rx'.at = "wait" /\ short'
  BY DEF RxCopy, RxAlloc, EthInv, EthTypeOK
<1>3. /\ Oldest' = NextDesc(rx.desc)
      /\ \A d \in Descs : ring'[d] # 0 => d # rx.desc /\ ring'[d] = ring[d]
  <2>1. RxDesc = NextDesc(rx.desc)
    BY <1>1 DEF FrameInv, RingInv
  <2> QED
    BY <1>1, <1>2, <2>1, RingTypes DEF Oldest
<1>4. RingInv'
  BY <1>1, <1>2, <1>3, ReleaseInRing, RingTypes DEF FrameInv, RingInv
<1>5. /\ PassedBefore(ring[rx.desc]) /\ ring[rx.desc] < mac.frame
      /\ \A d \in Descs : ring'[d] # 0 => ring[rx.desc] < ring'[d]
  BY <1>1, <1>3, FirstOfRing, RingTypes DEF FrameInv, RingInv, NewerInv
<1>6. NewerInv'
  BY <1>1, <1>2, <1>3, <1>5, RingTypes DEF FrameInv, NewerInv, PassedBefore
<1>7. OrderInv'
  BY <1>1, <1>2, <1>5 DEF FrameInv, OrderInv, PassedBefore
<1>8. LeftInv'
  BY <1>1, <1>2 DEF FrameInv, LeftInv
<1> QED
  BY <1>4, <1>6, <1>7, <1>8 DEF FrameInv

\* The frame in hand is posted, or refused.
LEMMA PostFrames ==
  ASSUME EthInv, FrameInv, RxInput
  PROVE  FrameInv'
<1>1. /\ rx.at = "input" /\ rx'.at = "get" /\ Oldest' = Oldest
      /\ mbox' = Append(mbox, rx.frame) \/ mbox' = mbox
      /\ UNCHANGED << ring, mac, RxDesc, mRxSem, isr, handled, short >>
  BY DEF RxInput, RxAt, Oldest, EthInv, EthTypeOK
<1>2. RingInv' /\ LeftInv'
  BY <1>1 DEF FrameInv, RingInv, LeftInv
<1>3. \/ mbox' = mbox
      \/ /\ Len(mbox') = Len(mbox) + 1 /\ mbox'[Len(mbox) + 1] = rx.frame
         /\ \A i \in 1 .. Len(mbox) : mbox'[i] = mbox[i]
  BY <1>1, RingTypes, AppendProperties
<1>4. NewerInv' /\ OrderInv'
  <2>1. CASE mbox' = mbox
    BY <1>1, <2>1 DEF FrameInv, NewerInv, OrderInv, PassedBefore
  <2>2. CASE /\ Len(mbox') = Len(mbox) + 1 /\ mbox'[Len(mbox) + 1] = rx.frame
             /\ \A i \in 1 .. Len(mbox) : mbox'[i] = mbox[i]
    <3>1. \A i \in 1 .. Len(mbox') : i \in 1 .. Len(mbox) \/ i = Len(mbox) + 1
      BY <2>2, RingTypes
    <3>2. NewerInv'
      BY <1>1, <2>2, <3>1 DEF FrameInv, NewerInv, PassedBefore
    <3>3. OrderInv'
      <4>1. \A i \in 1 .. Len(mbox') : handled < mbox'[i]
        BY <1>1, <2>2, <3>1 DEF FrameInv, OrderInv
      <4>2. ASSUME NEW i \in 1 .. Len(mbox'), NEW j \in 1 .. Len(mbox'), i < j
            PROVE  mbox'[i] < mbox'[j]
        <5>1. i \in 1 .. Len(mbox)
          BY <2>2, <4>2, RingTypes
        <5>2. CASE j \in 1 .. Len(mbox)
          BY <2>2, <4>2, <5>1, <5>2 DEF FrameInv, OrderInv
        <5>3. CASE j = Len(mbox) + 1
          BY <1>1, <2>2, <5>1, <5>3 DEF FrameInv, OrderInv
        <5> QED
          BY <3>1, <5>2, <5>3
      <4> QED
        BY <1>1, <4>1, <4>2 DEF OrderInv
    <3> QED
      BY <3>2, <3>3
  <2> QED
    BY <1>3, <2>1, <2>2
<1> QED
  BY <1>2, <1>4 DEF FrameInv

LEMMA TcpipFrames ==
  ASSUME EthInv, FrameInv, Handle \/ Transmit \/ Transmitted
  PROVE  FrameInv'
<1>1. UNCHANGED << ring, mac, RxDesc, mRxSem, isr, rx, short >> /\ rx.at = "wait"
  BY DEF Handle, Transmit, Transmitted, RxWaits
<1>2. RingInv' /\ LeftInv'
  BY <1>1 DEF FrameInv, RingInv, Oldest, LeftInv
<1>3. CASE Handle
  <2>1. /\ handled' = mbox[1] /\ Len(mbox') = Len(mbox) - 1 /\ Len(mbox) > 0
        /\ \A i \in 1 .. Len(mbox') : mbox'[i] = mbox[i + 1]
    BY <1>3, RingTypes, HeadTailProperties, EmptySeq DEF Handle
  <2>2. \A i \in 1 .. Len(mbox') : i + 1 \in 1 .. Len(mbox) /\ 1 < i + 1
    BY <2>1, RingTypes
  <2>3. 1 \in 1 .. Len(mbox)
    BY <2>1, RingTypes
  <2>4. NewerInv'
    BY <1>1, <2>1, <2>2, <2>3 DEF FrameInv, NewerInv, PassedBefore
  <2>5. OrderInv'
    <3>1. \A i, j \in 1 .. Len(mbox') : i < j => i + 1 < j + 1
      BY <2>1, RingTypes
    <3> QED
      BY <1>1, <2>1, <2>2, <2>3, <3>1 DEF FrameInv, OrderInv
  <2> QED
    BY <1>2, <2>4, <2>5 DEF FrameInv
<1>4. CASE Transmit \/ Transmitted
  <2>1. mbox' = mbox /\ handled' = handled
    BY <1>4 DEF Transmit, Transmitted
  <2> QED
    BY <1>1, <1>2, <2>1 DEF FrameInv, NewerInv, OrderInv, PassedBefore
<1> QED
  BY <1>3, <1>4

LEMMA FramesAlways == EthInit /\ [][EthNext]_ethVars => []FrameInv
<1>1. EthInv /\ FrameInv /\ [EthNext]_ethVars => FrameInv'
  <2> SUFFICES ASSUME EthInv, FrameInv, [EthNext]_ethVars PROVE FrameInv'
    OBVIOUS
  <2>1. CASE UNCHANGED ethVars
    BY <2>1 DEF ethVars, FrameInv, RingInv, Oldest, NewerInv, PassedBefore, OrderInv, LeftInv
  <2>2. CASE EthNext
    BY <2>2, ArriveFrames, IrqFrames, RxQuietFrames, ReadFrames, PostFrames, TcpipFrames
    DEF EthNext, RxTask
  <2> QED
    BY <2>1, <2>2
<1> QED
  BY <1>1, InitFrames, EthAlways, PTL

\* No frame is handled twice, or after a later one, whatever the mailbox refuses and
\* however the arrivals fall between the steps of the two tasks.
THEOREM FramesKeepOrder == EthInit /\ [][EthNext]_ethVars => []FramesInOrder
<1>1. EthInv /\ FrameInv => FramesInOrder
  <2> SUFFICES ASSUME EthInv, FrameInv PROVE FramesInOrder
    OBVIOUS
  <2> DEFINE hand == IF rx.at = "input" THEN << rx.frame >> ELSE << >>
             seen == << handled >> \o mbox \o hand
  <2>1. << handled >> \in Seq(Nat) /\ mbox \in Seq(Nat) /\ hand \in Seq(Nat)
        /\ << handled >> \o mbox \in Seq(Nat)
    BY RingTypes, ConcatProperties
  <2>2. /\ Len(<< handled >> \o mbox) = Len(mbox) + 1
        /\ (<< handled >> \o mbox)[1] = handled
        /\ \A i \in 2 .. Len(mbox) + 1 : (<< handled >> \o mbox)[i] = mbox[i - 1]
    BY <2>1, RingTypes, ConcatProperties
  <2>3. /\ Len(seen) = Len(mbox) + 1 + (IF rx.at = "input" THEN 1 ELSE 0)
        /\ \A i \in 1 .. Len(mbox) + 1 : seen[i] = (<< handled >> \o mbox)[i]
        /\ rx.at = "input" => seen[Len(mbox) + 2] = rx.frame
    BY <2>1, <2>2, RingTypes, ConcatProperties
  <2> HIDE DEF seen
  <2>4. ASSUME NEW i \in 1 .. Len(seen) - 1
        PROVE  seen[i] < seen[i + 1]
    <3>1. Len(mbox) \in Nat /\ i \in Nat /\ i >= 1
      BY <2>3, RingTypes
    <3>2. CASE i = Len(mbox) + 1
      <4>1. rx.at = "input" /\ seen[i + 1] = rx.frame
        BY <2>3, <2>4, <3>1, <3>2
      <4>2. seen[i] = IF i = 1 THEN handled ELSE mbox[i - 1]
        BY <2>2, <2>3, <3>1, <3>2
      <4>3. i # 1 => i - 1 \in 1 .. Len(mbox)
        BY <3>1, <3>2
      <4> QED
        BY <4>1, <4>2, <4>3 DEF FrameInv, OrderInv
    <3>3. CASE i # Len(mbox) + 1
      <4>1. i \in 1 .. Len(mbox)
        BY <2>3, <3>1, <3>3
      <4>2. seen[i] = (<< handled >> \o mbox)[i] /\ seen[i + 1] = mbox[i]
        <5>1. i \in 1 .. Len(mbox) + 1 /\ i + 1 \in 2 .. Len(mbox) + 1 /\ (i + 1) - 1 = i
          BY <3>1, <4>1
        <5> QED
          BY <2>2, <2>3, <3>1, <5>1
      <4>3. CASE i = 1
        BY <2>2, <4>1, <4>2, <4>3 DEF FrameInv, OrderInv
      <4>4. CASE i # 1
        <5>1. i \in 2 .. Len(mbox) + 1 /\ i - 1 \in 1 .. Len(mbox) /\ i - 1 < i
          BY <3>1, <4>1, <4>4
        <5> QED
          BY <2>2, <4>1, <4>2, <5>1 DEF FrameInv, OrderInv
      <4> QED
        BY <4>3, <4>4
    <3> QED
      BY <3>2, <3>3
  <2> QED
    BY <2>4 DEF FramesInOrder, seen
<1> QED
  BY <1>1, EthAlways, FramesAlways, PTL

\* The receive task, which takes HAL_BUSY, a dropped frame and an empty ring for the
\* same, leaves a frame in the ring only after a drop.
THEOREM RingIsEmptied == EthInit /\ [][EthNext]_ethVars => []NothingLeft
<1>1. FrameInv => NothingLeft
  BY DEF FrameInv, LeftInv, NothingLeft, RxWaits
<1> QED
  BY <1>1, FramesAlways, PTL

-----------------------------------------------------------------------------
(* The parts in the firmware. *)

\* A step of the firmware is a step of each part, or leaves it alone.
LEMMA RenderSteps == [Next]_vars => [RenderNext]_renderVars
<1> SUFFICES ASSUME [Next]_vars PROVE [RenderNext]_renderVars
  OBVIOUS
<1>1. CASE UNCHANGED vars
  BY <1>1 DEF vars
<1>2. CASE Next
  BY <1>2 DEF Next, Others
<1> QED
  BY <1>1, <1>2

LEMMA LinesSteps == [Next]_vars => [LinesNext]_linesVars
<1> SUFFICES ASSUME [Next]_vars PROVE [LinesNext]_linesVars
  OBVIOUS
<1>1. CASE UNCHANGED vars
  BY <1>1 DEF vars
<1>2. CASE Next
  BY <1>2 DEF Next, Others
<1> QED
  BY <1>1, <1>2

LEMMA Mp3Steps == [Next]_vars => [Mp3Next]_mp3Vars
<1> SUFFICES ASSUME [Next]_vars PROVE [Mp3Next]_mp3Vars
  OBVIOUS
<1>1. CASE UNCHANGED vars
  BY <1>1 DEF vars
<1>2. CASE Next
  BY <1>2 DEF Next, Others
<1> QED
  BY <1>1, <1>2

LEMMA AudioSteps == [Next]_vars => [AudioNext]_audioVars
<1> SUFFICES ASSUME [Next]_vars PROVE [AudioNext]_audioVars
  OBVIOUS
<1>1. CASE UNCHANGED vars
  BY <1>1 DEF vars
<1>2. CASE Next
  BY <1>2 DEF Next, Others
<1> QED
  BY <1>1, <1>2

LEMMA HlsSteps == [Next]_vars => [HlsNext]_hlsVars
<1> SUFFICES ASSUME [Next]_vars PROVE [HlsNext]_hlsVars
  OBVIOUS
<1>1. CASE UNCHANGED vars
  BY <1>1 DEF vars
<1>2. CASE Next
  BY <1>2 DEF Next, Others
<1> QED
  BY <1>1, <1>2

LEMMA UsbCoreSteps == [Next]_vars => [UsbNext]_usbVars
<1> SUFFICES ASSUME [Next]_vars PROVE [UsbNext]_usbVars
  OBVIOUS
<1>1. CASE UNCHANGED vars
  BY <1>1 DEF vars
<1>2. CASE Next
  BY <1>2 DEF Next, Others
<1> QED
  BY <1>1, <1>2

LEMMA EthSteps == [Next]_vars => [EthNext]_ethVars
<1> SUFFICES ASSUME [Next]_vars PROVE [EthNext]_ethVars
  OBVIOUS
<1>1. CASE UNCHANGED vars
  BY <1>1 DEF vars
<1>2. CASE Next
  BY <1>2 DEF Next, Others
<1> QED
  BY <1>1, <1>2

-----------------------------------------------------------------------------
\* So a behaviour of the firmware is one of each part.
LEMMA RenderFollowed == Spec => RenderInit /\ [][RenderNext]_renderVars
<1>1. Init => RenderInit
  BY DEF Init
<1> QED
  BY <1>1, RenderSteps, PTL DEF Spec

LEMMA LinesFollowed == Spec => LinesInit /\ [][LinesNext]_linesVars
<1>1. Init => LinesInit
  BY DEF Init
<1> QED
  BY <1>1, LinesSteps, PTL DEF Spec

LEMMA Mp3Followed == Spec => Mp3Init /\ [][Mp3Next]_mp3Vars
<1>1. Init => Mp3Init
  BY DEF Init
<1> QED
  BY <1>1, Mp3Steps, PTL DEF Spec

LEMMA AudioFollowed == Spec => AudioInit /\ [][AudioNext]_audioVars
<1>1. Init => AudioInit
  BY DEF Init
<1> QED
  BY <1>1, AudioSteps, PTL DEF Spec

LEMMA HlsFollowed == Spec => HlsInit /\ [][HlsNext]_hlsVars
<1>1. Init => HlsInit
  BY DEF Init
<1> QED
  BY <1>1, HlsSteps, PTL DEF Spec

LEMMA EthFollowed == Spec => EthInit /\ [][EthNext]_ethVars
<1>1. Init => EthInit
  BY DEF Init
<1> QED
  BY <1>1, EthSteps, PTL DEF Spec

LEMMA UsbFollowed == Spec => UsbInit /\ [][UsbNext]_usbVars
<1>1. Init => UsbInit
  BY DEF Init
<1> QED
  BY <1>1, UsbCoreSteps, PTL DEF Spec

-----------------------------------------------------------------------------
\* In step, mAudHalf is the half just played, and at most the other half is filled;
\* there is no signal left once it is, nor while it is being written.
InStep ==
  ~slip =>
    /\ ~lost
    /\ task # "stopped" => mAudHalf = (playing = 1)
    /\ task = "take" => filled = {} \/ (mAudSem = 0 /\ filled = { 1 - playing })
    /\ AtWork => mAudSem = 0 /\ filled = {}
    /\ task = "write" => target = 1 - playing

AudioInv == AudioTypeOK /\ InStep

LEMMA AudioInitInv == AudioInit => AudioInv
BY DEF AudioInit, AudioInv, AudioTypeOK, InStep, AtWork

LEMMA AudioNextInv == AudioInv /\ [AudioNext]_audioVars => AudioInv'
<1> SUFFICES ASSUME AudioInv, [AudioNext]_audioVars PROVE AudioInv'
  OBVIOUS
<1> USE DEF AudioInv, AudioTypeOK, InStep, AtWork
<1>1. CASE Play
  <2>1. AudioTypeOK'
    BY <1>1 DEF Play
  <2>2. InStep'
    BY <1>1 DEF Play
  <2> QED
    BY <2>1, <2>2
<1>2. CASE Take
  BY <1>2 DEF Take
<1>3. CASE TakeLate
  BY <1>3 DEF TakeLate
<1>4. CASE Choose
  <2>1. AudioTypeOK'
    BY <1>4 DEF Choose
  <2>2. ASSUME ~slip' PROVE ~lost' /\ target' = 1 - playing
    <3>1. ~slip /\ ~lost /\ filled = {} /\ mAudHalf = (playing = 1)
      BY <1>4, <2>2 DEF Choose
    <3>2. target' = 1 - playing
      <4>1. CASE playing = 0
        <5>1. ~mAudHalf
          BY <3>1, <4>1
        <5> QED
          BY <1>4, <4>1, <5>1 DEF Choose
      <4>2. CASE playing = 1
        <5>1. mAudHalf
          BY <3>1, <4>2
        <5> QED
          BY <1>4, <4>2, <5>1 DEF Choose
      <4> QED
        BY <4>1, <4>2
    <3>3. target' # playing
      BY <3>2
    <3> QED
      BY <1>4, <3>1, <3>2, <3>3 DEF Choose
  <2> QED
    BY <1>4, <2>1, <2>2 DEF Choose
<1>5. CASE Written
  <2>1. AudioTypeOK'
    BY <1>5 DEF Written
  <2>2. ASSUME ~slip' PROVE filled' = { 1 - playing } /\ mAudSem' = 0 /\ ~lost'
    <3>1. ~slip /\ ~lost /\ filled = {} /\ mAudSem = 0 /\ target = 1 - playing
      BY <1>5, <2>2 DEF Written
    <3>2. target # playing
      BY <3>1
    <3> QED
      BY <1>5, <3>1, <3>2 DEF Written
  <2> QED
    BY <1>5, <2>1, <2>2 DEF Written
<1>6. CASE Stop
  BY <1>6 DEF Stop
<1>7. CASE Transferred
  <2>1. playing' = 0 \/ playing' = 1
    BY <1>7 DEF Transferred
  <2>2. AudioTypeOK'
    BY <1>7, <2>1 DEF Transferred
  <2>3. InStep'
    BY <1>7, <2>1 DEF Transferred, InStepNow
  <2> QED
    BY <2>2, <2>3
<1>8. CASE UNCHANGED audioVars
  BY <1>8 DEF audioVars
<1> QED
  BY <1>1, <1>2, <1>3, <1>4, <1>5, <1>6, <1>7, <1>8 DEF AudioNext

LEMMA AudioAlways == AudioInit /\ [][AudioNext]_audioVars => []AudioInv
BY AudioInitInv, AudioNextInv, PTL

\* The types of the sound part.
THEOREM AudioTypeCorrect == AudioInit /\ [][AudioNext]_audioVars => []AudioTypeOK
<1>1. AudioInv => AudioTypeOK
  BY DEF AudioInv
<1> QED
  BY <1>1, AudioAlways, PTL

\* A half that is played is being written, or one that waits to be played is written
\* again, only when the player is out of step with the stream.
THEOREM AudioIsKept == AudioInit /\ [][AudioNext]_audioVars => []AudioKept
<1>1. AudioInv => AudioKept
  BY DEF AudioInv, InStep, AudioKept
<1> QED
  BY <1>1, AudioAlways, PTL

-----------------------------------------------------------------------------
Speakers == [ at : { "wait", "give" }, seqNum : 0 .. NumSegments, lastSeqNum : 0 .. NumSegments ]

LEMMA HlsStepType == HlsTypeOK /\ [HlsNext]_hlsVars => HlsTypeOK'
<1> SUFFICES ASSUME HlsTypeOK, [HlsNext]_hlsVars PROVE HlsTypeOK'
  OBVIOUS
<1>a. speaker \in Speakers /\ wanted \in Segments /\ mHlsSem \in { 0, 1 }
  BY DEF HlsTypeOK, Speakers
<1>1. CASE UNCHANGED hlsVars
  BY <1>1 DEF hlsVars, HlsTypeOK
<1>2. CASE SetChan \/ SameChan
  <2>1. 1 \in Segments
    BY HlsAssumption DEF Segments
  <2> QED
    BY <1>2, <2>1 DEF SetChan, SameChan, HlsTypeOK
<1>3. CASE Load
  <2>1. ready' \subseteq Segments
    BY <1>3 DEF Load, HlsTypeOK
  <2> QED
    BY <1>3, <2>1 DEF Load, HlsTypeOK
<1>4. CASE LoaderTake
  BY <1>4 DEF LoaderTake, HlsTypeOK
<1>5. CASE Speak
  <2>1. wanted' \in Segments
    BY <1>5, <1>a DEF Speak
  <2>2. speaker' \in Speakers
    <3>1. \A n \in 0 .. NumSegments : [ speaker EXCEPT !.at = "give", !.seqNum = n ] \in Speakers
      BY <1>a DEF Speakers
    <3>2. [ speaker EXCEPT !.at = "give" ] \in Speakers
      BY <1>a DEF Speakers
    <3>3. wanted \in 0 .. NumSegments /\ 0 \in 0 .. NumSegments
      BY <1>a, HlsAssumption DEF Segments
    <3> QED
      BY <1>5, <3>1, <3>2, <3>3 DEF Speak
  <2> QED
    BY <1>5, <2>1, <2>2 DEF Speak, HlsTypeOK, Speakers
<1>6. CASE Tell
  <2>1. speaker' \in Speakers
    <3>1. \A n \in 0 .. NumSegments :
            [ speaker EXCEPT !.at = "wait", !.lastSeqNum = n ] \in Speakers
      BY <1>a DEF Speakers
    <3>2. speaker.seqNum \in 0 .. NumSegments /\ speaker.lastSeqNum \in 0 .. NumSegments
      BY <1>a DEF Speakers
    <3>3. \E n \in { speaker.seqNum, speaker.lastSeqNum } :
            speaker' = [ speaker EXCEPT !.at = "wait", !.lastSeqNum = n ]
      BY <1>6 DEF Tell, Told
    <3> QED
      BY <3>1, <3>2, <3>3
  <2>2. mHlsSem' \in { 0, 1 }
    BY <1>6, <1>a DEF Tell, Told
  <2> QED
    BY <1>6, <2>1, <2>2 DEF Tell, Told, HlsTypeOK, Speakers
<1>7. CASE ChangeChan \/ SetMode \/ Scrub
  BY <1>7 DEF ChangeChan, SetMode, Scrub, HlsTypeOK
<1> QED
  BY <1>1, <1>2, <1>3, <1>4, <1>5, <1>6, <1>7 DEF HlsNext, LoaderTask, SpeakerTask

\* The types of the radio: what is loaded and played are segments of the stream.
THEOREM HlsTypeCorrect == HlsInit /\ [][HlsNext]_hlsVars => []HlsTypeOK
<1>1. HlsInit => HlsTypeOK
  <2>1. 1 \in Segments /\ 0 \in 0 .. NumSegments
    BY HlsAssumption DEF Segments
  <2>2. [ at |-> "wait", seqNum |-> 0, lastSeqNum |-> 0 ] \in Speakers
    BY <2>1 DEF Speakers
  <2> QED
    BY <2>1, <2>2 DEF HlsInit, HlsTypeOK, Speakers, Modes
<1> QED
  BY <1>1, HlsStepType, PTL

-----------------------------------------------------------------------------
\* The types of the firmware, whichever part is followed.
THEOREM FirmwareTypeCorrect == Spec => []TypeOK
<1>1. Init => part \in Parts
  BY DEF Init
<1>2. part \in Parts /\ [Next]_vars => (part \in Parts)'
  BY DEF Next, Others, vars
<1>3. Spec => [](part \in Parts)
  BY <1>1, <1>2, PTL DEF Spec
<1>4. Spec => []RenderTypeOK /\ []LinesTypeOK /\ []Mp3TypeOK
  BY RenderFollowed, RenderTypeCorrect, LinesFollowed, LinesTypeCorrect, Mp3Followed, Mp3TypeCorrect
<1>5. Spec => []AudioTypeOK /\ []HlsTypeOK /\ []EthTypeOK
  BY AudioFollowed, AudioTypeCorrect, HlsFollowed, HlsTypeCorrect, EthFollowed, EthTypeCorrect
<1>6. Spec => []UsbTypeOK
  BY UsbFollowed, UsbTypeCorrect
<1>7. TypeOK <=> /\ part \in Parts /\ RenderTypeOK /\ LinesTypeOK /\ Mp3TypeOK /\ AudioTypeOK
                 /\ HlsTypeOK /\ EthTypeOK /\ UsbTypeOK
  BY DEF TypeOK
<1> QED
  BY <1>3, <1>4, <1>5, <1>6, <1>7, PTL

\* What is proved of the parts holds in the firmware: complete and untorn frames,
\* signals accounted for, log lines that exist with the newest shown, touches, tables
\* and wave forms of the right file, no sound lost, buffers kept, no lock found busy, the
\* frames of the network in their order and all of them read, and a USB device that keeps
\* to what its host may expect.
THEOREM FirmwareSafe ==
  Spec => /\ []ShownIsComplete /\ []NoTearing /\ []SignalsAccounted
          /\ []LinesInRange /\ []NewestIsShown
          /\ []NoTouchLost /\ []TableIsOfOneFile /\ []WaveIsOfTheFile
          /\ []AudioKept /\ []PbufsKept /\ []NeverBusy
          /\ []FramesInOrder /\ []NothingLeft /\ IsUsbDevice
<1>1. Spec => []ShownIsComplete /\ []NoTearing /\ []SignalsAccounted
  BY RenderFollowed, ShownFramesAreComplete, FreshFramesDoNotTear, SignalsAreAccounted
<1>2. Spec => []LinesInRange /\ []NewestIsShown
  BY LinesFollowed, DrawnLinesExist, NewestLineShown
<1>3. Spec => []NoTouchLost /\ []TableIsOfOneFile /\ []WaveIsOfTheFile
  BY Mp3Followed, TouchIsKept, TableIsWhole, WaveIsRight
<1>4. Spec => []AudioKept /\ []PbufsKept /\ []NeverBusy
  BY AudioFollowed, AudioIsKept, EthFollowed, PbufsAreKept, LockIsNeverBusy
<1>5. Spec => []FramesInOrder /\ []NothingLeft
  BY EthFollowed, FramesKeepOrder, RingIsEmptied
<1>6. Spec => IsUsbDevice
  BY UsbFollowed, ImplementsUsbDevice
<1> QED
  BY <1>1, <1>2, <1>3, <1>4, <1>5, <1>6
=============================================================================
