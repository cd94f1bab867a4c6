---------------------------- MODULE UsbRequests ----------------------------
(***************************************************************************)
(* The control requests that a host sends: the standard ones of USB 2.0,   *)
(* chapter 9, and the two of the mass storage class, with what decides     *)
(* between the cases of src/USB_Device/usbd_ctlreq.c.  "arg" is what the   *)
(* request names: a descriptor (1 for one that the device has), an address *)
(* or a configuration, a feature (1 for remote wake-up), an interface or   *)
(* an endpoint, whose only feature is its halt.  Lengths are right, save   *)
(* where the code looks at them.  Left out are class requests for an       *)
(* endpoint, and descriptors, features and tests of other specifications.  *)
(***************************************************************************)
EXTENDS Naturals

\* The endpoints: 0 is the default one.
BulkOut == 1
BulkIn == 2
Bulk == { BulkOut, BulkIn }

To(recipient, in, reqs, args, lengths) ==
  [ to : { recipient }, in : { in }, req : reqs, arg : args, wLength : lengths ]

\* "any" stands for standard requests without a case of their own, "any_class" for
\* such requests of the class.
UsbRequests ==
         To("device", TRUE, { "GET_DESCRIPTOR" }, 0 .. 1, 0 .. 1)
  \union To("device", TRUE, { "GET_CONFIGURATION" }, { 0 }, 1 .. 2)
  \union To("device", TRUE, { "GET_STATUS" }, { 0 }, { 2 })
  \union To("device", FALSE, { "SET_ADDRESS", "SET_FEATURE", "CLEAR_FEATURE" }, 0 .. 1, { 0 })
  \union To("device", FALSE, { "SET_CONFIGURATION" }, 0 .. 2, { 0 })
  \union To("device", FALSE, { "any" }, { 0 }, { 0 })
  \union To("interface", TRUE, { "GET_MAX_LUN", "GET_INTERFACE" }, 0 .. 2, { 1 })
  \union To("interface", TRUE, { "GET_STATUS" }, 0 .. 2, { 2 })
  \union To("interface", FALSE, { "BOT_RESET", "SET_INTERFACE", "CLEAR_FEATURE", "any",
                                "any_class" }, 0 .. 2, { 0 })
  \union To("endpoint", TRUE, { "GET_STATUS" }, { 0 } \union Bulk, { 2 })
  \union To("endpoint", FALSE, { "SET_FEATURE", "CLEAR_FEATURE", "any" },
            { 0 } \union Bulk, { 0 })
  \union To("other", TRUE, { "any" }, { 0 }, { 1 })
  \union To("other", FALSE, { "any" }, { 0 }, { 0 })

NoUsbRequest == [ to |-> "other", in |-> FALSE, req |-> "none", arg |-> 0, wLength |-> 0 ]
=============================================================================
