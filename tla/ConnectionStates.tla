--------------------------- MODULE ConnectionStates ---------------------------
(***************************************************************************)
(* The states of a VPN session and the moves between them, of              *)
(* vpn/models.py.                                                          *)
(***************************************************************************)

State == {"DISCONNECTED", "STARTING", "CONNECTING", "CONNECTED", "DISCONNECTING", "FAILED",
          "WAITING_FOR_AUTH", "WAITING_FOR_CERTIFICATE_TRUST", "CLOSING"}
Connectable == {"DISCONNECTED", "FAILED"}
Cancelable  == {"WAITING_FOR_AUTH", "WAITING_FOR_CERTIFICATE_TRUST", "CONNECTING", "CONNECTED"}

ALLOWED_TRANSITIONS ==
  [DISCONNECTED     |-> {"STARTING", "FAILED", "CLOSING"},
   STARTING         |-> {"CONNECTING", "WAITING_FOR_AUTH", "WAITING_FOR_CERTIFICATE_TRUST",
                         "FAILED", "DISCONNECTING", "CLOSING"},
   CONNECTING       |-> {"CONNECTED", "FAILED", "DISCONNECTING", "WAITING_FOR_AUTH",
                         "WAITING_FOR_CERTIFICATE_TRUST", "CLOSING"},
   WAITING_FOR_AUTH |-> {"CONNECTING", "FAILED", "DISCONNECTING",
                         "WAITING_FOR_CERTIFICATE_TRUST", "CLOSING"},
   WAITING_FOR_CERTIFICATE_TRUST |-> {"STARTING", "DISCONNECTING", "FAILED", "DISCONNECTED",
                                      "CLOSING"},
   CONNECTED        |-> {"DISCONNECTING", "FAILED", "CLOSING"},
   DISCONNECTING    |-> {"DISCONNECTED", "FAILED", "CLOSING"},
   FAILED           |-> {"DISCONNECTED", "STARTING", "CLOSING"},
   CLOSING          |-> {"DISCONNECTED", "FAILED"}]
===============================================================================
