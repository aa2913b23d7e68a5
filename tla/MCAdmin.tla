------------------------------- MODULE MCAdmin -------------------------------
(* One request of each kind, and those that are refused. *)
EXTENDS Admin

Ask_(type, param, value, len) == [type |-> type, param |-> param, value |-> value, len |-> len]

\* Two of the configurations main creates, and a command line that gives one of
\* them another value and adds one.
Created == <<[name |-> "buffers_size", value |-> 0], [name |-> "proxy_port", value |-> 0]>>
Options == {<<[name |-> "proxy_port", value |-> 2], [name |-> "proxy_addr", value |-> 2]>>}

Requests ==
    {Ask_("SEND_CRED", 0, 0, 1), Ask_("LIST_METRICS", 0, 0, 0), Ask_("LIST_CONFIGS", 0, 0, 0),
     Ask_("GET_METRIC", METRICS_ENUM_SIZE, 0, 0), Ask_("GET_CONFIG", 1, 0, 0),
     Ask_("SET_CONFIG", 1, 1, 1), Ask_("SET_CONFIG", 1, 1, 0), Ask_("SET_CONFIG", 3, 1, 1)}

=============================================================================
