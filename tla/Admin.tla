-------------------------------- MODULE Admin --------------------------------
(***************************************************************************)
(* The administration service: the part of main's loop that watches the    *)
(* admin socket, admin_handlers.c, admin_actions.c, the queue of answers   *)
(* msg_queue.c, the configurations and the metrics they report, and the    *)
(* administrators (src/admin_client), who send one request and wait for    *)
(* its answer.                                                             *)
(*                                                                         *)
(* The socket is one to many: requests of every administrator arrive on it *)
(* and each answer is sent to an address.  Of the five metrics the model   *)
(* keeps the three counts of connections; transferred bytes and average    *)
(* time are written by the connections and only read here.  malloc does    *)
(* not fail and sctp_recvmsg returns the message pselect announced.        *)
(***************************************************************************)
EXTENDS Integers, Sequences, FiniteSets

CONSTANTS
    Admin,          \* the administrators
    Request,        \* what they may ask: records [type, param, value, len]
    ConfigNames,    \* the names of the configurations, in main and in argument_get
    Defaults,       \* the configurations main creates, in order: [name, value]
    CommandLines,   \* the sequences of options the proxy may be started with
    MAX_CONFIG,     \* the configurations there is space for
    MaxAsked,       \* bound: the requests the administrators make
    MaxConns,       \* bound: the connections the proxy accepts
    NoAdmin, NoRequest

RequestTypes ==
    {"SEND_CRED", "LIST_METRICS", "LIST_CONFIGS", "GET_METRIC", "GET_CONFIG", "SET_CONFIG"}

Config == [name : ConfigNames, value : Nat]

\* There is space for every name the code uses: eight of them, and 100 places.
ASSUME AdminAssumption ==
    /\ Defaults \in Seq(Config) /\ CommandLines \subseteq Seq(Config)
    /\ IsFiniteSet(ConfigNames) /\ MAX_CONFIG \in Nat /\ Cardinality(ConfigNames) <= MAX_CONFIG
    /\ Request \subseteq [type : RequestTypes, param : Nat, value : Nat, len : Int]
    /\ MaxAsked \in Nat /\ MaxConns \in Nat
    /\ NoAdmin \notin Admin /\ NoRequest \notin Request

INST_CONCURRENT_CONNECTIONS == 0
MAX_CONCURRENT_CONNECTIONS == 1
ACCESSES == 2
METRICS_ENUM_SIZE == 3

CONFIG_NOT_FOUND == 0
METRIC_NOT_FOUND == 1
INVALID_LENGTH == 3

OP_READ  == {"read"}
OP_WRITE == {"write"}

VARIABLES
    pc,             \* where main's loop is
    interest,       \* what the admin socket is watched for
    ready,          \* what pselect reported of it
    queue,          \* the answers to be sent
    addr,           \* admin_data->addr: who was heard from last
    given,          \* the configurations that main still has to create
    config,         \* configurations, a sequence of [name, value]
    metrics,        \* metrics
    incoming,       \* the requests that arrived at the socket
    inbox,          \* the answers that arrived at each administrator
    admin,          \* each administrator: idle, waiting or closed
    pending,        \* the request it waits for
    asked,          \* history: who made each request
    latest          \* history: the last value each configuration was given

loopVars  == <<pc, interest, ready>>
proxyVars == <<queue, addr, given, config, latest, metrics>>
adminVars == <<admin, pending, asked>>
vars      == <<loopVars, proxyVars, incoming, inbox, adminVars>>

Metric == 0..(METRICS_ENUM_SIZE - 1)

\* buffer_size > 0 is body; about is history: whose request it answers.
Message ==
    [type : {"LIST_METRICS", "LIST_CONFIGS", "GET_METRIC", "GET_CONFIG", "SET_CONFIG", "ERROR"},
     item : Nat, value : Nat, body : BOOLEAN, about : Admin \X Request]

TypeOK ==
    /\ pc \in {"start", "top", "pselect", "read", "write", "bottom"}
    /\ interest \in {OP_READ, OP_READ \cup OP_WRITE}
    /\ ready \subseteq {"read", "write"}
    /\ queue \in Seq(Message)
    /\ addr \in Admin \cup {NoAdmin}
    /\ given \in Seq(Config)
    /\ config \in Seq(Config) /\ Len(config) <= MAX_CONFIG
    /\ metrics \in [Metric -> Nat]
    /\ incoming \in Seq([from : Admin, request : Request])
    /\ inbox \in [Admin -> Seq(Message)]
    /\ admin \in [Admin -> {"idle", "waiting", "closed"}]
    /\ pending \in [Admin -> Request \cup {NoRequest}]
    /\ asked \in Seq(Admin) /\ Len(asked) <= MaxAsked

-----------------------------------------------------------------------------
(* The configurations: an array in the order they were created, which the  *)
(* administrators use by number and the proxy by name.                     *)

Named(cs, name) == {k \in DOMAIN cs : cs[k].name = name}
First(S) == CHOOSE k \in S : \A j \in S : k <= j

\* Mutation: a configuration that exists is created again.
ConfigCreateAppends(cs, c) == IF Len(cs) + 1 > MAX_CONFIG THEN cs ELSE Append(cs, c)

config_create(cs, c) ==
    IF Named(cs, c.name) # {} THEN [cs EXCEPT ![First(Named(cs, c.name))].value = c.value]
    ELSE IF Len(cs) + 1 > MAX_CONFIG THEN cs
    ELSE Append(cs, c)

config_get(name) == config[First(Named(config, name))].value
config_get_size  == Len(config)

\* main has its defaults to create, and argument_get its options.
Init ==
    /\ pc = "start" /\ interest = OP_READ /\ ready = {}
    /\ queue = <<>>
    /\ addr = NoAdmin
    /\ given \in {Defaults \o cl : cl \in CommandLines}
    /\ config = <<>> /\ latest = <<>>
    /\ metrics = [m \in Metric |-> 0]
    /\ incoming = <<>>
    /\ inbox = [a \in Admin |-> <<>>]
    /\ admin = [a \in Admin |-> "idle"]
    /\ pending = [a \in Admin |-> NoRequest]
    /\ asked = <<>>

-----------------------------------------------------------------------------
(* The queue of answers, a linked list whose nodes are never freed. *)

q_is_empty == queue = <<>>
q_offer(messages) == queue \o messages
q_poll == Tail(queue)

-----------------------------------------------------------------------------
(* The answers to a request r of administrator a. *)

Answer(type, item, value, body, a, r) ==
    [type |-> type, item |-> item, value |-> value, body |-> body, about |-> <<a, r>>]

send_error(code, a, r) == <<Answer("ERROR", code, 0, FALSE, a, r)>>

send_end_of_list(type, a, r) == <<Answer(type, 0, 0, FALSE, a, r)>>

send_metric(m, a, r) ==
    IF m \notin Metric THEN send_error(METRIC_NOT_FOUND, a, r)
    ELSE <<Answer("GET_METRIC", m, metrics[m], TRUE, a, r)>>

send_config(c, a, r) ==
    IF c >= config_get_size THEN send_error(CONFIG_NOT_FOUND, a, r)
    ELSE <<Answer("GET_CONFIG", c, config[c + 1].value, TRUE, a, r)>>

\* Every item in the same call, so that a list is a snapshot, and then the end.
send_list_metrics(a, r) ==
    [k \in 1..METRICS_ENUM_SIZE |-> send_metric(k - 1, a, r)[1]]
        \o send_end_of_list("LIST_METRICS", a, r)

send_list_configs(a, r) ==
    [k \in 1..config_get_size |-> send_config(k - 1, a, r)[1]]
        \o send_end_of_list("LIST_CONFIGS", a, r)

config_set_from_index(c, value) ==
    /\ config' = [config EXCEPT ![c + 1].value = value]
    /\ latest' = [latest EXCEPT ![config[c + 1].name] = value]

\* Mutation: the error is sent and the function goes on.
CheckSetConfigNoReturn(a, r) ==
    /\ IF r.param < config_get_size /\ r.len > 0
       THEN config_set_from_index(r.param, r.value) ELSE UNCHANGED <<config, latest>>
    /\ queue' = queue
        \o (IF r.param >= config_get_size THEN send_error(CONFIG_NOT_FOUND, a, r) ELSE <<>>)
        \o (IF r.len <= 0 THEN send_error(INVALID_LENGTH, a, r) ELSE <<>>)
        \o <<Answer("SET_CONFIG", 0, 0, FALSE, a, r)>>

\* Mutation: the number of the configuration is not checked.
CheckSetConfigUnchecked(a, r) ==
    /\ config' = [k \in DOMAIN config \cup {r.param + 1} |->
                     [name |-> IF k \in DOMAIN config THEN config[k].name ELSE "",
                      value |-> IF k = r.param + 1 THEN r.value ELSE config[k].value]]
    /\ queue' = q_offer(<<Answer("SET_CONFIG", 0, 0, FALSE, a, r)>>)
    /\ UNCHANGED latest

check_set_config(a, r) ==
    \/ /\ r.param >= config_get_size
       /\ queue' = q_offer(send_error(CONFIG_NOT_FOUND, a, r))
       /\ UNCHANGED <<config, latest>>
    \/ /\ r.param < config_get_size /\ r.len <= 0
       /\ queue' = q_offer(send_error(INVALID_LENGTH, a, r))
       /\ UNCHANGED <<config, latest>>
    \/ /\ r.param < config_get_size /\ r.len > 0
       /\ config_set_from_index(r.param, r.value)
       /\ queue' = q_offer(<<Answer("SET_CONFIG", 0, 0, FALSE, a, r)>>)

\* The requests that only read; check_credentials is empty and answers nothing.
Answers(a, r) ==
    CASE r.type = "SEND_CRED"    -> <<>>
      [] r.type = "LIST_METRICS" -> send_list_metrics(a, r)
      [] r.type = "LIST_CONFIGS" -> send_list_configs(a, r)
      [] r.type = "GET_METRIC"   -> send_metric(r.param, a, r)
      [] r.type = "GET_CONFIG"   -> send_config(r.param, a, r)

-----------------------------------------------------------------------------
(* The main thread: the start of main, and its loop around selector_select. *)

\* main, initialize_configurations and argument_get create the configurations
\* one by one.
CreateConfig ==
    LET c == Head(given)
    IN  /\ pc = "start" /\ given # <<>>
        /\ config' = config_create(config, c)
        /\ latest' = [n \in DOMAIN latest \cup {c.name} |->
                         IF n = c.name THEN c.value ELSE latest[n]]
        /\ given' = Tail(given)
        /\ UNCHANGED <<loopVars, queue, addr, metrics, incoming, inbox, adminVars>>

\* The sockets are listening, and the loop begins.
StartLoop ==
    /\ pc = "start" /\ given = <<>>
    /\ pc' = "top"
    /\ UNCHANGED <<interest, ready, proxyVars, incoming, inbox, adminVars>>

\* At the top of the loop.
LoopTop ==
    /\ pc = "top"
    /\ interest' = IF q_is_empty THEN OP_READ ELSE interest
    /\ pc' = "pselect"
    /\ UNCHANGED <<ready, proxyVars, incoming, inbox, adminVars>>

\* pselect returns with the admin socket ready for some of its interests, or
\* for none: another descriptor, a signal or the timeout ended the wait.
Pselect(R) ==
    /\ pc = "pselect"
    /\ "read" \in R => incoming # <<>>
    /\ R \subseteq interest
    /\ ready' = R
    /\ pc' = "read"
    /\ UNCHANGED <<interest, proxyVars, incoming, inbox, adminVars>>

\* admin_read_handler: one message, whose sender's address replaces the last.
admin_read_handler ==
    LET a == Head(incoming).from
        r == Head(incoming).request
    IN  /\ incoming' = Tail(incoming)
        /\ addr' = a
        /\ \/ r.type = "SET_CONFIG" /\ check_set_config(a, r)
           \/ /\ r.type # "SET_CONFIG"
              /\ queue' = q_offer(Answers(a, r))
              /\ UNCHANGED <<config, latest>>
        /\ UNCHANGED <<given, metrics, inbox>>

\* Mutation: an answer that cannot be sent is kept and tried again.
AdminWriteRetries ==
    /\ ~q_is_empty
    /\ \/ /\ admin[addr] # "closed"
          /\ queue' = q_poll
          /\ inbox' = [inbox EXCEPT ![addr] = Append(@, Head(queue))]
       \/ UNCHANGED <<queue, inbox>>
    /\ UNCHANGED <<addr, given, config, latest, metrics, incoming>>

\* admin_write_handler: one answer, to the address of whoever was heard from
\* last.  It leaves the queue even if sctp_sendmsg fails.
admin_write_handler ==
    /\ ~q_is_empty
    /\ queue' = q_poll
    /\ \/ /\ admin[addr] # "closed"
          /\ inbox' = [inbox EXCEPT ![addr] = Append(@, Head(queue))]
       \/ UNCHANGED inbox
    /\ UNCHANGED <<addr, given, config, latest, metrics, incoming>>

\* handle_iteration, for the admin socket: reading before writing.
IterateRead ==
    /\ pc = "read"
    /\ pc' = "write"
    /\ \/ "read" \in ready /\ admin_read_handler
       \/ "read" \notin ready /\ UNCHANGED <<proxyVars, incoming, inbox>>
    /\ UNCHANGED <<interest, ready, adminVars>>

IterateWrite ==
    /\ pc = "write"
    /\ pc' = "bottom"
    /\ ready' = {}
    /\ \/ "write" \in ready /\ ~q_is_empty /\ admin_write_handler
       \/ ~("write" \in ready /\ ~q_is_empty) /\ UNCHANGED <<proxyVars, incoming, inbox>>
    /\ UNCHANGED <<interest, adminVars>>

\* Mutation: the answers that selector_select left are not watched.
LoopBottomForgets ==
    /\ pc = "bottom"
    /\ pc' = "top"
    /\ UNCHANGED <<interest, ready, proxyVars, incoming, inbox, adminVars>>

LoopBottom ==
    /\ pc = "bottom"
    /\ interest' = IF ~q_is_empty THEN OP_READ \cup OP_WRITE ELSE interest
    /\ pc' = "top"
    /\ UNCHANGED <<ready, proxyVars, incoming, inbox, adminVars>>

\* The connections' callbacks run in the same iteration, after the admin
\* socket's: main opened it before the listening socket, so its descriptor is
\* lower.
Others == pc = "bottom"

\* A connection is accepted.
metric_new_connection ==
    LET inst == metrics[INST_CONCURRENT_CONNECTIONS] + 1
    IN  /\ Others
        /\ inst + metrics[ACCESSES] <= MaxConns
        /\ metrics' = [metrics EXCEPT
              ![INST_CONCURRENT_CONNECTIONS] = inst,
              ![MAX_CONCURRENT_CONNECTIONS] = IF inst > @ THEN inst ELSE @]
        /\ UNCHANGED <<loopVars, queue, addr, given, config, latest, incoming, inbox, adminVars>>

\* Mutation: the connection that ended is not counted.
MetricCloseUncounted ==
    /\ Others
    /\ metrics[INST_CONCURRENT_CONNECTIONS] > 0
    /\ metrics' = [metrics EXCEPT ![INST_CONCURRENT_CONNECTIONS] = @ - 1]
    /\ UNCHANGED <<loopVars, queue, addr, given, config, latest, incoming, inbox, adminVars>>

\* A connection is released.
metric_close_connection ==
    /\ Others
    /\ metrics[INST_CONCURRENT_CONNECTIONS] > 0
    /\ metrics' = [metrics EXCEPT ![INST_CONCURRENT_CONNECTIONS] = @ - 1, ![ACCESSES] = @ + 1]
    /\ UNCHANGED <<loopVars, queue, addr, given, config, latest, incoming, inbox, adminVars>>

-----------------------------------------------------------------------------
(* The administrators. *)

\* send_credentials does not wait for an answer; the others do.
Ask(a, r) ==
    /\ pc # "start" /\ admin[a] = "idle"
    /\ Len(asked) < MaxAsked
    /\ asked' = Append(asked, a)
    /\ incoming' = Append(incoming, [from |-> a, request |-> r])
    /\ \/ r.type = "SEND_CRED" /\ UNCHANGED <<admin, pending>>
       \/ /\ r.type # "SEND_CRED"
          /\ admin' = [admin EXCEPT ![a] = "waiting"]
          /\ pending' = [pending EXCEPT ![a] = r]
    /\ UNCHANGED <<loopVars, proxyVars, inbox>>

IsList(r) == r.type \in {"LIST_METRICS", "LIST_CONFIGS"}

\* get_and_show_response: one message, or, for a list, until one without body.
get_and_show_response(a) ==
    /\ admin[a] = "waiting"
    /\ inbox[a] # <<>>
    /\ inbox' = [inbox EXCEPT ![a] = Tail(@)]
    /\ \/ IsList(pending[a]) /\ Head(inbox[a]).body /\ UNCHANGED <<admin, pending>>
       \/ /\ ~(IsList(pending[a]) /\ Head(inbox[a]).body)
          /\ admin' = [admin EXCEPT ![a] = "idle"]
          /\ pending' = [pending EXCEPT ![a] = NoRequest]
    /\ UNCHANGED <<loopVars, proxyVars, incoming, asked>>

\* The administrator leaves, from the menu or interrupted while it waits.
Close(a) ==
    /\ admin[a] # "closed"
    /\ admin' = [admin EXCEPT ![a] = "closed"]
    /\ pending' = [pending EXCEPT ![a] = NoRequest]
    /\ inbox' = [inbox EXCEPT ![a] = <<>>]
    /\ UNCHANGED <<loopVars, proxyVars, incoming, asked>>

-----------------------------------------------------------------------------
MainStep ==
    \/ CreateConfig \/ StartLoop
    \/ LoopTop
    \/ \E R \in SUBSET {"read", "write"} : Pselect(R)
    \/ IterateRead \/ IterateWrite
    \/ LoopBottom

Next ==
    \/ MainStep
    \/ metric_new_connection \/ metric_close_connection
    \/ \E a \in Admin :
          \/ \E r \in Request : Ask(a, r)
          \/ get_and_show_response(a)
          \/ Close(a)

Writable == \E R \in SUBSET {"read", "write"} : "write" \in R /\ Pselect(R)

\* The main thread never stops, since pselect has a timeout; and a socket that is
\* watched for writing is found writable again and again, since what was sent on
\* it is delivered or given up by SCTP.
Fairness == WF_vars(MainStep) /\ SF_vars(Writable)

Spec == Init /\ [][Next]_vars /\ Fairness

-----------------------------------------------------------------------------
\* When main's loop waits, the admin socket is watched for writing if there are
\* answers to send.
AnswersAreWatched == pc = "pselect" /\ queue # <<>> => "write" \in interest

\* The metrics of one list were taken at one moment: the connections there are
\* do not exceed the maximum, and the maximum not the connections there have been.
ListIsSnapshot ==
    \A k \in 1..(Len(queue) - 2) :
        LET Is(j, m) == /\ queue[j].type = "GET_METRIC" /\ queue[j].item = m
                        /\ queue[j].about[2].type = "LIST_METRICS"
        IN  /\ Is(k, INST_CONCURRENT_CONNECTIONS)
            => /\ Is(k + 1, MAX_CONCURRENT_CONNECTIONS) /\ Is(k + 2, ACCESSES)
               /\ queue[k].value <= queue[k + 1].value
               /\ queue[k + 1].value <= queue[k].value + queue[k + 2].value

\* A connection that asks for a configuration by its name gets the value that was
\* given to it last, by main, by the last option that names it, or by whichever
\* administrator set the number under which lists show that name.
ConfigIsLatest == \A name \in DOMAIN latest : config_get(name) = latest[name]

\* Every message that reaches an administrator answers the request it waits for.
AnswersItsRequest ==
    \A a \in Admin : \A k \in 1..Len(inbox[a]) : inbox[a][k].about = <<a, pending[a]>>

\* An administrator who is alone gets the answers to its requests and nothing
\* else, however connections come and go and whatever answers are lost.
AloneIsServed ==
    (\A j, k \in 1..Len(asked) : asked[j] = asked[k]) => AnswersItsRequest

\* The answers are all sent, whoever asked and whether or not it is still there.
AnswersAreSent == []<>(queue = <<>>)

=============================================================================
