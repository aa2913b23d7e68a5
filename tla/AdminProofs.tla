----------------------------- MODULE AdminProofs -----------------------------
(***************************************************************************)
(* For any number of administrators, requests, configurations and          *)
(* connections: the queue of answers is watched when it has to be, a list  *)
(* of metrics is a snapshot, a configuration has the value it was given    *)
(* last, and whoever is alone gets the answers to its own requests.        *)
(***************************************************************************)
EXTENDS Admin, SequenceTheorems, FunctionTheorems, FiniteSetTheorems, TLAPS

-----------------------------------------------------------------------------
(* The inductive invariant. *)

\* The queue is empty before the loop, and watched where the loop waits; what
\* pselect announced is there to be read; answers have an address to go to.
Watched ==
    /\ pc = "start" => queue = <<>>
    /\ pc \in {"top", "pselect"} /\ queue # <<>> => "write" \in interest
    /\ pc = "read" /\ "read" \in ready => incoming # <<>>
    /\ queue # <<>> => addr # NoAdmin

\* Three counts that one moment can show.
Possible(inst, max, accesses) == inst <= max /\ max <= inst + accesses

Counted ==
    Possible(metrics[INST_CONCURRENT_CONNECTIONS],
             metrics[MAX_CONCURRENT_CONNECTIONS], metrics[ACCESSES])

Lists(s, j, m) ==
    /\ s[j].type = "GET_METRIC" /\ s[j].item = m
    /\ s[j].about[2].type = "LIST_METRICS"

\* The first metric of a list is followed by the others, taken with it.
Whole(s, k) ==
    Lists(s, k, INST_CONCURRENT_CONNECTIONS) =>
        /\ k + 2 <= Len(s)
        /\ Lists(s, k + 1, MAX_CONCURRENT_CONNECTIONS) /\ Lists(s, k + 2, ACCESSES)
        /\ Possible(s[k].value, s[k + 1].value, s[k + 2].value)

Snapshots(s) == \A k \in 1..Len(s) : Whole(s, k)

\* No name is there twice, and each has its latest value.
Distinct(cs) == \A j, k \in DOMAIN cs : cs[j].name = cs[k].name => j = k

Current(cs, values) ==
    /\ DOMAIN values = {cs[k].name : k \in DOMAIN cs}
    /\ \A k \in DOMAIN cs : values[cs[k].name] = cs[k].value

Configured == Distinct(config) /\ Current(config, latest)

\* Every request was made by a.
Only(a) == \A j \in DOMAIN asked : asked[j] = a

Credentials(s) == \A k \in DOMAIN s : s[k].request.type = "SEND_CRED"

\* The administrator goes on waiting after this message.
More(message, r) == IsList(r) /\ message.body

\* Messages of the answer to request r of a: after each but the last, more come.
AnswerTo(s, a, r) ==
    \A k \in DOMAIN s : s[k].about = <<a, r>> /\ (k < Len(s) => More(s[k], r))

\* After all of them more come.
Unfinished(s, r) == \A k \in DOMAIN s : More(s[k], r)

\* The request a waits for was not read yet.
Unread(a) ==
    /\ queue = <<>> /\ inbox[a] = <<>> /\ incoming # <<>>
    /\ pending[a].type # "SEND_CRED"
    /\ \A k \in DOMAIN incoming :
          /\ k = Len(incoming) => incoming[k].request = pending[a]
          /\ k # Len(incoming) => incoming[k].request.type = "SEND_CRED"

\* It was, and what there is of its answer is in the queue or has arrived.
Read(a) ==
    /\ Credentials(incoming)
    /\ AnswerTo(inbox[a], a, pending[a]) /\ AnswerTo(queue, a, pending[a])
    /\ queue # <<>> => Unfinished(inbox[a], pending[a])

\* What follows from a being the only one who asks.
Alone(a) ==
    /\ addr \in {a, NoAdmin}
    /\ \A k \in DOMAIN incoming : incoming[k].from = a
    /\ \A b \in Admin \ {a} : inbox[b] = <<>>
    /\ admin[a] = "closed" => inbox[a] = <<>>
    /\ admin[a] = "idle" => queue = <<>> /\ inbox[a] = <<>> /\ Credentials(incoming)
    /\ admin[a] = "waiting" => Unread(a) \/ Read(a)

Served == \A a \in Admin : Only(a) => Alone(a)

Inv == TypeOK /\ Watched /\ Counted /\ Snapshots(queue) /\ Configured /\ Served

-----------------------------------------------------------------------------
(* The answers. *)

\* An answer of one message is about its request and not an item of a list.
LEMMA SingleAnswer ==
    ASSUME NEW a \in Admin, NEW r \in Request, ~IsList(r),
           NEW x \in Message, x.about = <<a, r>>
    PROVE  <<x>> \in Seq(Message) /\ AnswerTo(<<x>>, a, r) /\ Snapshots(<<x>>)
<1> DEFINE t == <<x>>
<1>1. t \in Seq(Message) /\ Len(t) = 1 /\ DOMAIN t = 1..1 /\ t[1] = x
  OBVIOUS
<1> HIDE DEF t
<1>2. AnswerTo(t, a, r)
  BY <1>1 DEF AnswerTo
<1>3. ~Lists(t, 1, INST_CONCURRENT_CONNECTIONS)
  BY <1>1 DEF Lists, IsList
<1>4. Snapshots(t)
  BY <1>1, <1>3 DEF Snapshots, Whole
<1>5. QED BY <1>1, <1>2, <1>4 DEF t

\* The error that refuses a request.
LEMMA ErrorAnswer ==
    ASSUME NEW code \in Nat, NEW a \in Admin, NEW r \in Request
    PROVE  \E x \in Message : send_error(code, a, r) = <<x>> /\ x.about = <<a, r>>
<1>1. /\ Answer("ERROR", code, 0, FALSE, a, r) \in Message
      /\ Answer("ERROR", code, 0, FALSE, a, r).about = <<a, r>>
  BY DEF Answer, Message
<1>2. QED BY <1>1 DEF send_error

\* A metric, or the error that there is no such metric.
LEMMA MetricAnswer ==
    ASSUME metrics \in [Metric -> Nat], NEW m \in Nat, NEW a \in Admin, NEW r \in Request
    PROVE  \E x \in Message : send_metric(m, a, r) = <<x>> /\ x.about = <<a, r>>
<1>1. CASE m \notin Metric
  <2>1. METRIC_NOT_FOUND \in Nat
    BY DEF METRIC_NOT_FOUND
  <2>2. QED BY <1>1, <2>1, ErrorAnswer DEF send_metric
<1>2. CASE m \in Metric
  <2>1. metrics[m] \in Nat
    BY <1>2
  <2>2. /\ Answer("GET_METRIC", m, metrics[m], TRUE, a, r) \in Message
        /\ Answer("GET_METRIC", m, metrics[m], TRUE, a, r).about = <<a, r>>
    BY <2>1 DEF Answer, Message
  <2>3. QED BY <1>2, <2>2 DEF send_metric
<1>3. QED BY <1>1, <1>2

\* A configuration, or the error that there is no such configuration.
LEMMA ConfigAnswer ==
    ASSUME config \in Seq(Config), NEW c \in Nat, NEW a \in Admin, NEW r \in Request
    PROVE  \E x \in Message : send_config(c, a, r) = <<x>> /\ x.about = <<a, r>>
<1>1. CASE c >= config_get_size
  <2>1. CONFIG_NOT_FOUND \in Nat
    BY DEF CONFIG_NOT_FOUND
  <2>2. QED BY <1>1, <2>1, ErrorAnswer DEF send_config
<1>2. CASE ~(c >= config_get_size)
  <2>1. c + 1 \in 1..Len(config)
    BY <1>2, LenProperties DEF config_get_size
  <2>2. config[c + 1] \in Config
    BY <2>1, ElementOfSeq
  <2>3. config[c + 1].value \in Nat
    BY <2>2 DEF Config
  <2>4. /\ Answer("GET_CONFIG", c, config[c + 1].value, TRUE, a, r) \in Message
        /\ Answer("GET_CONFIG", c, config[c + 1].value, TRUE, a, r).about = <<a, r>>
    BY <2>3 DEF Answer, Message
  <2>5. QED BY <1>2, <2>4 DEF send_config
<1>3. QED BY <1>1, <1>2

\* The items of a list and its end.
LEMMA ListAnswer ==
    ASSUME NEW n \in Nat, NEW s \in [1..n -> Message], NEW x \in Message,
           NEW a \in Admin, NEW r \in Request, IsList(r), x.about = <<a, r>>,
           \A k \in 1..n : s[k].about = <<a, r>> /\ s[k].body
    PROVE  /\ s \o <<x>> \in Seq(Message)
           /\ Len(s \o <<x>>) = n + 1
           /\ \A k \in 1..n : (s \o <<x>>)[k] = s[k]
           /\ (s \o <<x>>)[n + 1] = x
           /\ AnswerTo(s \o <<x>>, a, r)
<1> DEFINE t == s \o <<x>>
<1>1. s \in Seq(Message)
  BY SeqDef
<1>2. Len(s) = n
  BY <1>1, LenProperties
<1>3. t = Append(s, x)
  BY <1>1, AppendIsConcat
<1> HIDE DEF t
<1>4. /\ t \in Seq(Message) /\ Len(t) = n + 1 /\ t[n + 1] = x
      /\ \A k \in 1..n : t[k] = s[k]
  BY <1>1, <1>2, <1>3, AppendProperties
<1>5. ASSUME NEW k \in 1..(n + 1)
      PROVE  t[k].about = <<a, r>> /\ (k < n + 1 => More(t[k], r))
  <2>1. CASE k \in 1..n
    BY <2>1, <1>4 DEF More
  <2>2. CASE k = n + 1
    BY <2>2, <1>4
  <2>3. QED BY <2>1, <2>2
<1>6. AnswerTo(t, a, r)
  BY <1>4, <1>5, LenProperties DEF AnswerTo
<1>7. QED BY <1>4, <1>6 DEF t

\* The list of the metrics is a snapshot of the counts.
LEMMA MetricsAnswer ==
    ASSUME metrics \in [Metric -> Nat], NEW a \in Admin, NEW r \in Request,
           r.type = "LIST_METRICS"
    PROVE  /\ send_list_metrics(a, r) \in Seq(Message)
           /\ AnswerTo(send_list_metrics(a, r), a, r)
           /\ Counted => Snapshots(send_list_metrics(a, r))
<1> DEFINE M(k) == Answer("GET_METRIC", k - 1, metrics[k - 1], TRUE, a, r)
           n == 3
           s == [k \in 1..n |-> M(k)]
           x == Answer("LIST_METRICS", 0, 0, FALSE, a, r)
           t == s \o <<x>>
<1>1. send_list_metrics(a, r) = t
  <2>1. ASSUME NEW k \in 1..3 PROVE send_metric(k - 1, a, r)[1] = M(k)
    <3>1. k - 1 \in Metric
      BY DEF Metric, METRICS_ENUM_SIZE
    <3>2. send_metric(k - 1, a, r) = <<M(k)>>
      BY <3>1 DEF send_metric
    <3> HIDE DEF M
    <3>3. QED BY <3>2
  <2>2. QED BY <2>1 DEF send_list_metrics, send_end_of_list, METRICS_ENUM_SIZE
<1>2. ASSUME NEW k \in 1..n
      PROVE  /\ M(k) \in Message /\ M(k).type = "GET_METRIC" /\ M(k).item = k - 1
             /\ M(k).value = metrics[k - 1] /\ M(k).body = TRUE /\ M(k).about = <<a, r>>
  <2>1. k - 1 \in Nat /\ metrics[k - 1] \in Nat
    BY DEF Metric, METRICS_ENUM_SIZE
  <2>2. QED BY <2>1 DEF Answer, Message
<1>3. x \in Message /\ x.about = <<a, r>> /\ x.type = "LIST_METRICS"
  BY DEF Answer, Message
<1> HIDE DEF M, x
<1>4. s \in [1..n -> Message]
  BY <1>2
<1>5. \A k \in 1..n : s[k] = M(k)
  OBVIOUS
<1> HIDE DEF s
<1> HIDE DEF n
<1>6. /\ t \in Seq(Message) /\ Len(t) = n + 1 /\ t[n + 1] = x
      /\ \A k \in 1..n : t[k] = s[k]
      /\ AnswerTo(t, a, r)
  <2>1. IsList(r) /\ \A k \in 1..n : s[k].about = <<a, r>> /\ s[k].body
    BY <1>2, <1>5 DEF IsList
  <2>2. n \in Nat
    BY DEF n
  <2>3. QED BY ONLY <1>3, <1>4, <2>1, <2>2, ListAnswer, a \in Admin, r \in Request DEF t
<1> USE DEF n
<1> HIDE DEF t
<1>7. ASSUME Counted PROVE Snapshots(t)
  <2> USE DEF INST_CONCURRENT_CONNECTIONS, MAX_CONCURRENT_CONNECTIONS, ACCESSES
  <2>1. ASSUME NEW k \in 1..3
        PROVE  t[k].type = "GET_METRIC" /\ t[k].item = k - 1 /\ t[k].value = metrics[k - 1]
               /\ t[k].about[2].type = "LIST_METRICS"
    BY <1>2, <1>5, <1>6
  <2>2. Lists(t, 1, 0) /\ Lists(t, 1 + 1, 1) /\ Lists(t, 1 + 2, 2)
    BY <2>1 DEF Lists
  <2>3. t[1].value = metrics[0] /\ t[1 + 1].value = metrics[1] /\ t[1 + 2].value = metrics[2]
    BY <2>1
  <2>4. Whole(t, 1)
    BY <2>2, <2>3, <1>6, <1>7 DEF Whole, Counted
  <2>5. ASSUME NEW k \in 1..4, k # 1 PROVE ~Lists(t, k, 0)
    <3>1. CASE k \in 1..3
      BY <3>1, <2>1, <2>5 DEF Lists
    <3>2. CASE k = 4
      BY <3>2, <1>3, <1>6 DEF Lists
    <3>3. QED BY <3>1, <3>2
  <2>6. QED BY <2>4, <2>5, <1>6 DEF Snapshots, Whole
<1>8. QED BY <1>1, <1>6, <1>7

\* The list of the configurations holds no metric.
LEMMA ConfigsAnswer ==
    ASSUME config \in Seq(Config), NEW a \in Admin, NEW r \in Request,
           r.type = "LIST_CONFIGS"
    PROVE  /\ send_list_configs(a, r) \in Seq(Message)
           /\ AnswerTo(send_list_configs(a, r), a, r)
           /\ Snapshots(send_list_configs(a, r))
<1> DEFINE M(k) == Answer("GET_CONFIG", k - 1, config[k].value, TRUE, a, r)
           n == Len(config)
           s == [k \in 1..n |-> M(k)]
           x == Answer("LIST_CONFIGS", 0, 0, FALSE, a, r)
           t == s \o <<x>>
<1>0. n \in Nat
  BY LenProperties
<1>1. send_list_configs(a, r) = t
  <2>1. ASSUME NEW k \in 1..n PROVE send_config(k - 1, a, r)[1] = M(k)
    <3>1. ~(k - 1 >= config_get_size) /\ (k - 1) + 1 = k
      BY <1>0 DEF config_get_size
    <3>2. send_config(k - 1, a, r) = <<M(k)>>
      BY <3>1 DEF send_config
    <3> HIDE DEF M
    <3>3. QED BY <3>2
  <2>2. QED BY <2>1 DEF send_list_configs, send_end_of_list, config_get_size
<1>2. ASSUME NEW k \in 1..n
      PROVE  M(k) \in Message /\ M(k).type = "GET_CONFIG" /\ M(k).body = TRUE /\ M(k).about = <<a, r>>
  <2>1. k - 1 \in Nat /\ config[k] \in Config
    BY <1>0, ElementOfSeq
  <2>2. config[k].value \in Nat
    BY <2>1 DEF Config
  <2>3. QED BY <2>1, <2>2 DEF Answer, Message
<1>3. x \in Message /\ x.about = <<a, r>> /\ x.type = "LIST_CONFIGS"
  BY DEF Answer, Message
<1> HIDE DEF M, x, n
<1>4. s \in [1..n -> Message]
  BY <1>2
<1>5. \A k \in 1..n : s[k] = M(k)
  OBVIOUS
<1> HIDE DEF s
<1>6. /\ t \in Seq(Message) /\ Len(t) = n + 1 /\ t[n + 1] = x
      /\ \A k \in 1..n : t[k] = s[k]
      /\ AnswerTo(t, a, r)
  <2>1. IsList(r) /\ \A k \in 1..n : s[k].about = <<a, r>> /\ s[k].body
    BY <1>2, <1>5 DEF IsList
  <2>2. QED BY ONLY <1>0, <1>3, <1>4, <2>1, ListAnswer, a \in Admin, r \in Request DEF t
<1> HIDE DEF t
<1>7. ASSUME NEW k \in 1..(n + 1) PROVE t[k].type # "GET_METRIC"
  <2>1. CASE k \in 1..n
    BY <2>1, <1>2, <1>5, <1>6
  <2>2. CASE k = n + 1
    BY <2>2, <1>3, <1>6
  <2>3. QED BY <2>1, <2>2, <1>0
<1>8. Snapshots(t)
  BY <1>6, <1>7 DEF Snapshots, Whole, Lists
<1>9. QED BY <1>1, <1>6, <1>8

\* The answer to a request that only reads: all of it is about the request, and
\* every message but the last tells whoever asked for a list to wait for more.
LEMMA AnswersRequest ==
    ASSUME metrics \in [Metric -> Nat], config \in Seq(Config), AdminAssumption,
           NEW a \in Admin, NEW r \in Request, r.type # "SET_CONFIG"
    PROVE  /\ Answers(a, r) \in Seq(Message)
           /\ AnswerTo(Answers(a, r), a, r)
           /\ Counted => Snapshots(Answers(a, r))
           /\ r.type = "SEND_CRED" => Answers(a, r) = <<>>
<1>0. r.type \in RequestTypes /\ r.param \in Nat
  BY DEF AdminAssumption
<1>1. CASE r.type = "SEND_CRED"
  <2>1. Answers(a, r) = <<>>
    BY <1>1 DEF Answers
  <2>2. QED BY <2>1 DEF AnswerTo, Snapshots
<1>2. CASE r.type = "LIST_METRICS"
  <2>1. Answers(a, r) = send_list_metrics(a, r)
    BY <1>2 DEF Answers
  <2>2. QED BY <1>2, <2>1, MetricsAnswer
<1>3. CASE r.type = "LIST_CONFIGS"
  <2>1. Answers(a, r) = send_list_configs(a, r)
    BY <1>3 DEF Answers
  <2>2. QED BY <1>3, <2>1, ConfigsAnswer
<1>4. CASE r.type = "GET_METRIC"
  <2>1. Answers(a, r) = send_metric(r.param, a, r)
    BY <1>4 DEF Answers
  <2>2. PICK x \in Message : Answers(a, r) = <<x>> /\ x.about = <<a, r>>
    BY <2>1, <1>0, MetricAnswer
  <2>3. ~IsList(r)
    BY <1>4 DEF IsList
  <2>4. QED BY <1>4, <2>2, <2>3, SingleAnswer
<1>5. CASE r.type = "GET_CONFIG"
  <2>1. Answers(a, r) = send_config(r.param, a, r)
    BY <1>5 DEF Answers
  <2>2. PICK x \in Message : Answers(a, r) = <<x>> /\ x.about = <<a, r>>
    BY <2>1, <1>0, ConfigAnswer
  <2>3. ~IsList(r)
    BY <1>5 DEF IsList
  <2>4. QED BY <1>5, <2>2, <2>3, SingleAnswer
<1>6. QED BY <1>0, <1>1, <1>2, <1>3, <1>4, <1>5 DEF RequestTypes

-----------------------------------------------------------------------------
(* The queue. *)

\* Answers that are put behind others leave the lists whole.
LEMMA OfferKeepsLists ==
    ASSUME NEW s \in Seq(Message), NEW q \in Seq(Message), Snapshots(s), Snapshots(q)
    PROVE  Snapshots(q \o s)
<1> DEFINE t == q \o s
           m == Len(q)
           n == Len(s)
<1>1. m \in Nat /\ n \in Nat
  BY LenProperties
<1>2. /\ t \in Seq(Message) /\ Len(t) = m + n
      /\ \A i \in 1..(m + n) : t[i] = IF i <= m THEN q[i] ELSE s[i - m]
  BY ConcatProperties
<1>3. /\ \A k \in 1..m : Whole(q, k)
      /\ \A k \in 1..n : Whole(s, k)
  BY DEF Snapshots
<1> HIDE DEF t, m, n
<1>4. ASSUME NEW k \in 1..(m + n) PROVE Whole(t, k)
  <2>1. CASE k \in 1..m
    <3>1. ASSUME Lists(t, k, INST_CONCURRENT_CONNECTIONS) PROVE k + 2 <= m
      <4>1. t[k] = q[k]
        BY <2>1, <1>1, <1>2
      <4>2. Lists(q, k, INST_CONCURRENT_CONNECTIONS)
        BY <3>1, <4>1 DEF Lists
      <4>3. QED BY <2>1, <4>2, <1>3 DEF Whole, m
    <3>2. ASSUME k + 2 <= m PROVE t[k] = q[k] /\ t[k + 1] = q[k + 1] /\ t[k + 2] = q[k + 2]
      BY <3>2, <2>1, <1>1, <1>2
    <3>3. Whole(q, k)
      BY <2>1, <1>3
    <3>4. k + 2 <= m => k + 2 <= m + n
      BY <1>1
    <3>5. QED BY <3>1, <3>2, <3>3, <3>4, <1>2 DEF Whole, Lists
  <2>2. CASE k \notin 1..m
    <3> DEFINE j == k - m
    <3>1. j \in 1..n /\ t[k] = s[j]
      BY <2>2, <1>1, <1>2
    <3>2. ASSUME j + 2 <= n PROVE t[k + 1] = s[j + 1] /\ t[k + 2] = s[j + 2] /\ k + 2 <= m + n
      <4>1. /\ k + 1 \in 1..(m + n) /\ ~(k + 1 <= m) /\ (k + 1) - m = j + 1
            /\ k + 2 \in 1..(m + n) /\ ~(k + 2 <= m) /\ (k + 2) - m = j + 2
        BY <3>2, <2>2, <1>1
      <4>2. QED BY <4>1, <1>2
    <3> HIDE DEF j
    <3>3. Whole(s, j)
      BY <3>1, <1>3
    <3>4. ASSUME Lists(t, k, INST_CONCURRENT_CONNECTIONS) PROVE j + 2 <= n
      <4>1. Lists(s, j, INST_CONCURRENT_CONNECTIONS)
        BY <3>4, <3>1 DEF Lists
      <4>2. QED BY <4>1, <3>3 DEF Whole, n
    <3>5. QED BY <3>1, <3>2, <3>3, <3>4, <1>2 DEF Whole, Lists
  <2>3. QED BY <2>1, <2>2
<1>5. QED BY <1>2, <1>4 DEF Snapshots, t

\* An answer that leaves the queue leaves the other lists whole.
LEMMA PollKeepsLists ==
    ASSUME NEW q \in Seq(Message), q # <<>>, Snapshots(q)
    PROVE  Snapshots(Tail(q))
<1> DEFINE t == Tail(q)
           n == Len(t)
<1>1. t \in Seq(Message) /\ Len(q) = n + 1 /\ \A i \in 1..n : t[i] = q[i + 1]
  BY HeadTailProperties, LenProperties
<1>2. n \in Nat
  BY <1>1, LenProperties
<1> HIDE DEF t, n
<1>3. ASSUME NEW k \in 1..n PROVE Whole(t, k)
  <2> DEFINE j == k + 1
  <2>1. j \in 1..(n + 1) /\ t[k] = q[j]
    BY <1>1, <1>2
  <2>2. Whole(q, j)
    BY <2>1, <1>1 DEF Snapshots
  <2>3. ASSUME j + 2 <= n + 1
        PROVE  t[k + 1] = q[j + 1] /\ t[k + 2] = q[j + 2] /\ k + 2 <= n
    <3>1. k + 1 \in 1..n /\ k + 2 \in 1..n /\ (k + 1) + 1 = j + 1 /\ (k + 2) + 1 = j + 2
      BY <2>3, <1>2
    <3>2. QED BY <3>1, <1>1
  <2> HIDE DEF j
  <2>4. ASSUME Lists(t, k, INST_CONCURRENT_CONNECTIONS) PROVE j + 2 <= n + 1
    <3>1. Lists(q, j, INST_CONCURRENT_CONNECTIONS)
      BY <2>4, <2>1 DEF Lists
    <3>2. QED BY <3>1, <2>2, <1>1 DEF Whole
  <2>5. QED BY <2>1, <2>2, <2>3, <2>4 DEF Whole, Lists, n
<1>4. QED BY <1>3 DEF Snapshots, t, n

-----------------------------------------------------------------------------
(* The configurations. *)

\* While no name is there twice, a new name finds a place.
LEMMA SpaceForNew ==
    ASSUME AdminAssumption, NEW cs \in Seq(Config), Distinct(cs),
           NEW name \in ConfigNames, Named(cs, name) = {}
    PROVE  Len(cs) + 1 <= MAX_CONFIG
<1> DEFINE n == Len(cs)
           f == [k \in 1..(n + 1) |-> IF k \in 1..n THEN cs[k].name ELSE name]
<1>1. n \in Nat /\ DOMAIN cs = 1..n
  BY LenProperties
<1>2. ASSUME NEW k \in 1..n PROVE cs[k].name \in ConfigNames /\ cs[k].name # name
  <2>1. cs[k] \in Config
    BY ElementOfSeq
  <2>2. QED BY <2>1, <1>1 DEF Config, Named
<1>3. \A j, k \in 1..n : cs[j].name = cs[k].name => j = k
  BY <1>1 DEF Distinct
<1> HIDE DEF n
<1>4. f \in [1..(n + 1) -> ConfigNames]
  BY <1>2
<1>5. \A j, k \in 1..(n + 1) : f[j] = f[k] => j = k
  <2>1. SUFFICES ASSUME NEW j \in 1..(n + 1), NEW k \in 1..(n + 1), f[j] = f[k] PROVE j = k
    OBVIOUS
  <2>2. CASE j \in 1..n /\ k \in 1..n
    BY <2>1, <2>2, <1>3
  <2>3. CASE j \in 1..n /\ k = n + 1
    BY <2>1, <2>3, <1>1, <1>2
  <2>4. CASE j = n + 1 /\ k \in 1..n
    BY <2>1, <2>4, <1>1, <1>2
  <2>5. QED BY <2>2, <2>3, <2>4, <1>1
<1> HIDE DEF f
<1>6. f \in Injection(1..(n + 1), ConfigNames)
  BY <1>4, <1>5 DEF Injection, IsInjective
<1>7. IsFiniteSet(ConfigNames) /\ MAX_CONFIG \in Nat /\ Cardinality(ConfigNames) <= MAX_CONFIG
  BY DEF AdminAssumption
<1>8. Cardinality(1..(n + 1)) <= Cardinality(ConfigNames)
  BY <1>6, <1>7, FS_Injection
<1>9. Cardinality(1..(n + 1)) = n + 1
  BY <1>1, FS_Interval
<1>10. Cardinality(ConfigNames) \in Nat
  BY <1>7, FS_CardinalityType
<1>11. QED BY <1>1, <1>7, <1>8, <1>9, <1>10 DEF n

\* The first configuration of a name is the only one.
LEMMA FirstNamed ==
    ASSUME NEW cs \in Seq(Config), Distinct(cs), NEW k \in DOMAIN cs
    PROVE  First(Named(cs, cs[k].name)) = k
<1>1. k \in Int
  BY LenProperties
<1>2. Named(cs, cs[k].name) = {k}
  BY DEF Named, Distinct
<1>3. First({k}) = k
  BY <1>1 DEF First
<1>4. QED BY <1>2, <1>3

\* Configuration k gets the value v, and this is recorded.
Sets(cs, values, k, v, after, valuesAfter) ==
    /\ k \in DOMAIN cs /\ v \in Nat
    /\ after = [cs EXCEPT ![k].value = v]
    /\ DOMAIN valuesAfter = DOMAIN values
    /\ valuesAfter[cs[k].name] = v
    /\ \A n \in DOMAIN values : n # cs[k].name => valuesAfter[n] = values[n]

\* A value that is set leaves the names alone and is the latest.
LEMMA SetsValue ==
    ASSUME NEW cs \in Seq(Config), NEW values, NEW k, NEW v, NEW after, NEW valuesAfter,
           Sets(cs, values, k, v, after, valuesAfter), Distinct(cs), Current(cs, values)
    PROVE  after \in Seq(Config) /\ Len(after) = Len(cs) /\ Distinct(after) /\ Current(after, valuesAfter)
<1> USE DEF Sets
<1>1. DOMAIN cs = 1..Len(cs) /\ Len(cs) \in Nat /\ \A j \in DOMAIN cs : cs[j] \in Config
  BY LenProperties, ElementOfSeq
<1> DEFINE c == [cs[k] EXCEPT !.value = v]
<1>2. c \in Config /\ c.name = cs[k].name /\ c.value = v
  BY <1>1 DEF Config
<1>3. after = [cs EXCEPT ![k] = c]
  OBVIOUS
<1> HIDE DEF c
<1>4. after \in Seq(Config) /\ Len(after) = Len(cs)
  BY <1>1, <1>2, <1>3, ExceptSeq
<1>5. DOMAIN after = DOMAIN cs /\ after[k] = c /\ \A j \in DOMAIN cs : j # k => after[j] = cs[j]
  BY <1>3
<1>6. \A j \in DOMAIN cs : after[j].name = cs[j].name
  BY <1>2, <1>5
<1>7. Distinct(after)
  BY <1>5, <1>6 DEF Distinct
<1>8. {after[j].name : j \in DOMAIN after} = {cs[j].name : j \in DOMAIN cs}
  BY <1>5, <1>6
<1>9. ASSUME NEW j \in DOMAIN after PROVE valuesAfter[after[j].name] = after[j].value
  <2>1. CASE j = k
    BY <2>1, <1>2, <1>5
  <2>2. CASE j # k
    <3>1. cs[j].name # cs[k].name /\ cs[j].name \in DOMAIN values
      BY <2>2, <1>5 DEF Distinct, Current
    <3>2. values[cs[j].name] = cs[j].value
      BY <1>5 DEF Current
    <3>3. QED BY <2>2, <3>1, <3>2, <1>5
  <2>3. QED BY <2>1, <2>2
<1>10. Current(after, valuesAfter)
  BY <1>8, <1>9 DEF Current
<1>11. QED BY <1>4, <1>7, <1>10

\* A configuration that is created is new or gets another value.
LEMMA CreatesValue ==
    ASSUME AdminAssumption, config \in Seq(Config), given \in Seq(Config),
           Len(config) <= MAX_CONFIG, Configured, CreateConfig
    PROVE  config' \in Seq(Config) /\ Len(config') <= MAX_CONFIG /\ Configured'
<1> DEFINE c == Head(given)
<1>1. c \in Config
  BY HeadTailProperties DEF CreateConfig
<1>2. /\ config' = config_create(config, c)
      /\ latest' = [n \in DOMAIN latest \cup {c.name} |-> IF n = c.name THEN c.value ELSE latest[n]]
  BY DEF CreateConfig
<1> HIDE DEF c
<1>3. c.name \in ConfigNames /\ c.value \in Nat
  BY <1>1 DEF Config
<1>4. Distinct(config) /\ Current(config, latest) /\ DOMAIN config = 1..Len(config) /\ Len(config) \in Nat
  BY LenProperties DEF Configured
<1>5. CASE Named(config, c.name) # {}
  <2>1. PICK k \in DOMAIN config : config[k].name = c.name
    BY <1>5 DEF Named
  <2>2. First(Named(config, c.name)) = k
    BY <2>1, <1>4, FirstNamed
  <2>3. config' = [config EXCEPT ![k].value = c.value]
    BY <1>2, <1>5, <2>2 DEF config_create
  <2>4. config[k].name \in DOMAIN latest
    BY <1>4 DEF Current
  <2>5. /\ DOMAIN latest' = DOMAIN latest /\ latest'[config[k].name] = c.value
        /\ \A n \in DOMAIN latest : n # config[k].name => latest'[n] = latest[n]
    BY <1>2, <2>1, <2>4
  <2>6. config' \in Seq(Config) /\ Len(config') = Len(config) /\ Distinct(config') /\ Current(config', latest')
    <3>1. Sets(config, latest, k, c.value, config', latest')
      BY <1>3, <2>1, <2>3, <2>5 DEF Sets
    <3>2. QED BY ONLY <1>4, <3>1, config \in Seq(Config), SetsValue
  <2>7. QED BY <2>6 DEF Configured, Distinct, Current
<1>6. CASE Named(config, c.name) = {}
  <2>1. Len(config) + 1 <= MAX_CONFIG
    BY <1>3, <1>4, <1>6, SpaceForNew
  <2>2. MAX_CONFIG \in Nat
    BY DEF AdminAssumption
  <2>3. config' = Append(config, c)
    <3>1. ~(Len(config) + 1 > MAX_CONFIG)
      BY <1>4, <2>1, <2>2
    <3>2. QED BY ONLY <1>2, <1>6, <3>1 DEF config_create
  <2> DEFINE n == Len(config)
  <2>4. /\ config' \in Seq(Config) /\ Len(config') = n + 1 /\ DOMAIN config' = 1..(n + 1)
        /\ \A k \in 1..n : config'[k] = config[k]
        /\ config'[n + 1] = c
    <3>1. /\ config' \in Seq(Config) /\ Len(config') = n + 1
          /\ \A k \in 1..n : config'[k] = config[k]
          /\ config'[n + 1] = c
      BY <1>1, <2>3, AppendProperties
    <3>2. QED BY <3>1, LenProperties
  <2>5. \A k \in 1..n : config[k].name # c.name
    BY <1>4, <1>6 DEF Named
  <2>6. n \in Nat /\ DOMAIN config = 1..n
    BY <1>4
  <2> HIDE DEF n
  <2>7. ASSUME NEW j \in 1..(n + 1), NEW k \in 1..(n + 1), config'[j].name = config'[k].name
        PROVE  j = k
    <3>1. CASE j \in 1..n /\ k \in 1..n
      BY <3>1, <2>4, <2>6, <2>7, <1>4 DEF Distinct
    <3>2. CASE j \in 1..n /\ k = n + 1
      BY <3>2, <2>4, <2>5, <2>7
    <3>3. CASE j = n + 1 /\ k \in 1..n
      BY <3>3, <2>4, <2>5, <2>7
    <3>4. QED BY <3>1, <3>2, <3>3, <2>6
  <2>8. DOMAIN latest' = {config'[k].name : k \in 1..(n + 1)}
    <3>1. DOMAIN latest' = {config[k].name : k \in 1..n} \cup {c.name}
      BY <1>2, <1>4, <2>6 DEF Current
    <3>2. \A k \in 1..(n + 1) : k \in 1..n \/ k = n + 1
      BY <2>6
    <3>3. 1..n \subseteq 1..(n + 1) /\ n + 1 \in 1..(n + 1)
      BY <2>6
    <3>4. QED BY <3>1, <3>2, <3>3, <2>4
  <2>9. ASSUME NEW k \in 1..(n + 1) PROVE latest'[config'[k].name] = config'[k].value
    <3>1. CASE k \in 1..n
      <4>1. config[k].name \in DOMAIN latest /\ latest[config[k].name] = config[k].value
        BY <3>1, <1>4, <2>6 DEF Current
      <4>2. QED BY <3>1, <4>1, <2>4, <2>5, <1>2
    <3>2. CASE k = n + 1
      BY <3>2, <2>4, <1>2
    <3>3. QED BY <3>1, <3>2, <2>6
  <2>10. Distinct(config)' /\ Current(config, latest)'
    BY <2>4, <2>7, <2>8, <2>9 DEF Distinct, Current
  <2>11. QED BY <2>1, <2>4, <2>10 DEF Configured, n
<1>7. QED BY <1>5, <1>6

\* What reading the first request does: its answer goes behind the queue, and a
\* configuration that it sets has the value that was asked for.
LEMMA ReadsRequest ==
    ASSUME AdminAssumption, TypeOK, Counted, Configured, admin_read_handler, incoming # <<>>
    PROVE  /\ config' \in Seq(Config) /\ Len(config') <= MAX_CONFIG /\ Configured'
           /\ \E s \in Seq(Message) :
                 /\ queue' = queue \o s
                 /\ AnswerTo(s, Head(incoming).from, Head(incoming).request)
                 /\ Snapshots(s)
                 /\ Head(incoming).request.type = "SEND_CRED" => s = <<>>
<1> DEFINE a == Head(incoming).from
           r == Head(incoming).request
<1>1. a \in Admin /\ r \in Request
  <2>1. Head(incoming) \in [from : Admin, request : Request]
    BY HeadTailProperties DEF TypeOK
  <2>2. QED BY <2>1
<1>2. \/ r.type = "SET_CONFIG" /\ check_set_config(a, r)
      \/ /\ r.type # "SET_CONFIG"
         /\ queue' = q_offer(Answers(a, r))
         /\ UNCHANGED <<config, latest>>
  BY DEF admin_read_handler
<1> HIDE DEF a, r
<1>3. r.type \in RequestTypes /\ r.param \in Nat /\ r.value \in Nat /\ r.len \in Int
  BY <1>1 DEF AdminAssumption
<1>4. /\ config \in Seq(Config) /\ Len(config) <= MAX_CONFIG /\ metrics \in [Metric -> Nat]
      /\ Len(config) \in Nat /\ DOMAIN config = 1..Len(config)
  BY LenProperties DEF TypeOK
<1>5. ASSUME UNCHANGED <<config, latest>>
      PROVE  config' \in Seq(Config) /\ Len(config') <= MAX_CONFIG /\ Configured'
  BY <1>4, <1>5 DEF Configured, Distinct, Current
<1>6. ASSUME NEW x \in Message, x.about = <<a, r>>, r.type = "SET_CONFIG"
      PROVE  <<x>> \in Seq(Message) /\ AnswerTo(<<x>>, a, r) /\ Snapshots(<<x>>)
  <2>1. ~IsList(r)
    BY <1>6 DEF IsList
  <2>2. QED BY <2>1, <1>1, <1>6, SingleAnswer
<1>7. CASE r.type # "SET_CONFIG"
  <2>1. queue' = queue \o Answers(a, r) /\ UNCHANGED <<config, latest>>
    BY <1>2, <1>7 DEF q_offer
  <2>2. /\ Answers(a, r) \in Seq(Message)
        /\ AnswerTo(Answers(a, r), a, r)
        /\ Snapshots(Answers(a, r))
        /\ r.type = "SEND_CRED" => Answers(a, r) = <<>>
    BY <1>1, <1>4, <1>7, AnswersRequest
  <2>3. QED BY <1>5, <2>1, <2>2 DEF a, r
<1>8. CASE r.type = "SET_CONFIG"
  <2>1. check_set_config(a, r)
    BY <1>2, <1>8
  <2>2. CASE UNCHANGED <<config, latest>> /\ \E e \in Nat : queue' = q_offer(send_error(e, a, r))
    <3>1. PICK e \in Nat : queue' = queue \o send_error(e, a, r)
      BY <2>2 DEF q_offer
    <3>2. PICK x \in Message : send_error(e, a, r) = <<x>> /\ x.about = <<a, r>>
      BY <1>1, ErrorAnswer
    <3>3. <<x>> \in Seq(Message) /\ AnswerTo(<<x>>, a, r) /\ Snapshots(<<x>>)
      BY <3>2, <1>6, <1>8
    <3>4. QED BY <1>5, <1>8, <2>2, <3>1, <3>2, <3>3 DEF a, r
  <2>3. CASE /\ r.param < config_get_size /\ config_set_from_index(r.param, r.value)
             /\ queue' = q_offer(<<Answer("SET_CONFIG", 0, 0, FALSE, a, r)>>)
    <3> DEFINE x == Answer("SET_CONFIG", 0, 0, FALSE, a, r)
               k == r.param + 1
    <3>1. x \in Message /\ x.about = <<a, r>>
      BY <1>1 DEF Answer, Message
    <3>2. <<x>> \in Seq(Message) /\ AnswerTo(<<x>>, a, r) /\ Snapshots(<<x>>)
      <4> HIDE DEF x
      <4>1. QED BY <3>1, <1>6, <1>8
    <3>3. k \in DOMAIN config
      BY <2>3, <1>3, <1>4 DEF config_get_size
    <3>4. config' = [config EXCEPT ![k].value = r.value] /\ latest' = [latest EXCEPT ![config[k].name] = r.value]
      BY <2>3 DEF config_set_from_index
    <3> HIDE DEF k
    <3>5. Distinct(config) /\ Current(config, latest)
      BY DEF Configured
    <3>6. config[k].name \in DOMAIN latest
      BY <3>3, <3>5 DEF Current
    <3>7. /\ DOMAIN latest' = DOMAIN latest /\ latest'[config[k].name] = r.value
          /\ \A n \in DOMAIN latest : n # config[k].name => latest'[n] = latest[n]
      BY <3>4, <3>6
    <3>8. config' \in Seq(Config) /\ Len(config') = Len(config) /\ Distinct(config') /\ Current(config', latest')
      <4>1. Sets(config, latest, k, r.value, config', latest')
        BY <1>3, <3>3, <3>4, <3>7 DEF Sets
      <4>2. QED BY ONLY <1>4, <3>5, <4>1, SetsValue
    <3>9. queue' = queue \o <<x>>
      BY <2>3 DEF q_offer
    <3>10. config' \in Seq(Config) /\ Len(config') <= MAX_CONFIG /\ Configured'
      BY <3>8, <1>4 DEF Configured, Distinct, Current
    <3> HIDE DEF x
    <3>11. QED BY <1>8, <3>2, <3>9, <3>10 DEF a, r
  <2>4. CONFIG_NOT_FOUND \in Nat /\ INVALID_LENGTH \in Nat
    BY DEF CONFIG_NOT_FOUND, INVALID_LENGTH
  <2>5. QED BY <2>1, <2>2, <2>3, <2>4 DEF check_set_config
<1>9. QED BY <1>7, <1>8

-----------------------------------------------------------------------------
(* Every step keeps the invariant. *)

\* The steps there are, with what happens in an iteration taken apart.
LEMMA Steps ==
    ASSUME [Next]_vars
    PROVE  \/ CreateConfig \/ StartLoop \/ LoopTop \/ LoopBottom
           \/ \E R \in SUBSET {"read", "write"} : Pselect(R)
           \/ IterateRead /\ "read" \in ready /\ admin_read_handler
           \/ IterateRead /\ UNCHANGED <<proxyVars, incoming, inbox>>
           \/ IterateWrite /\ admin_write_handler
           \/ IterateWrite /\ UNCHANGED <<proxyVars, incoming, inbox>>
           \/ metric_new_connection \/ metric_close_connection
           \/ \E a \in Admin : \E r \in Request : Ask(a, r)
           \/ \E a \in Admin : get_and_show_response(a)
           \/ \E a \in Admin : Close(a)
           \/ UNCHANGED vars
<1>1. ASSUME IterateRead
      PROVE  \/ "read" \in ready /\ admin_read_handler
             \/ UNCHANGED <<proxyVars, incoming, inbox>>
  BY <1>1 DEF IterateRead
<1>2. ASSUME IterateWrite
      PROVE  admin_write_handler \/ UNCHANGED <<proxyVars, incoming, inbox>>
  BY <1>2 DEF IterateWrite
<1>3. QED BY <1>1, <1>2 DEF Next, MainStep

\* The start.
LEMMA Start == ASSUME AdminAssumption, Init PROVE Inv
<1> USE DEF Init
<1>1. TypeOK
  <2>1. given \in Seq(Config)
    <3>1. PICK cl \in CommandLines : given = Defaults \o cl
      OBVIOUS
    <3>2. QED BY <3>1, ConcatProperties DEF AdminAssumption
  <2>2. Len(<<>>) = 0 /\ MAX_CONFIG \in Nat /\ MaxAsked \in Nat
    BY DEF AdminAssumption
  <2>3. metrics \in [Metric -> Nat] /\ interest \in {OP_READ, OP_READ \cup OP_WRITE}
    OBVIOUS
  <2>4. QED BY <2>1, <2>2, <2>3 DEF TypeOK
<1>2. Watched
  BY DEF Watched
<1>3. Counted
  BY DEF Counted, Possible, Metric, METRICS_ENUM_SIZE, INST_CONCURRENT_CONNECTIONS,
         MAX_CONCURRENT_CONNECTIONS, ACCESSES
<1>4. Snapshots(queue)
  BY DEF Snapshots
<1>5. Configured
  BY DEF Configured, Distinct, Current
<1>6. Served
  BY DEF Served, Alone, Credentials
<1>7. QED BY <1>1, <1>2, <1>3, <1>4, <1>5, <1>6 DEF Inv

\* What a connection that begins does to the counts.
LEMMA CountsNew ==
    ASSUME metrics \in [Metric -> Nat], Counted, metric_new_connection
    PROVE  metrics' \in [Metric -> Nat] /\ Counted'
<1> USE DEF INST_CONCURRENT_CONNECTIONS, MAX_CONCURRENT_CONNECTIONS, ACCESSES
<1> DEFINE inst == metrics[0] + 1
           max == IF inst > metrics[1] THEN inst ELSE metrics[1]
<1>1. metrics' = [metrics EXCEPT ![0] = inst, ![1] = max]
  BY DEF metric_new_connection
<1>2. Metric = {0, 1, 2}
  BY DEF Metric, METRICS_ENUM_SIZE
<1>3. metrics[0] \in Nat /\ metrics[1] \in Nat /\ metrics[2] \in Nat
  BY <1>2
<1>4. inst \in Nat /\ max \in Nat /\ Possible(inst, max, metrics[2])
  BY <1>3 DEF Counted, Possible
<1> HIDE DEF inst, max
<1>5. metrics' \in [Metric -> Nat] /\ metrics'[0] = inst /\ metrics'[1] = max /\ metrics'[2] = metrics[2]
  BY <1>1, <1>2, <1>3, <1>4
<1>6. QED BY <1>4, <1>5 DEF Counted

\* What a connection that ends does to the counts.
LEMMA CountsClosed ==
    ASSUME metrics \in [Metric -> Nat], Counted, metric_close_connection
    PROVE  metrics' \in [Metric -> Nat] /\ Counted'
<1> USE DEF INST_CONCURRENT_CONNECTIONS, MAX_CONCURRENT_CONNECTIONS, ACCESSES
<1> DEFINE inst == metrics[0] - 1
           acc == metrics[2] + 1
<1>1. metrics' = [metrics EXCEPT ![0] = inst, ![2] = acc] /\ metrics[0] > 0
  BY DEF metric_close_connection
<1>2. Metric = {0, 1, 2}
  BY DEF Metric, METRICS_ENUM_SIZE
<1>3. metrics[0] \in Nat /\ metrics[1] \in Nat /\ metrics[2] \in Nat
  BY <1>2
<1>4. inst \in Nat /\ acc \in Nat /\ Possible(inst, metrics[1], acc)
  BY <1>1, <1>3 DEF Counted, Possible
<1> HIDE DEF inst, acc
<1>5. metrics' \in [Metric -> Nat] /\ metrics'[0] = inst /\ metrics'[1] = metrics[1] /\ metrics'[2] = acc
  BY <1>1, <1>2, <1>3, <1>4
<1>6. QED BY <1>4, <1>5 DEF Counted

\* Type correctness is kept.
LEMMA TypeStep ==
    ASSUME AdminAssumption, Inv, [Next]_vars
    PROVE  TypeOK'
<1> USE DEF loopVars, proxyVars, adminVars
<1>0. TypeOK /\ Watched /\ Counted /\ Configured
  BY DEF Inv
<1>1. CASE CreateConfig
  <2>1. config' \in Seq(Config) /\ Len(config') <= MAX_CONFIG
    BY <1>0, <1>1, CreatesValue DEF TypeOK
  <2>2. given' \in Seq(Config)
    BY <1>0, <1>1, HeadTailProperties DEF CreateConfig, TypeOK
  <2>3. QED BY <1>0, <1>1, <2>1, <2>2 DEF CreateConfig, TypeOK, Message
<1>2. CASE StartLoop
  BY <1>0, <1>2 DEF StartLoop, TypeOK
<1>3. CASE LoopTop
  BY <1>0, <1>3 DEF LoopTop, TypeOK
<1>4. CASE LoopBottom
  BY <1>0, <1>4 DEF LoopBottom, TypeOK
<1>5. CASE \E R \in SUBSET {"read", "write"} : Pselect(R)
  BY <1>0, <1>5 DEF Pselect, TypeOK
<1>6. CASE IterateRead /\ "read" \in ready /\ admin_read_handler
  <2>1. incoming # <<>>
    BY <1>0, <1>6 DEF IterateRead, Watched
  <2>2. PICK s \in Seq(Message) : queue' = queue \o s
    BY <1>0, <1>6, <2>1, ReadsRequest
  <2>3. config' \in Seq(Config) /\ Len(config') <= MAX_CONFIG
    BY <1>0, <1>6, <2>1, ReadsRequest
  <2>4. queue' \in Seq(Message)
    BY <1>0, <2>2, ConcatProperties DEF TypeOK
  <2>5. Head(incoming) \in [from : Admin, request : Request] /\ incoming' \in Seq([from : Admin, request : Request])
    BY <1>0, <1>6, <2>1, HeadTailProperties DEF TypeOK, admin_read_handler
  <2>6. addr' \in Admin
    BY <1>6, <2>5 DEF admin_read_handler
  <2>7. UNCHANGED <<given, metrics, inbox, interest, ready, admin, pending, asked>> /\ pc' = "write"
    BY <1>6 DEF admin_read_handler, IterateRead
  <2>8. QED BY <1>0, <2>3, <2>4, <2>5, <2>6, <2>7 DEF TypeOK
<1>7. CASE IterateRead /\ UNCHANGED <<proxyVars, incoming, inbox>>
  BY <1>0, <1>7 DEF IterateRead, TypeOK
<1>8. CASE IterateWrite /\ admin_write_handler
  <2>1. queue # <<>> /\ queue' = Tail(queue)
    BY <1>8 DEF admin_write_handler, q_is_empty, q_poll
  <2>2. Head(queue) \in Message /\ queue' \in Seq(Message)
    BY <1>0, <2>1, HeadTailProperties DEF TypeOK
  <2>3. addr \in Admin
    BY <1>0, <2>1 DEF TypeOK, Watched
  <2>4. inbox' \in [Admin -> Seq(Message)]
    <3>1. CASE UNCHANGED inbox
      BY <3>1, <1>0 DEF TypeOK
    <3>2. CASE inbox' = [inbox EXCEPT ![addr] = Append(inbox[addr], Head(queue))]
      <4>1. Append(inbox[addr], Head(queue)) \in Seq(Message)
        BY <1>0, <2>2, <2>3, AppendProperties DEF TypeOK
      <4>2. QED BY <1>0, <3>2, <4>1 DEF TypeOK
    <3>3. QED BY <1>8, <3>1, <3>2 DEF admin_write_handler
  <2>5. UNCHANGED <<addr, given, config, metrics, incoming, interest, admin, pending, asked>> /\ pc' = "bottom" /\ ready' = {}
    BY <1>8 DEF admin_write_handler, IterateWrite
  <2>6. QED BY <1>0, <2>2, <2>4, <2>5 DEF TypeOK
<1>9. CASE IterateWrite /\ UNCHANGED <<proxyVars, incoming, inbox>>
  BY <1>0, <1>9 DEF IterateWrite, TypeOK
<1>10. CASE metric_new_connection
  <2>1. metrics' \in [Metric -> Nat]
    BY <1>0, <1>10, CountsNew DEF TypeOK
  <2>2. QED BY <1>0, <1>10, <2>1 DEF metric_new_connection, TypeOK
<1>11. CASE metric_close_connection
  <2>1. metrics' \in [Metric -> Nat]
    BY <1>0, <1>11, CountsClosed DEF TypeOK
  <2>2. QED BY <1>0, <1>11, <2>1 DEF metric_close_connection, TypeOK
<1>12. CASE \E a \in Admin : \E r \in Request : Ask(a, r)
  <2>1. PICK a \in Admin, r \in Request : Ask(a, r)
    BY <1>12
  <2>2. asked' \in Seq(Admin) /\ Len(asked') <= MaxAsked
    <3>1. asked' = Append(asked, a) /\ Len(asked) < MaxAsked
      BY <2>1 DEF Ask
    <3>2. Len(asked) \in Nat /\ MaxAsked \in Nat
      BY <1>0, LenProperties DEF TypeOK, AdminAssumption
    <3>3. QED BY <1>0, <3>1, <3>2, AppendProperties DEF TypeOK
  <2>3. incoming' \in Seq([from : Admin, request : Request])
    <3>1. [from |-> a, request |-> r] \in [from : Admin, request : Request]
      OBVIOUS
    <3>2. QED BY <1>0, <2>1, <3>1, AppendProperties DEF TypeOK, Ask
  <2>4. admin' \in [Admin -> {"idle", "waiting", "closed"}] /\ pending' \in [Admin -> Request \cup {NoRequest}]
    BY <1>0, <2>1 DEF TypeOK, Ask
  <2>5. UNCHANGED <<loopVars, proxyVars, inbox>>
    BY <2>1 DEF Ask
  <2>6. QED BY <1>0, <2>2, <2>3, <2>4, <2>5 DEF TypeOK
<1>13. CASE \E a \in Admin : get_and_show_response(a)
  <2>1. PICK a \in Admin : get_and_show_response(a)
    BY <1>13
  <2>2. inbox' \in [Admin -> Seq(Message)]
    <3>1. inbox[a] \in Seq(Message) /\ inbox[a] # <<>> /\ inbox' = [inbox EXCEPT ![a] = Tail(inbox[a])]
      BY <1>0, <2>1 DEF TypeOK, get_and_show_response
    <3>2. Tail(inbox[a]) \in Seq(Message)
      BY <3>1, HeadTailProperties
    <3>3. QED BY <1>0, <3>1, <3>2 DEF TypeOK
  <2>3. admin' \in [Admin -> {"idle", "waiting", "closed"}] /\ pending' \in [Admin -> Request \cup {NoRequest}]
    BY <1>0, <2>1 DEF TypeOK, get_and_show_response
  <2>4. UNCHANGED <<loopVars, proxyVars, incoming, asked>>
    BY <2>1 DEF get_and_show_response
  <2>5. QED BY <1>0, <2>2, <2>3, <2>4 DEF TypeOK
<1>14. CASE \E a \in Admin : Close(a)
  BY <1>0, <1>14, EmptySeq DEF TypeOK, Close
<1>15. CASE UNCHANGED vars
  BY <1>0, <1>15 DEF TypeOK, vars
<1>16. QED
  BY Steps, <1>1, <1>2, <1>3, <1>4, <1>5, <1>6, <1>7, <1>8, <1>9, <1>10, <1>11, <1>12, <1>13, <1>14, <1>15

\* The queue stays watched.
LEMMA WatchedStep ==
    ASSUME AdminAssumption, Inv, [Next]_vars
    PROVE  Watched'
<1> USE DEF loopVars, proxyVars, adminVars, Watched
<1>0. TypeOK /\ Watched /\ NoAdmin \notin Admin
  BY DEF Inv, AdminAssumption
<1>1. CASE CreateConfig
  BY <1>0, <1>1 DEF CreateConfig
<1>2. CASE StartLoop
  BY <1>0, <1>2 DEF StartLoop
<1>3. CASE LoopTop
  BY <1>0, <1>3 DEF LoopTop, q_is_empty
<1>4. CASE LoopBottom
  BY <1>0, <1>4 DEF LoopBottom, q_is_empty, OP_READ, OP_WRITE
<1>5. CASE \E R \in SUBSET {"read", "write"} : Pselect(R)
  BY <1>0, <1>5 DEF Pselect
<1>6. CASE IterateRead /\ "read" \in ready /\ admin_read_handler
  <2>1. Head(incoming) \in [from : Admin, request : Request]
    BY <1>0, <1>6, HeadTailProperties DEF TypeOK, IterateRead
  <2>2. addr' \in Admin /\ pc' = "write"
    BY <1>6, <2>1 DEF admin_read_handler, IterateRead
  <2>3. QED BY <1>0, <2>2
<1>7. CASE IterateRead /\ UNCHANGED <<proxyVars, incoming, inbox>>
  BY <1>0, <1>7 DEF IterateRead
<1>8. CASE IterateWrite /\ admin_write_handler
  BY <1>0, <1>8 DEF IterateWrite, admin_write_handler, q_is_empty
<1>9. CASE IterateWrite /\ UNCHANGED <<proxyVars, incoming, inbox>>
  BY <1>0, <1>9 DEF IterateWrite
<1>10. CASE metric_new_connection \/ metric_close_connection
  BY <1>0, <1>10 DEF metric_new_connection, metric_close_connection
<1>11. CASE \E a \in Admin : \E r \in Request : Ask(a, r)
  <2>1. PICK a \in Admin, r \in Request : Ask(a, r)
    BY <1>11
  <2> DEFINE m == [from |-> a, request |-> r]
             S == [from : Admin, request : Request]
  <2>2. incoming \in Seq(S) /\ m \in S /\ incoming' = Append(incoming, m)
    BY <1>0, <2>1 DEF TypeOK, Ask
  <2>3. incoming' # <<>>
    <3> HIDE DEF m, S
    <3>1. QED BY <2>2, AppendProperties
  <2>4. QED BY <1>0, <2>1, <2>3 DEF Ask
<1>12. CASE \E a \in Admin : get_and_show_response(a) \/ Close(a)
  BY <1>0, <1>12 DEF get_and_show_response, Close
<1>13. CASE UNCHANGED vars
  BY <1>0, <1>13 DEF vars
<1>14. QED BY Steps, <1>1, <1>2, <1>3, <1>4, <1>5, <1>6, <1>7, <1>8, <1>9, <1>10, <1>11, <1>12, <1>13

\* The counts and the lists of them stay possible, and the configurations
\* current.
LEMMA DataStep ==
    ASSUME AdminAssumption, Inv, [Next]_vars
    PROVE  Counted' /\ Snapshots(queue)' /\ Configured'
<1> USE DEF loopVars, proxyVars, adminVars
<1>0. TypeOK /\ Watched /\ Counted /\ Snapshots(queue) /\ Configured
  BY DEF Inv
<1>1. UNCHANGED metrics => Counted'
  BY <1>0 DEF Counted
<1>2. UNCHANGED queue => Snapshots(queue')
  BY <1>0
<1>3. UNCHANGED <<config, latest>> => Configured'
  BY <1>0 DEF Configured
<1>4. CASE CreateConfig
  <2>1. Configured'
    BY <1>0, <1>4, CreatesValue DEF TypeOK
  <2>2. QED BY <1>1, <1>2, <1>4, <2>1 DEF CreateConfig
<1>5. CASE IterateRead /\ "read" \in ready /\ admin_read_handler
  <2>1. incoming # <<>>
    BY <1>0, <1>5 DEF IterateRead, Watched
  <2>2. Configured'
    BY <1>0, <1>5, <2>1, ReadsRequest
  <2>3. PICK s \in Seq(Message) : queue' = queue \o s /\ Snapshots(s)
    BY <1>0, <1>5, <2>1, ReadsRequest
  <2>4. Snapshots(queue')
    BY <1>0, <2>3, OfferKeepsLists DEF TypeOK
  <2>5. UNCHANGED metrics
    BY <1>5 DEF admin_read_handler
  <2>6. QED BY <1>1, <2>2, <2>4, <2>5
<1>6. CASE IterateWrite /\ admin_write_handler
  <2>1. Snapshots(queue')
    BY <1>0, <1>6, PollKeepsLists DEF TypeOK, admin_write_handler, q_is_empty, q_poll
  <2>2. QED BY <1>1, <1>3, <1>6, <2>1 DEF admin_write_handler
<1>7. CASE metric_new_connection
  <2>1. Counted'
    BY <1>0, <1>7, CountsNew DEF TypeOK
  <2>2. QED BY <1>2, <1>3, <1>7, <2>1 DEF metric_new_connection
<1>8. CASE metric_close_connection
  <2>1. Counted'
    BY <1>0, <1>8, CountsClosed DEF TypeOK
  <2>2. QED BY <1>2, <1>3, <1>8, <2>1 DEF metric_close_connection
<1>9. CASE UNCHANGED <<metrics, queue, config, latest>>
  BY <1>1, <1>2, <1>3, <1>9
<1>10. ASSUME StartLoop \/ LoopTop \/ LoopBottom \/ \E R \in SUBSET {"read", "write"} : Pselect(R)
       PROVE  UNCHANGED <<metrics, queue, config, latest>>
  BY <1>10 DEF StartLoop, LoopTop, LoopBottom, Pselect
<1>11. ASSUME NEW a \in Admin, (\E r \in Request : Ask(a, r)) \/ get_and_show_response(a) \/ Close(a)
       PROVE  UNCHANGED <<metrics, queue, config, latest>>
  BY <1>11 DEF Ask, get_and_show_response, Close
<1>12. ASSUME UNCHANGED vars PROVE UNCHANGED <<metrics, queue, config, latest>>
  BY <1>12 DEF vars
<1>13. QED BY Steps, <1>4, <1>5, <1>6, <1>7, <1>8, <1>9, <1>10, <1>11, <1>12

-----------------------------------------------------------------------------
(* Whoever is alone is served. *)

\* What is left of an answer after its first message.
LEMMA RestOfAnswer ==
    ASSUME NEW s \in Seq(Message), s # <<>>, NEW a, NEW r, AnswerTo(s, a, r)
    PROVE  /\ AnswerTo(Tail(s), a, r)
           /\ Unfinished(s, r) => Unfinished(Tail(s), r)
           /\ Head(s).about = <<a, r>>
           /\ Tail(s) # <<>> => More(Head(s), r)
           /\ Unfinished(s, r) => More(Head(s), r)
<1> DEFINE t == Tail(s)
           n == Len(t)
<1>1. t \in Seq(Message) /\ Len(s) = n + 1 /\ \A i \in 1..n : t[i] = s[i + 1]
  BY HeadTailProperties, LenProperties
<1>2. n \in Nat /\ DOMAIN t = 1..n /\ DOMAIN s = 1..(n + 1)
  BY <1>1, LenProperties
<1>3. Head(s) = s[1]
  OBVIOUS
<1>4. t # <<>> => n > 0
  BY <1>1, EmptySeq
<1>5. \A k \in 1..(n + 1) : s[k].about = <<a, r>> /\ (k < n + 1 => More(s[k], r))
  BY <1>1, <1>2 DEF AnswerTo
<1> HIDE DEF t, n
<1>6. ASSUME NEW k \in 1..n PROVE k + 1 \in 1..(n + 1) /\ (k < n => k + 1 < n + 1)
  BY <1>2
<1>7. AnswerTo(t, a, r)
  BY <1>1, <1>2, <1>5, <1>6 DEF AnswerTo, n
<1>8. Unfinished(s, r) => Unfinished(t, r)
  BY <1>1, <1>2, <1>6 DEF Unfinished
<1>9. 1 \in 1..(n + 1) /\ (n > 0 => 1 < n + 1)
  BY <1>2
<1>10. Unfinished(s, r) => More(s[1], r)
  BY <1>2, <1>9 DEF Unfinished
<1>11. QED BY <1>3, <1>4, <1>5, <1>7, <1>8, <1>9, <1>10 DEF t

\* A message that follows an unfinished part of the answer.
LEMMA AnswerGoesOn ==
    ASSUME NEW s \in Seq(Message), NEW x \in Message, NEW a, NEW r,
           AnswerTo(s, a, r), Unfinished(s, r), x.about = <<a, r>>
    PROVE  /\ AnswerTo(Append(s, x), a, r)
           /\ More(x, r) => Unfinished(Append(s, x), r)
<1> DEFINE t == Append(s, x)
           n == Len(s)
<1>1. t \in Seq(Message) /\ Len(t) = n + 1 /\ t[n + 1] = x /\ \A k \in 1..n : t[k] = s[k]
  BY AppendProperties
<1>2. n \in Nat /\ DOMAIN s = 1..n /\ DOMAIN t = 1..(n + 1)
  BY <1>1, LenProperties
<1> HIDE DEF t, n
<1>3. ASSUME NEW k \in 1..(n + 1)
      PROVE  t[k].about = <<a, r>> /\ (k < n + 1 => More(t[k], r)) /\ (More(x, r) => More(t[k], r))
  <2>1. CASE k \in 1..n
    BY <2>1, <1>1, <1>2 DEF AnswerTo, Unfinished
  <2>2. CASE k = n + 1
    BY <2>2, <1>1, <1>2
  <2>3. QED BY <2>1, <2>2, <1>2
<1>4. QED BY <1>1, <1>2, <1>3 DEF AnswerTo, Unfinished, t

\* Reading a request of the only administrator.
LEMMA ReadServes ==
    ASSUME AdminAssumption, Inv, NEW a \in Admin, Alone(a), incoming # <<>>,
           admin_read_handler, UNCHANGED adminVars
    PROVE  Alone(a)'
<1> DEFINE S == [from : Admin, request : Request]
           m == Head(incoming)
           r == m.request
           p == pending[a]
           n == Len(incoming')
<1>0. TypeOK /\ Counted /\ Configured
  BY DEF Inv
<1>1. incoming \in Seq(S) /\ inbox[a] \in Seq(Message) /\ queue \in Seq(Message)
  BY <1>0 DEF TypeOK
<1>2. /\ incoming' = Tail(incoming) /\ addr' = m.from
      /\ UNCHANGED <<inbox, admin, pending, asked>>
  BY DEF admin_read_handler, adminVars
<1>3. /\ incoming' \in Seq(S) /\ Len(incoming) = n + 1 /\ m = incoming[1]
      /\ \A k \in 1..n : incoming'[k] = incoming[k + 1]
  <2> HIDE DEF S
  <2>1. QED BY <1>1, <1>2, HeadTailProperties, LenProperties
<1>4. n \in Nat /\ DOMAIN incoming = 1..(n + 1) /\ DOMAIN incoming' = 1..n
  BY <1>1, <1>3, LenProperties
<1>5. PICK s \in Seq(Message) :
          queue' = queue \o s /\ AnswerTo(s, m.from, r) /\ (r.type = "SEND_CRED" => s = <<>>)
  BY <1>0, ReadsRequest
<1> HIDE DEF S, m, n
<1>6. /\ \A k \in 1..(n + 1) : incoming[k].from = a
      /\ \A b \in Admin \ {a} : inbox[b] = <<>>
      /\ admin[a] = "closed" => inbox[a] = <<>>
      /\ admin[a] = "idle" => queue = <<>> /\ inbox[a] = <<>> /\ Credentials(incoming)
      /\ admin[a] = "waiting" => Unread(a) \/ Read(a)
  BY <1>4 DEF Alone
<1>7. 1 \in 1..(n + 1) /\ \A k \in 1..n : k + 1 \in 1..(n + 1)
  BY <1>4
<1>8. addr' = a /\ m.from = a /\ \A k \in DOMAIN incoming' : incoming'[k].from = a
  BY <1>2, <1>3, <1>4, <1>6, <1>7
<1>9. ASSUME Credentials(incoming)
      PROVE  Credentials(incoming') /\ queue' = queue
  <2>1. \A k \in 1..(n + 1) : incoming[k].request.type = "SEND_CRED"
    BY <1>4, <1>9 DEF Credentials
  <2>2. r.type = "SEND_CRED" /\ \A k \in 1..n : incoming'[k].request.type = "SEND_CRED"
    BY <2>1, <1>3, <1>7
  <2>3. queue' = queue
    BY <2>2, <1>1, <1>5, ConcatEmptySeq
  <2>4. QED BY <2>2, <2>3, <1>4 DEF Credentials
<1>10. ASSUME admin[a] = "idle"
       PROVE  queue' = <<>> /\ inbox'[a] = <<>> /\ Credentials(incoming')
  BY <1>2, <1>6, <1>9, <1>10
<1>11. ASSUME Unread(a) PROVE Unread(a)' \/ Read(a)'
  <2>1. /\ queue = <<>> /\ inbox[a] = <<>> /\ p.type # "SEND_CRED"
        /\ \A k \in 1..(n + 1) :
              /\ k = n + 1 => incoming[k].request = p
              /\ k # n + 1 => incoming[k].request.type = "SEND_CRED"
    BY <1>3, <1>4, <1>11 DEF Unread
  <2>2. queue' = s
    BY <2>1, <1>5, ConcatEmptySeq
  <2>3. CASE n = 0
    <3>1. r = p
      BY <2>1, <2>3, <1>3, <1>7
    <3>2. AnswerTo(queue', a, p)
      BY <2>2, <3>1, <1>5, <1>8
    <3>3. Credentials(incoming')
      BY <2>3, <1>4 DEF Credentials
    <3>4. inbox'[a] = <<>> /\ pending'[a] = p
      BY <1>2, <2>1
    <3>5. AnswerTo(inbox'[a], a, p) /\ Unfinished(inbox'[a], p)
      BY <3>4 DEF AnswerTo, Unfinished
    <3>6. QED BY <3>2, <3>3, <3>4, <3>5 DEF Read, AnswerTo, Credentials, Unfinished
  <2>4. CASE n # 0
    <3>1. r.type = "SEND_CRED"
      BY <2>1, <2>4, <1>3, <1>4, <1>7
    <3>2. queue' = <<>> /\ inbox'[a] = <<>> /\ pending'[a] = p
      BY <3>1, <2>1, <2>2, <1>2, <1>5
    <3>3. incoming' # <<>>
      BY <2>4 DEF n
    <3>4. ASSUME NEW k \in 1..n
          PROVE  /\ k = n => incoming'[k].request = p
                 /\ k # n => incoming'[k].request.type = "SEND_CRED"
      BY <2>1, <1>3, <1>4, <1>7
    <3>5. QED BY <2>1, <3>2, <3>3, <3>4, <1>4 DEF Unread, n
  <2>5. QED BY <2>3, <2>4
<1>12. ASSUME Read(a) PROVE Read(a)'
  <2>1. Credentials(incoming)
    BY <1>12 DEF Read
  <2>2. Credentials(incoming') /\ UNCHANGED <<queue, inbox, pending>>
    BY <2>1, <1>2, <1>9
  <2>3. QED BY <2>2, <1>12 DEF Read, Credentials, AnswerTo, Unfinished
<1>13. QED BY <1>2, <1>6, <1>8, <1>10, <1>11, <1>12 DEF Alone, Credentials

\* Sending an answer to the only administrator, or losing it.
LEMMA WriteServes ==
    ASSUME AdminAssumption, Inv, NEW a \in Admin, Alone(a),
           admin_write_handler, UNCHANGED adminVars
    PROVE  Alone(a)'
<1> DEFINE p == pending[a]
           x == Head(queue)
<1>0. TypeOK /\ Watched
  BY DEF Inv
<1>1. /\ queue # <<>> /\ queue' = Tail(queue)
      /\ UNCHANGED <<addr, incoming, admin, pending, asked>>
  BY DEF admin_write_handler, q_is_empty, q_poll, adminVars
<1>2. addr = a
  BY <1>0, <1>1 DEF Watched, Alone
<1>3. /\ inbox \in [Admin -> Seq(Message)]
      /\ UNCHANGED inbox \/ (admin[a] # "closed" /\ inbox' = [inbox EXCEPT ![a] = Append(inbox[a], x)])
  BY <1>0, <1>2 DEF TypeOK, admin_write_handler
<1>4. queue \in Seq(Message) /\ x \in Message /\ inbox[a] \in Seq(Message)
  BY <1>0, <1>1, <1>3, HeadTailProperties DEF TypeOK
<1> HIDE DEF x
<1>5. \A b \in Admin \ {a} : inbox'[b] = <<>>
  BY <1>3 DEF Alone
<1>6. admin'[a] = "closed" => inbox'[a] = <<>>
  BY <1>1, <1>3 DEF Alone
<1>7. admin'[a] # "idle"
  BY <1>1 DEF Alone
<1>8. ASSUME admin[a] = "waiting" PROVE Read(a)'
  <2>1. Read(a)
    BY <1>1, <1>8 DEF Alone, Unread
  <2>2. /\ AnswerTo(inbox[a], a, p) /\ AnswerTo(queue, a, p)
        /\ Unfinished(inbox[a], p) /\ Credentials(incoming)
    BY <2>1, <1>1 DEF Read
  <2>3. /\ AnswerTo(queue', a, p) /\ x.about = <<a, p>>
        /\ queue' # <<>> => More(x, p)
    BY <2>2, <1>1, <1>4, RestOfAnswer DEF x
  <2>4. AnswerTo(inbox'[a], a, p) /\ (queue' # <<>> => Unfinished(inbox'[a], p))
    <3>1. CASE UNCHANGED inbox
      BY <3>1, <2>2
    <3>2. CASE inbox' = [inbox EXCEPT ![a] = Append(inbox[a], x)]
      <4>1. inbox'[a] = Append(inbox[a], x)
        BY <3>2, <1>3
      <4>2. QED BY <4>1, <2>2, <2>3, <1>4, AnswerGoesOn
    <3>3. QED BY <3>1, <3>2, <1>3
  <2>5. pending'[a] = p /\ incoming' = incoming
    BY <1>1
  <2>6. QED BY <2>2, <2>3, <2>4, <2>5 DEF Read, Credentials, AnswerTo, Unfinished
<1>9. QED BY <1>1, <1>5, <1>6, <1>7, <1>8 DEF Alone

\* A new request of the only administrator.
LEMMA AskServes ==
    ASSUME AdminAssumption, Inv, NEW a \in Admin, Alone(a), NEW r \in Request, Ask(a, r)
    PROVE  Alone(a)'
<1> DEFINE S == [from : Admin, request : Request]
           m == [from |-> a, request |-> r]
           n == Len(incoming)
<1>1. incoming \in Seq(S) /\ m \in S /\ admin \in [Admin -> {"idle", "waiting", "closed"}]
      /\ pending \in [Admin -> Request \cup {NoRequest}]
  BY DEF Inv, TypeOK
<1>2. /\ admin[a] = "idle" /\ incoming' = Append(incoming, m)
      /\ UNCHANGED <<queue, addr, inbox>>
      /\ \/ r.type = "SEND_CRED" /\ UNCHANGED <<admin, pending>>
         \/ /\ r.type # "SEND_CRED"
            /\ admin' = [admin EXCEPT ![a] = "waiting"]
            /\ pending' = [pending EXCEPT ![a] = r]
  BY DEF Ask, proxyVars
<1>3. m.from = a /\ m.request = r
  OBVIOUS
<1> HIDE DEF S, m
<1>4. /\ incoming' \in Seq(S) /\ incoming' # <<>> /\ Len(incoming') = n + 1
      /\ incoming'[n + 1] = m /\ \A k \in 1..n : incoming'[k] = incoming[k]
  BY <1>1, <1>2, AppendProperties
<1>5. n \in Nat /\ DOMAIN incoming = 1..n /\ DOMAIN incoming' = 1..(n + 1)
  BY <1>1, <1>4, LenProperties
<1> HIDE DEF n
<1>6. /\ queue = <<>> /\ inbox[a] = <<>> /\ addr \in {a, NoAdmin}
      /\ \A b \in Admin \ {a} : inbox[b] = <<>>
      /\ \A k \in 1..n : incoming[k].from = a /\ incoming[k].request.type = "SEND_CRED"
  BY <1>2, <1>5 DEF Alone, Credentials
<1>7. \A k \in 1..(n + 1) : k \in 1..n \/ k = n + 1
  BY <1>5
<1>8. \A k \in DOMAIN incoming' : incoming'[k].from = a
  BY <1>3, <1>4, <1>5, <1>6, <1>7
<1>9. CASE r.type = "SEND_CRED"
  <2>1. admin'[a] = "idle"
    BY <1>2, <1>9
  <2>2. Credentials(incoming')
    BY <1>3, <1>4, <1>5, <1>6, <1>7, <1>9 DEF Credentials
  <2>3. QED BY <2>1, <2>2, <1>2, <1>6, <1>8 DEF Alone, Credentials
<1>10. CASE r.type # "SEND_CRED"
  <2>1. admin'[a] = "waiting" /\ pending'[a] = r
    BY <1>1, <1>2, <1>10
  <2>2. ASSUME NEW k \in 1..(n + 1)
        PROVE  /\ k = n + 1 => incoming'[k].request = r
               /\ k # n + 1 => incoming'[k].request.type = "SEND_CRED"
    BY <1>3, <1>4, <1>6, <1>7
  <2>3. Unread(a)'
    BY <2>1, <2>2, <1>2, <1>4, <1>5, <1>6, <1>10 DEF Unread
  <2>4. QED BY <2>1, <2>3, <1>2, <1>6, <1>8 DEF Alone
<1>11. QED BY <1>9, <1>10

\* The only administrator takes a message.
LEMMA ShowServes ==
    ASSUME AdminAssumption, Inv, NEW a \in Admin, Alone(a), get_and_show_response(a)
    PROVE  Alone(a)'
<1> DEFINE p == pending[a]
           s == inbox[a]
<1>1. /\ inbox \in [Admin -> Seq(Message)] /\ admin \in [Admin -> {"idle", "waiting", "closed"}]
      /\ pending \in [Admin -> Request \cup {NoRequest}]
  BY DEF Inv, TypeOK
<1>2. /\ admin[a] = "waiting" /\ s # <<>> /\ inbox' = [inbox EXCEPT ![a] = Tail(s)]
      /\ UNCHANGED <<queue, addr, incoming>>
      /\ \/ More(Head(s), p) /\ UNCHANGED <<admin, pending>>
         \/ /\ ~More(Head(s), p)
            /\ admin' = [admin EXCEPT ![a] = "idle"]
            /\ pending' = [pending EXCEPT ![a] = NoRequest]
  BY DEF get_and_show_response, proxyVars, More
<1>3. s \in Seq(Message) /\ inbox'[a] = Tail(s) /\ \A b \in Admin \ {a} : inbox'[b] = inbox[b]
  BY <1>1, <1>2
<1>4. Read(a)
  BY <1>2 DEF Alone, Unread
<1>5. /\ Credentials(incoming) /\ AnswerTo(s, a, p) /\ AnswerTo(queue, a, p)
      /\ queue # <<>> => Unfinished(s, p)
  BY <1>4 DEF Read
<1> HIDE DEF s
<1>6. /\ AnswerTo(Tail(s), a, p)
      /\ Unfinished(s, p) => Unfinished(Tail(s), p)
      /\ Tail(s) # <<>> => More(Head(s), p)
      /\ Unfinished(s, p) => More(Head(s), p)
  BY <1>2, <1>3, <1>5, RestOfAnswer
<1>7. /\ addr' \in {a, NoAdmin}
      /\ \A k \in DOMAIN incoming' : incoming'[k].from = a
      /\ \A b \in Admin \ {a} : inbox'[b] = <<>>
  BY <1>2, <1>3 DEF Alone
<1>8. CASE More(Head(s), p)
  <2>1. admin'[a] = "waiting" /\ pending'[a] = p
    BY <1>2, <1>8
  <2>2. AnswerTo(inbox'[a], a, p) /\ (queue' # <<>> => Unfinished(inbox'[a], p))
    BY <1>2, <1>3, <1>5, <1>6
  <2>3. Read(a)'
    BY <2>1, <2>2, <1>2, <1>5 DEF Read, Credentials, AnswerTo, Unfinished
  <2>4. QED BY <2>1, <2>3, <1>7 DEF Alone
<1>9. CASE ~More(Head(s), p)
  <2>1. admin'[a] = "idle"
    BY <1>1, <1>2, <1>9
  <2>2. queue' = <<>> /\ inbox'[a] = <<>>
    BY <1>2, <1>3, <1>5, <1>6, <1>9
  <2>3. QED BY <2>1, <2>2, <1>2, <1>5, <1>7 DEF Alone, Credentials
<1>10. QED BY <1>8, <1>9

\* What holds of whoever is alone goes on holding.
LEMMA ServedStep ==
    ASSUME AdminAssumption, Inv, [Next]_vars
    PROVE  Served'
<1> USE DEF loopVars, proxyVars, adminVars
<1>0. TypeOK /\ Watched /\ Served /\ asked \in Seq(Admin)
  BY DEF Inv, TypeOK
<1>1. SUFFICES ASSUME NEW a \in Admin, Only(a)' PROVE Alone(a)'
  BY DEF Served
<1>2. ASSUME UNCHANGED asked PROVE Only(a) /\ Alone(a)
  BY <1>0, <1>1, <1>2 DEF Served, Only
<1>3. ASSUME UNCHANGED <<queue, addr, incoming, inbox, admin, pending, asked>> PROVE Alone(a)'
  BY <1>2, <1>3 DEF Alone, Unread, Read, Credentials, AnswerTo, Unfinished
<1>4. CASE IterateRead /\ "read" \in ready /\ admin_read_handler
  <2>1. incoming # <<>> /\ UNCHANGED adminVars
    BY <1>0, <1>4 DEF Watched, IterateRead
  <2>2. QED BY <2>1, <1>2, <1>4, ReadServes
<1>5. CASE IterateWrite /\ admin_write_handler
  <2>1. UNCHANGED adminVars
    BY <1>5 DEF IterateWrite
  <2>2. QED BY <2>1, <1>2, <1>5, WriteServes
<1>6. CASE \E b \in Admin : \E r \in Request : Ask(b, r)
  <2>1. PICK b \in Admin, r \in Request : Ask(b, r)
    BY <1>6
  <2> DEFINE n == Len(asked)
  <2>2. asked' = Append(asked, b)
    BY <2>1 DEF Ask
  <2>3. /\ asked' \in Seq(Admin) /\ Len(asked') = n + 1 /\ asked'[n + 1] = b
        /\ \A k \in 1..n : asked'[k] = asked[k]
    BY <2>2, <1>0, AppendProperties
  <2>4. n \in Nat /\ DOMAIN asked = 1..n /\ DOMAIN asked' = 1..(n + 1)
    BY <2>3, <1>0, LenProperties
  <2> HIDE DEF n
  <2>5. \A k \in 1..(n + 1) : asked'[k] = a
    BY <2>4, <1>1 DEF Only
  <2>6. b = a /\ Only(a)
    BY <2>3, <2>4, <2>5 DEF Only
  <2>7. Alone(a)
    BY <2>6, <1>0 DEF Served
  <2>8. QED BY <2>1, <2>6, <2>7, AskServes
<1>7. CASE \E b \in Admin : get_and_show_response(b)
  <2>1. PICK b \in Admin : get_and_show_response(b)
    BY <1>7
  <2>2. Alone(a) /\ inbox[b] # <<>>
    BY <2>1, <1>2 DEF get_and_show_response
  <2>3. b = a
    BY <2>2 DEF Alone
  <2>4. QED BY <2>1, <2>2, <2>3, ShowServes
<1>8. CASE \E b \in Admin : Close(b)
  <2>1. PICK b \in Admin : Close(b)
    BY <1>8
  <2>2. /\ inbox \in [Admin -> Seq(Message)] /\ admin \in [Admin -> {"idle", "waiting", "closed"}]
        /\ pending \in [Admin -> Request \cup {NoRequest}]
    BY <1>0 DEF TypeOK
  <2>3. /\ admin' = [admin EXCEPT ![b] = "closed"] /\ pending' = [pending EXCEPT ![b] = NoRequest]
        /\ inbox' = [inbox EXCEPT ![b] = <<>>]
        /\ UNCHANGED <<queue, addr, incoming, asked>>
    BY <2>1 DEF Close
  <2>4. Alone(a)
    BY <2>3, <1>2
  <2>5. \A c \in Admin \ {a} : inbox'[c] = <<>>
    BY <2>2, <2>3, <2>4 DEF Alone
  <2>6. CASE b = a
    <3>1. admin'[a] = "closed" /\ inbox'[a] = <<>>
      BY <2>2, <2>3, <2>6
    <3>2. QED BY <3>1, <2>3, <2>4, <2>5 DEF Alone
  <2>7. CASE b # a
    <3>1. admin'[a] = admin[a] /\ pending'[a] = pending[a] /\ inbox'[a] = inbox[a]
      BY <2>2, <2>3, <2>7
    <3>2. (Unread(a) => Unread(a)') /\ (Read(a) => Read(a)')
      BY <2>3, <3>1 DEF Unread, Read, Credentials, AnswerTo, Unfinished
    <3>3. QED BY <3>1, <3>2, <2>3, <2>4, <2>5 DEF Alone, Credentials
  <2>8. QED BY <2>6, <2>7
<1>9. ASSUME \/ CreateConfig \/ StartLoop \/ LoopTop \/ LoopBottom
             \/ \E R \in SUBSET {"read", "write"} : Pselect(R)
             \/ metric_new_connection \/ metric_close_connection
      PROVE  UNCHANGED <<queue, addr, incoming, inbox, admin, pending, asked>>
  BY <1>9 DEF CreateConfig, StartLoop, LoopTop, LoopBottom, Pselect, metric_new_connection, metric_close_connection
<1>10. ASSUME (IterateRead \/ IterateWrite) /\ UNCHANGED <<proxyVars, incoming, inbox>>
       PROVE  UNCHANGED <<queue, addr, incoming, inbox, admin, pending, asked>>
  BY <1>10 DEF IterateRead, IterateWrite
<1>11. ASSUME UNCHANGED vars
       PROVE  UNCHANGED <<queue, addr, incoming, inbox, admin, pending, asked>>
  BY <1>11 DEF vars
<1>12. QED BY Steps, <1>3, <1>4, <1>5, <1>6, <1>7, <1>8, <1>9, <1>10, <1>11

-----------------------------------------------------------------------------
(* The theorems. *)

\* The invariant holds always.
LEMMA Invariant == Spec => []Inv
<1>1. Init => Inv
  BY Start, AdminAssumption
<1>2. Inv /\ [Next]_vars => Inv'
  BY TypeStep, WatchedStep, DataStep, ServedStep, AdminAssumption DEF Inv
<1>3. QED BY <1>1, <1>2, PTL DEF Spec

\* Whatever the requests, the configurations and the options, the state of the
\* service keeps its types: a configuration is set only under a number that
\* there is, and the counts do not go below zero.
THEOREM TypeCorrect == Spec => []TypeOK
<1>1. Inv => TypeOK
  BY DEF Inv
<1>2. QED BY <1>1, Invariant, PTL

\* main's loop never waits with answers in the queue and the admin socket not
\* watched for writing.
THEOREM Watching == Spec => []AnswersAreWatched
<1>1. Inv => AnswersAreWatched
  BY DEF Inv, Watched, AnswersAreWatched
<1>2. QED BY <1>1, Invariant, PTL

\* send_list_metrics takes all the metrics of one list at one moment, and what
\* other administrators ask is not mixed into it.
THEOREM Snapshot == Spec => []ListIsSnapshot
<1>1. ASSUME Inv PROVE ListIsSnapshot
  <2>1. queue \in Seq(Message) /\ Snapshots(queue)
    BY <1>1 DEF Inv, TypeOK
  <2>2. Len(queue) \in Nat
    BY <2>1, LenProperties
  <2>3. ASSUME NEW k \in 1..(Len(queue) - 2) PROVE Whole(queue, k)
    BY <2>1, <2>2, <2>3 DEF Snapshots
  <2>4. QED BY <2>3 DEF ListIsSnapshot, Whole, Lists, Possible
<1>2. QED BY <1>1, Invariant, PTL

\* config_get by name finds the value that the name was given last, whether
\* config_create or config_set_from_index gave it.
THEOREM Latest == Spec => []ConfigIsLatest
<1>1. ASSUME Inv PROVE ConfigIsLatest
  <2>1. config \in Seq(Config) /\ Distinct(config) /\ Current(config, latest)
    BY <1>1 DEF Inv, TypeOK, Configured
  <2>2. ASSUME NEW name \in DOMAIN latest PROVE config_get(name) = latest[name]
    <3>1. PICK k \in DOMAIN config : config[k].name = name
      BY <2>1, <2>2 DEF Current
    <3>2. First(Named(config, name)) = k
      BY <2>1, <3>1, FirstNamed
    <3>3. QED BY <2>1, <3>1, <3>2 DEF config_get, Current
  <2>3. QED BY <2>2 DEF ConfigIsLatest
<1>2. QED BY <1>1, Invariant, PTL

\* An administrator who is the only one that asks gets the answers to the request
\* it waits for and no others, although admin_write_handler sends every answer to
\* whoever was heard from last.
THEOREM ServedAlone == Spec => []AloneIsServed
<1>1. ASSUME Inv PROVE AloneIsServed
  <2>1. /\ asked \in Seq(Admin) /\ inbox \in [Admin -> Seq(Message)] /\ Served
        /\ admin \in [Admin -> {"idle", "waiting", "closed"}]
    BY <1>1 DEF Inv, TypeOK
  <2>2. DOMAIN asked = 1..Len(asked) /\ Len(asked) \in Nat
    BY <2>1, LenProperties
  <2>3. SUFFICES ASSUME \A j, k \in 1..Len(asked) : asked[j] = asked[k],
                        NEW b \in Admin, NEW i \in 1..Len(inbox[b])
                 PROVE  inbox[b][i].about = <<b, pending[b]>>
    BY DEF AloneIsServed, AnswersItsRequest
  <2>4. inbox[b] # <<>> /\ i \in DOMAIN inbox[b]
    <3>1. inbox[b] \in Seq(Message)
      BY <2>1
    <3>2. Len(inbox[b]) \in Nat /\ DOMAIN inbox[b] = 1..Len(inbox[b])
      BY <3>1, LenProperties
    <3>3. QED BY <3>2
  <2>5. \E a \in Admin : Only(a)
    <3>1. CASE Len(asked) = 0
      BY <3>1, <2>2 DEF Only
    <3>2. CASE Len(asked) # 0
      <4>1. 1 \in 1..Len(asked)
        BY <3>2, <2>2
      <4>2. asked[1] \in Admin
        BY <4>1, <2>1, ElementOfSeq
      <4>3. QED BY <4>1, <4>2, <2>2, <2>3 DEF Only
    <3>3. QED BY <3>1, <3>2
  <2>6. PICK a \in Admin : Alone(a)
    BY <2>1, <2>5 DEF Served
  <2>7. b = a
    BY <2>4, <2>6 DEF Alone
  <2>8. admin[a] = "waiting" /\ Read(a)
    BY <2>1, <2>4, <2>6, <2>7 DEF Alone, Unread
  <2>9. QED BY <2>4, <2>7, <2>8 DEF Read, AnswerTo
<1>2. QED BY <1>1, Invariant, PTL

=============================================================================
