------------------------- MODULE SelectorOpsProofs -------------------------
(***************************************************************************)
(* What the operations of SelectorOps do to a table, for every number of   *)
(* descriptors and every set of data.  The event loop (SelectorProofs) and *)
(* the handlers of a connection (ClientProofs) rest on these lemmas.       *)
(***************************************************************************)
EXTENDS SelectorOps, WellFoundedInduction, TLAPS

\* A nonempty set of natural numbers has a least element.
LEMMA LeastNat ==
    ASSUME NEW S, S \subseteq Nat, S # {}
    PROVE  \E x \in S : \A y \in S : x <= y
<1> DEFINE R == OpToRel(<, Nat)
<1>1. IsWellFoundedOn(R, Nat)
  BY NatLessThanWellFounded, Zenon
<1>2. \A x, y \in Nat : x < y => <<x, y>> \in R
  BY Zenon DEF OpToRel
<1> HIDE DEF R
<1>3. PICK x \in S : \A y \in S : ~(<<y, x>> \in R)
  BY <1>1, WFMin
<1>4. ASSUME NEW y \in S PROVE x <= y
  <2>1. x \in Nat /\ y \in Nat
    OBVIOUS
  <2>2. ~(y < x)
    BY <1>2, <1>3, <2>1
  <2>3. QED BY <2>1, <2>2
<1>5. QED BY <1>4

\* A nonempty set of natural numbers with a bound has a greatest element.
LEMMA GreatestNat ==
    ASSUME NEW top \in Nat, NEW S, S \subseteq 0..top, S # {}
    PROVE  \E x \in S : \A y \in S : y <= x
<1> DEFINE T == {top - x : x \in S}
<1>1. \A x \in S : top - x \in Nat
  OBVIOUS
<1>2. T \subseteq Nat /\ T # {}
  BY <1>1
<1>3. PICK t \in T : \A u \in T : t <= u
  BY <1>2, LeastNat
<1>4. PICK x \in S : t = top - x
  OBVIOUS
<1>5. ASSUME NEW y \in S PROVE y <= x
  <2>1. top - x <= top - y
    BY <1>3, <1>4
  <2>2. x \in Int /\ y \in Int
    OBVIOUS
  <2>3. QED BY <2>1, <2>2
<1>6. QED BY <1>5

-----------------------------------------------------------------------------
(* The operations on the table, for any table s and any set D of data. *)

Consistent(s) == MastersMatch(s) /\ MaxFdExact(s)

\* The shape of a table, field by field.
LEMMA TableShape ==
    ASSUME NEW D, NEW s, SelectorType(s, D)
    PROVE  /\ s.fds \in [FD -> Item(D)] /\ s.max_fd \in FD
           /\ s.master_r \in SUBSET FD /\ s.master_w \in SUBSET FD
           /\ \A g \in FD : /\ s.fds[g] \in Item(D) /\ s.fds[g].used \in BOOLEAN
                            /\ s.fds[g].interest \in Interest
                            /\ s.fds[g].handler \in Handlers
                            /\ s.fds[g].data \in D \cup {NoData}
BY DEF SelectorType, Item

\* items_max_fd returns the highest used descriptor.
LEMMA MaxFdFound ==
    ASSUME NEW top \in FD, NEW used, used \subseteq 0..top
    PROVE  /\ items_max_fd(used) \in FD
           /\ \A g \in used : g <= items_max_fd(used)
           /\ items_max_fd(used) # 0 => items_max_fd(used) \in used
<1>1. top \in Nat /\ 0 \in FD /\ used \subseteq FD
  BY SelectorAssumption DEF FD
<1>2. CASE used = {}
  BY <1>1, <1>2 DEF items_max_fd
<1>3. CASE used # {}
  <2>1. \E fd \in used : \A g \in used : g <= fd
    BY <1>1, <1>3, GreatestNat
  <2>2. items_max_fd(used) \in used /\ \A g \in used : g <= items_max_fd(used)
    BY <2>1, <1>3 DEF items_max_fd
  <2>3. QED BY <2>2, <1>1
<1>4. QED BY <1>2, <1>3

\* Replacing the item of fd and updating the sets for it keeps them exact.
LEMMA UpdateMatches ==
    ASSUME NEW D, NEW s, SelectorType(s, D), MastersMatch(s),
           NEW fd \in FD, NEW item \in Item(D), NEW top \in FD
    PROVE  LET t == items_update_fdset_for_fd(WithMaxFd(WithItem(s, fd, item), top), fd)
           IN  /\ SelectorType(t, D) /\ MastersMatch(t)
               /\ t.max_fd = top
               /\ t.fds = [s.fds EXCEPT ![fd] = item]
<1> DEFINE t == items_update_fdset_for_fd(WithMaxFd(WithItem(s, fd, item), top), fd)
           new == [s.fds EXCEPT ![fd] = item]
           wants(op) == IF item.used /\ op \in item.interest THEN {fd} ELSE {}
<1>1. new \in [FD -> Item(D)] /\ new[fd] = item /\ \A g \in FD \ {fd} : new[g] = s.fds[g]
  BY TableShape
<1>2. t = [fds |-> new, max_fd |-> top,
           master_r |-> (s.master_r \ {fd}) \cup wants("read"),
           master_w |-> (s.master_w \ {fd}) \cup wants("write")]
  BY <1>1 DEF items_update_fdset_for_fd, WithMaxFd, WithItem, ITEM_USED
<1> HIDE DEF t, new
<1>3. SelectorType(t, D)
  BY <1>1, <1>2, TableShape DEF SelectorType
<1>4. t.master_r = {g \in FD : new[g].used /\ "read" \in new[g].interest}
  BY <1>1, <1>2, TableShape DEF MastersMatch, ITEM_USED
<1>5. t.master_w = {g \in FD : new[g].used /\ "write" \in new[g].interest}
  BY <1>1, <1>2, TableShape DEF MastersMatch, ITEM_USED
<1>6. MastersMatch(t)
  BY <1>2, <1>4, <1>5 DEF MastersMatch, ITEM_USED
<1>7. QED
  BY <1>2, <1>3, <1>6 DEF t, new

\* selector_set_interest keeps the table consistent and changes one interest only.
LEMMA SetInterestTable ==
    ASSUME NEW D, NEW s, SelectorType(s, D), Consistent(s), NEW fd, NEW i \in Interest
    PROVE  LET t == selector_set_interest(s, fd, i)
           IN  /\ SelectorType(t, D) /\ Consistent(t)
               /\ \A g \in FD : /\ ITEM_USED(t, g) <=> ITEM_USED(s, g)
                                /\ t.fds[g].handler = s.fds[g].handler
                                /\ t.fds[g].data = s.fds[g].data
                                /\ t.fds[g].interest = IF g = fd /\ ITEM_USED(s, fd) THEN i
                                                       ELSE s.fds[g].interest
<1> DEFINE t == selector_set_interest(s, fd, i)
           item == Reinterested(s, fd, i)
           u == items_update_fdset_for_fd(WithMaxFd(WithItem(s, fd, item), s.max_fd), fd)
<1>1. CASE INVALID_FD(fd) \/ ~ITEM_USED(s, fd)
  <2>1. t = s /\ (fd \notin FD \/ ~ITEM_USED(s, fd))
    BY <1>1 DEF selector_set_interest, INVALID_FD
  <2> HIDE DEF t
  <2>2. QED BY <2>1 DEF t
<1>2. CASE ~INVALID_FD(fd) /\ ITEM_USED(s, fd)
  <2>1. fd \in FD /\ s.fds[fd].used
    BY <1>2 DEF INVALID_FD, ITEM_USED
  <2>2. WithMaxFd(WithItem(s, fd, item), s.max_fd) = WithItem(s, fd, item)
    BY DEF WithMaxFd, WithItem
  <2>3. t = u
    BY <1>2, <2>2 DEF selector_set_interest
  <2>4. item \in Item(D) /\ item.used = TRUE /\ item.handler = s.fds[fd].handler
        /\ item.data = s.fds[fd].data /\ item.interest = i
    BY <2>1, TableShape DEF Reinterested, Item
  <2>5. s.max_fd \in FD /\ MastersMatch(s) /\ MaxFdExact(s)
    BY TableShape DEF Consistent
  <2> HIDE DEF item
  <2>6. SelectorType(u, D) /\ MastersMatch(u) /\ u.max_fd = s.max_fd
        /\ u.fds = [s.fds EXCEPT ![fd] = item]
    BY <2>1, <2>4, <2>5, UpdateMatches
  <2> HIDE DEF u, t
  <2>7. \A g \in FD : u.fds[g] = IF g = fd THEN item ELSE s.fds[g]
    BY <2>1, <2>6, TableShape
  <2>8. \A g \in FD : /\ ITEM_USED(u, g) <=> ITEM_USED(s, g)
                      /\ u.fds[g].handler = s.fds[g].handler
                      /\ u.fds[g].data = s.fds[g].data
                      /\ u.fds[g].interest = IF g = fd /\ ITEM_USED(s, fd) THEN i
                                             ELSE s.fds[g].interest
    BY <2>1, <2>4, <2>7 DEF ITEM_USED
  <2>9. MaxFdExact(u)
    BY <2>5, <2>6, <2>8 DEF MaxFdExact
  <2>10. QED BY <2>3, <2>6, <2>8, <2>9 DEF Consistent, t
<1>3. QED BY <1>1, <1>2

\* selector_new returns a consistent table without items.
LEMMA NewTable ==
    ASSUME NEW D
    PROVE  /\ SelectorType(selector_new, D) /\ Consistent(selector_new)
           /\ \A g \in FD : ~ITEM_USED(selector_new, g)
<1>1. UnusedItem \in Item(D) /\ UnusedItem.used = FALSE /\ 0 \in FD
  BY SelectorAssumption DEF UnusedItem, Item, OP_NOOP, Interest, Handlers, FD
<1>2. \A g \in FD : selector_new.fds[g] = UnusedItem
  BY DEF selector_new
<1>3. SelectorType(selector_new, D)
  BY <1>1 DEF selector_new, SelectorType
<1>4. selector_new.master_r = {} /\ selector_new.master_w = {} /\ selector_new.max_fd = 0
  BY DEF selector_new
<1>5. QED
  BY <1>1, <1>2, <1>3, <1>4 DEF Consistent, MastersMatch, MaxFdExact, ITEM_USED

\* selector_register keeps the table consistent and adds one item, or none.
LEMMA RegisterTable ==
    ASSUME NEW D, NEW s, SelectorType(s, D), Consistent(s),
           NEW fd, NEW handler \in Handlers, NEW i \in Interest, NEW data \in D \cup {NoData}
    PROVE  LET t == selector_register(s, fd, handler, i, data)
           IN  /\ SelectorType(t, D) /\ Consistent(t)
               /\ \A g \in FD : g # fd \/ ITEM_USED(s, fd) => t.fds[g] = s.fds[g]
               /\ fd \in FD /\ ~ITEM_USED(s, fd) =>
                     t.fds[fd] = [used |-> TRUE, interest |-> i, handler |-> handler, data |-> data]
<1> USE SelectorAssumption
<1> DEFINE t == selector_register(s, fd, handler, i, data)
           item == [used |-> TRUE, interest |-> i, handler |-> handler, data |-> data]
           top == IF fd > s.max_fd THEN fd ELSE s.max_fd
           u == items_update_fdset_for_fd(WithMaxFd(WithItem(s, fd, item), top), fd)
<1>1. CASE RegisterRefused(s, fd)
  <2>1. t = s /\ (fd \notin FD \/ ITEM_USED(s, fd))
    BY <1>1 DEF selector_register, RegisterRefused, INVALID_FD
  <2> HIDE DEF t
  <2>2. QED BY <2>1 DEF t
<1>2. CASE ~RegisterRefused(s, fd)
  <2>1. fd \in FD /\ ~ITEM_USED(s, fd)
    BY <1>2 DEF RegisterRefused, INVALID_FD
  <2>2. t = u
    BY <1>2 DEF selector_register
  <2>3. item \in Item(D) /\ item.used = TRUE
    BY DEF Item
  <2>4. s.max_fd \in FD /\ MastersMatch(s) /\ MaxFdExact(s)
    BY TableShape DEF Consistent
  <2>5. top \in FD /\ fd <= top /\ s.max_fd <= top /\ (top = fd \/ top = s.max_fd)
    BY <2>1, <2>4 DEF FD
  <2> HIDE DEF item, top
  <2>6. SelectorType(u, D) /\ MastersMatch(u) /\ u.max_fd = top
        /\ u.fds = [s.fds EXCEPT ![fd] = item]
    BY <2>1, <2>3, <2>4, <2>5, UpdateMatches
  <2> HIDE DEF u, t
  <2>7. \A g \in FD : u.fds[g] = IF g = fd THEN item ELSE s.fds[g]
    BY <2>1, <2>6, TableShape
  <2>8. \A g \in FD : ITEM_USED(u, g) => g <= u.max_fd
    <3> TAKE g \in FD
    <3>1. CASE g = fd
      BY <3>1, <2>5, <2>6
    <3>2. CASE g # fd
      <4>1. ITEM_USED(u, g) => g <= s.max_fd
        BY <3>2, <2>4, <2>7 DEF MaxFdExact, ITEM_USED
      <4>2. QED BY <4>1, <2>4, <2>5, <2>6 DEF FD
    <3>3. QED BY <3>1, <3>2
  <2>9. u.max_fd # 0 => ITEM_USED(u, u.max_fd)
    <3>1. CASE top = fd
      BY <3>1, <2>1, <2>3, <2>6, <2>7 DEF ITEM_USED
    <3>2. CASE top # fd
      BY <3>2, <2>4, <2>5, <2>6, <2>7 DEF MaxFdExact, ITEM_USED
    <3>3. QED BY <3>1, <3>2
  <2>10. MaxFdExact(u)
    BY <2>8, <2>9 DEF MaxFdExact
  <2>11. QED BY <2>1, <2>2, <2>6, <2>7, <2>10 DEF Consistent, t, item
<1>3. QED BY <1>1, <1>2

\* selector_unregister_fd keeps the table consistent, releases one item at most
\* and leaves the others alone.
LEMMA UnregisterTable ==
    ASSUME NEW D, NEW s, SelectorType(s, D), Consistent(s), NEW fd
    PROVE  LET t == Unregistered(s, fd)
           IN  /\ SelectorType(t, D) /\ Consistent(t)
               /\ \A g \in FD : ITEM_USED(t, g) <=> ITEM_USED(s, g) /\ g # fd
               /\ \A g \in FD : ITEM_USED(t, g) => t.fds[g] = s.fds[g]
<1> USE SelectorAssumption
<1> DEFINE t == Unregistered(s, fd)
           used == UsedBelow(s, s.max_fd) \ {fd}
           new == [s.fds EXCEPT ![fd] = UnusedItem]
<1>1. CASE INVALID_FD(fd) \/ ~ITEM_USED(s, fd)
  <2>1. t = s /\ (fd \notin FD \/ ~ITEM_USED(s, fd))
    BY <1>1 DEF Unregistered, INVALID_FD
  <2> HIDE DEF t
  <2>2. QED BY <2>1 DEF t
<1>2. CASE ~INVALID_FD(fd) /\ ITEM_USED(s, fd)
  <2>1. fd \in FD
    BY <1>2 DEF INVALID_FD
  <2>2. t = [fds |-> new, max_fd |-> items_max_fd(used),
             master_r |-> s.master_r \ {fd}, master_w |-> s.master_w \ {fd}]
    BY <1>2 DEF Unregistered
  <2>3. s.max_fd \in FD /\ MastersMatch(s) /\ MaxFdExact(s)
    BY TableShape DEF Consistent
  <2>4. UnusedItem \in Item(D) /\ UnusedItem.used = FALSE
    BY DEF UnusedItem, Item, OP_NOOP, Interest, Handlers
  <2>5. new \in [FD -> Item(D)] /\ \A g \in FD : new[g] = IF g = fd THEN UnusedItem ELSE s.fds[g]
    BY <2>1, <2>4, TableShape
  <2>6. used \subseteq 0..s.max_fd /\ \A g \in FD : g \in used <=> ITEM_USED(s, g) /\ g # fd
    BY <2>3 DEF UsedBelow, MaxFdExact, FD
  <2> HIDE DEF t, used, new
  <2>7. /\ items_max_fd(used) \in FD
        /\ \A g \in used : g <= items_max_fd(used)
        /\ items_max_fd(used) # 0 => items_max_fd(used) \in used
    BY <2>3, <2>6, MaxFdFound
  <2>8. SelectorType(t, D)
    BY <2>2, <2>5, <2>7, TableShape DEF SelectorType
  <2>9. \A g \in FD : /\ ITEM_USED(t, g) <=> ITEM_USED(s, g) /\ g # fd
                      /\ g # fd => t.fds[g] = s.fds[g]
    BY <2>2, <2>4, <2>5 DEF ITEM_USED
  <2>10. t.master_r = {g \in FD : ITEM_USED(t, g) /\ "read" \in t.fds[g].interest}
    BY <2>2, <2>3, <2>9 DEF MastersMatch
  <2>11. t.master_w = {g \in FD : ITEM_USED(t, g) /\ "write" \in t.fds[g].interest}
    BY <2>2, <2>3, <2>9 DEF MastersMatch
  <2>12. MastersMatch(t)
    BY <2>10, <2>11 DEF MastersMatch
  <2>13. MaxFdExact(t)
    BY <2>2, <2>6, <2>7, <2>9 DEF MaxFdExact
  <2>14. QED
    BY <2>8, <2>9, <2>12, <2>13 DEF Consistent, t
<1>3. QED BY <1>1, <1>2

=============================================================================
