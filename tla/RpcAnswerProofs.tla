-------------------------- MODULE RpcAnswerProofs ---------------------------
(***************************************************************************)
(* What comes to the clients, for any clients, users, slots and bounds:    *)
(* whoever waits is answered once, wherever its request and then the       *)
(* answer are; and the reports of an RPC come in the order of the bus.     *)
(***************************************************************************)
EXTENDS RpcQueueProofs

----------------------------------------------------------------------------
(* The elements of sequences.                                              *)

LEMMA ToSetOne == ASSUME NEW x PROVE ToSet(<<>>) = {} /\ ToSet(<<x>>) = {x}
  BY DEF ToSet

LEMMA ToSetSeq ==
  ASSUME NEW T, NEW s \in Seq(T)
  PROVE  /\ ToSet(s) = {s[i] : i \in 1 .. Len(s)}
         /\ ToSet(s) \subseteq T
<1>1. DOMAIN s = 1 .. Len(s) /\ \A i \in 1 .. Len(s) : s[i] \in T
  BY LenProperties, ElementOfSeq
<1>2. QED
  BY <1>1 DEF ToSet

LEMMA ToSetConcat ==
  ASSUME NEW T, NEW s \in Seq(T), NEW t \in Seq(T)
  PROVE  ToSet(s \o t) = ToSet(s) \cup ToSet(t)
<1>1. s \o t \in Seq(T) /\ Len(s \o t) = Len(s) + Len(t)
      /\ \A i \in 1 .. Len(s) + Len(t) : (s \o t)[i] = IF i <= Len(s) THEN s[i] ELSE t[i - Len(s)]
  BY ConcatProperties
<1>2. Len(s) \in Nat /\ Len(t) \in Nat
  BY LenProperties
<1>3. /\ ToSet(s) = {s[i] : i \in 1 .. Len(s)} /\ ToSet(t) = {t[i] : i \in 1 .. Len(t)}
      /\ ToSet(s \o t) = {(s \o t)[i] : i \in 1 .. Len(s \o t)}
  BY <1>1, ToSetSeq
<1> DEFINE r == s \o t
<1> HIDE DEF r
<1>4. ASSUME NEW x \in ToSet(r) PROVE x \in ToSet(s) \cup ToSet(t)
  <2>1. PICK i \in 1 .. Len(s) + Len(t) : x = r[i]
    BY <1>1, <1>3 DEF r
  <2>2. CASE i <= Len(s)
    BY <1>1, <1>2, <1>3, <2>1, <2>2 DEF r
  <2>3. CASE i > Len(s)
    <3>1. i - Len(s) \in 1 .. Len(t) /\ x = t[i - Len(s)]
      BY <1>1, <1>2, <2>1, <2>3 DEF r
    <3>2. QED
      BY <1>3, <3>1
  <2>4. QED
    BY <1>2, <2>2, <2>3
<1>5. ASSUME NEW x \in ToSet(s) PROVE x \in ToSet(r)
  <2>1. PICK i \in 1 .. Len(s) : x = s[i]
    BY <1>3
  <2>2. i \in 1 .. Len(s) + Len(t) /\ x = r[i]
    BY <1>1, <1>2, <2>1 DEF r
  <2>3. QED
    BY <1>1, <1>3, <2>2 DEF r
<1>6. ASSUME NEW x \in ToSet(t) PROVE x \in ToSet(r)
  <2>1. PICK i \in 1 .. Len(t) : x = t[i]
    BY <1>3
  <2>2. Len(s) + i \in 1 .. Len(s) + Len(t) /\ x = r[Len(s) + i]
    BY <1>1, <1>2, <2>1 DEF r
  <2>3. QED
    BY <1>1, <1>3, <2>2 DEF r
<1>7. QED
  BY <1>4, <1>5, <1>6 DEF r

LEMMA ToSetParts ==
  ASSUME NEW T, NEW s \in Seq(T)
  PROVE  /\ s # <<>> => Head(s) \in ToSet(s) /\ ToSet(Tail(s)) \subseteq ToSet(s)
         /\ \A x \in T : ToSet(Append(s, x)) = ToSet(s) \cup {x}
         /\ \A i \in 1 .. Len(s) : ToSet(RemoveAt(s, i)) \subseteq ToSet(s)
         /\ \A i \in 1 .. Len(s), x \in T : ToSet([s EXCEPT ![i] = x]) \subseteq ToSet(s) \cup {x}
<1>1. Len(s) \in Nat /\ ToSet(s) = {s[i] : i \in 1 .. Len(s)}
      /\ \A i \in 1 .. Len(s) : s[i] \in T
  BY LenProperties, ToSetSeq, ElementOfSeq
<1>2. ASSUME s # <<>> PROVE Head(s) \in ToSet(s) /\ ToSet(Tail(s)) \subseteq ToSet(s)
  <2>1. Len(s) >= 1 /\ Head(s) = s[1] /\ Tail(s) \in Seq(T) /\ Len(Tail(s)) = Len(s) - 1
        /\ \A i \in 1 .. Len(s) - 1 : Tail(s)[i] = s[i + 1]
    BY <1>1, <1>2, HeadTailProperties, EmptySeq
  <2>2. ToSet(Tail(s)) = {Tail(s)[i] : i \in 1 .. Len(s) - 1}
    BY <2>1, ToSetSeq
  <2>3. QED
    BY <1>1, <2>1, <2>2
<1>3. ASSUME NEW x \in T PROVE ToSet(Append(s, x)) = ToSet(s) \cup {x}
  <2>1. Append(s, x) = s \o <<x>> /\ <<x>> \in Seq(T)
    BY AppendIsConcat
  <2>2. ToSet(s \o <<x>>) = ToSet(s) \cup ToSet(<<x>>)
    BY <2>1, ToSetConcat, ZenonT(30)
  <2>3. QED
    BY <2>1, <2>2, ToSetOne
<1>4. ASSUME NEW i \in 1 .. Len(s) PROVE ToSet(RemoveAt(s, i)) \subseteq ToSet(s)
  <2>1. SubSeq(s, 1, i - 1) \in Seq(T) /\ SubSeq(s, i + 1, Len(s)) \in Seq(T)
        /\ ToSet(SubSeq(s, 1, i - 1)) \subseteq ToSet(s)
        /\ ToSet(SubSeq(s, i + 1, Len(s))) \subseteq ToSet(s)
    <3>1. ASSUME NEW a \in 1 .. Len(s) + 1, NEW b \in 0 .. Len(s)
          PROVE  SubSeq(s, a, b) \in Seq(T) /\ ToSet(SubSeq(s, a, b)) \subseteq ToSet(s)
      <4>1. \A j \in a .. b : s[j] \in T
        BY <1>1
      <4>2. /\ SubSeq(s, a, b) \in Seq(T)
            /\ Len(SubSeq(s, a, b)) = (IF a <= b THEN b - a + 1 ELSE 0)
            /\ \A j \in 1 .. b - a + 1 : SubSeq(s, a, b)[j] = s[a + j - 1]
        BY <1>1, <4>1, SubSeqProperties
      <4> DEFINE r == SubSeq(s, a, b)
      <4> HIDE DEF r
      <4>3. ToSet(r) = {r[j] : j \in 1 .. Len(r)}
        BY <4>2, ToSetSeq DEF r
      <4>4. \A j \in 1 .. Len(r) : r[j] = s[a + j - 1] /\ a + j - 1 \in 1 .. Len(s)
        BY <1>1, <4>2 DEF r
      <4>5. QED
        BY <1>1, <4>2, <4>3, <4>4 DEF r
    <3>2. QED
      BY <1>1, <3>1
  <2> DEFINE p == SubSeq(s, 1, i - 1)
             q == SubSeq(s, i + 1, Len(s))
  <2>2. RemoveAt(s, i) = p \o q
    BY DEF RemoveAt
  <2> HIDE DEF p, q
  <2>3. ToSet(p \o q) = ToSet(p) \cup ToSet(q)
    BY <2>1, ToSetConcat, ZenonT(30) DEF p, q
  <2>4. QED
    BY <2>1, <2>2, <2>3 DEF p, q
<1>5. ASSUME NEW i \in 1 .. Len(s), NEW x \in T
      PROVE  ToSet([s EXCEPT ![i] = x]) \subseteq ToSet(s) \cup {x}
  <2> DEFINE r == [s EXCEPT ![i] = x]
  <2>1. r \in Seq(T) /\ Len(r) = Len(s) /\ \A j \in 1 .. Len(s) : r[j] = IF j = i THEN x ELSE s[j]
    BY ExceptSeq
  <2> HIDE DEF r
  <2>2. ToSet(r) = {r[j] : j \in 1 .. Len(s)}
    BY <2>1, ToSetSeq
  <2>3. QED
    BY <1>1, <2>1, <2>2 DEF r
<1>6. QED
  BY <1>2, <1>3, <1>4, <1>5
----------------------------------------------------------------------------
(* Requests for a result, and results in answer to them.                   *)

\* On its way, and in a task.
AsksFor(m, c)   == m.c_slot = c /\ m.inner.kind = "RpcReqRslt"
Refreshes(w, c) == w.c_slot = c /\ \/ w.step = "handle" /\ w.inner.kind = "RpcReqRslt"
                                   \/ w.inner.kind = "RpcRslt"

Refreshing(k, c) ==
  \/ \E m \in ToSet(outgoing[k]) \cup ToSet(toServer[k]) : AsksFor(m, c)
  \/ \E w \in ToSet(work[k]) : Refreshes(w, c)

\* It is for a queue.
LEMMA RefreshingTypes ==
  ASSUME TypeOK, NEW k \in Clients, NEW c, Refreshing(k, c)
  PROVE  c \in DOMAIN inbox[k]
<1>1. /\ ToSet(outgoing[k]) \cup ToSet(toServer[k]) \subseteq Addressed(DOMAIN inbox[k], Requests)
      /\ ToSet(work[k]) \subseteq WorkState(DOMAIN inbox[k])
  BY ConnectionTypes, ToSetSeq
<1>2. /\ \A m \in Addressed(DOMAIN inbox[k], Requests) : m.c_slot \in DOMAIN inbox[k]
      /\ \A w \in WorkState(DOMAIN inbox[k]) : w.c_slot \in DOMAIN inbox[k]
  BY DEF Addressed, WorkState
<1>3. QED
  BY <1>1, <1>2 DEF Refreshing, AsksFor, Refreshes

\* Nobody asks for more on connection k.
NoNewRefresh(k) == \A c : Refreshing(k, c)' => Refreshing(k, c)

LEMMA SameRefreshes ==
  ASSUME NEW k, outgoing'[k] = outgoing[k], toServer'[k] = toServer[k], work'[k] = work[k]
  PROVE  NoNewRefresh(k)
  BY DEF NoNewRefresh, Refreshing

LEMMA ReadRequestRefreshes ==
  ASSUME TypeOK, NEW k \in Clients, ReadRequest(k), ServerSide
  PROVE  NoNewRefresh(k)
<1> DEFINE D == DOMAIN inbox[k]
           m == Head(toServer[k])
           w == [step |-> "handle", c_slot |-> m.c_slot, inner |-> m.inner]
<1>1. /\ m \in Addressed(D, Requests) /\ toServer[k] \in Seq(Addressed(D, Requests))
      /\ toServer[k] # <<>> /\ toServer'[k] = Tail(toServer[k])
      /\ work[k] \in Seq(WorkState(D)) /\ work'[k] = Append(work[k], w) /\ outgoing'[k] = outgoing[k]
  BY HeadTailProperties, ConnectionTypes DEF ReadRequest, ServerSide, clientVars, TypeOK
<1>2. w \in WorkState(D) /\ \A c : Refreshes(w, c) => AsksFor(m, c)
  <2>1. w \in WorkState(D) /\ m.inner \in Requests
    BY <1>1 DEF Addressed, WorkState
  <2>2. m.inner.kind # "RpcRslt"
    BY <2>1, RequestShapes
  <2>3. QED
    BY <2>1, <2>2 DEF Refreshes, AsksFor
<1>3. m \in ToSet(toServer[k]) /\ ToSet(toServer'[k]) \subseteq ToSet(toServer[k])
  BY <1>1, ToSetParts
<1> HIDE DEF m, w
<1>4. ToSet(work'[k]) = ToSet(work[k]) \cup {w}
  BY <1>1, <1>2, ToSetParts
<1>5. QED
  BY <1>1, <1>2, <1>3, <1>4 DEF NoNewRefresh, Refreshing

\* A task that goes on holds no request; it holds a result if it was asked for one,
\* and the result says so.
LEMMA WorkStepElements ==
  ASSUME TypeOK, NEW k \in Clients, NEW i \in 1 .. Len(work[k]), WorkStep(k, i), ServerSide
  PROVE  \A w \in ToSet(work'[k]) \ ToSet(work[k]) :
           /\ w.c_slot = work[k][i].c_slot /\ w.step # "handle"
           /\ w.inner.kind = "RpcRslt" => /\ Refreshes(work[k][i], work[k][i].c_slot)
                                          /\ w.inner.asked = TRUE
<1> DEFINE new   == ToSet(work'[k]) \ ToSet(work[k])
           Later == {"executing", "panicked", "subscribe", "reply"}
<1>1. work[k] \in Seq(WorkState(DOMAIN inbox[k]))
  BY ConnectionTypes
<1>2. ASSUME NEW step \in Later, NEW message, Proceed(k, i, step, message),
             [step |-> step, c_slot |-> work[k][i].c_slot, inner |-> message]
               \in WorkState(DOMAIN inbox[k])
      PROVE  \A w \in new : w = [step |-> step, c_slot |-> work[k][i].c_slot, inner |-> message]
  <2> DEFINE x == [step |-> step, c_slot |-> work[k][i].c_slot, inner |-> message]
  <2>1. work'[k] = [work[k] EXCEPT ![i] = x]
    BY <1>2 DEF Proceed, TypeOK
  <2>2. x \in WorkState(DOMAIN inbox[k])
    BY <1>2
  <2> HIDE DEF x
  <2>3. ToSet(work'[k]) \subseteq ToSet(work[k]) \cup {x}
    BY <1>1, <2>1, <2>2, ToSetParts
  <2>4. QED
    BY <2>3 DEF x
<1>3. /\ \A message \in Replies :
           [step |-> "reply", c_slot |-> work[k][i].c_slot, inner |-> message]
             \in WorkState(DOMAIN inbox[k])
      /\ \A s \in Slots :
           [step |-> "subscribe", c_slot |-> work[k][i].c_slot, inner |-> RpcReqRslt(s)]
             \in WorkState(DOMAIN inbox[k])
      /\ \A step \in {"executing", "panicked"}, message \in {RpcReq(b) : b \in BOOLEAN} :
           [step |-> step, c_slot |-> work[k][i].c_slot, inner |-> message]
             \in WorkState(DOMAIN inbox[k])
  BY TaskTypes DEF WorkState
<1>4. /\ Error.kind # "RpcRslt" /\ SubOpFin.kind # "RpcRslt"
      /\ \A s \in Slots : RpcReqRslt(s).kind # "RpcRslt"
      /\ \A b \in BOOLEAN : RpcReq(b).kind # "RpcRslt"
  BY DEF Error, SubOpFin, RpcReqRslt, RpcReq
<1> HIDE DEF new
<1> DEFINE Fits(w) == /\ w.c_slot = work[k][i].c_slot /\ w.step # "handle"
                      /\ w.inner.kind = "RpcRslt" => /\ Refreshes(work[k][i], work[k][i].c_slot)
                                                     /\ w.inner.asked = TRUE
<1>5. ASSUME NEW step \in Later, NEW message, Proceed(k, i, step, message),
             [step |-> step, c_slot |-> work[k][i].c_slot, inner |-> message]
               \in WorkState(DOMAIN inbox[k]),
             message.kind = "RpcRslt" => /\ Refreshes(work[k][i], work[k][i].c_slot)
                                         /\ message.asked = TRUE
      PROVE  \A w \in new : Fits(w)
  <2>1. \A w \in new : w = [step |-> step, c_slot |-> work[k][i].c_slot, inner |-> message]
    BY <1>2, <1>5
  <2> DEFINE x == [step |-> step, c_slot |-> work[k][i].c_slot, inner |-> message]
  <2>2. x.step # "handle" /\ x.c_slot = work[k][i].c_slot /\ x.inner = message
    OBVIOUS
  <2> HIDE DEF x
  <2>3. Fits(x)
    BY <1>5, <2>2
  <2>4. \A w \in new : w = x
    BY <2>1 DEF x
  <2> HIDE DEF Fits
  <2>5. QED
    BY <2>3, <2>4
<1> SUFFICES \A w \in new : Fits(w)
  BY DEF new, Fits
<1> HIDE DEF Fits
<1>6. CASE Refuse(k, i) \/ NoHandler(k, i) \/ HandleSub(k, i) \/ HandleUnsub(k, i)
  <2>1. PICK message \in {Error, SubOpFin} : Proceed(k, i, "reply", message)
    BY <1>6 DEF Refuse, NoHandler, HandleSub, HandleUnsub
  <2>2. message \in Replies /\ message.kind # "RpcRslt"
    BY <1>4, MadeReplies
  <2>3. QED
    BY <1>3, <1>5, <2>1, <2>2
<1>7. CASE \E s \in Slots : Execute(k, i, s)
  <2>1. PICK s \in Slots : Execute(k, i, s)
    BY <1>7
  <2>2. PICK step \in {"subscribe", "reply"} : Proceed(k, i, step, RpcReqRslt(s))
    BY <2>1 DEF Execute
  <2> DEFINE message == RpcReqRslt(s)
  <2>3. message \in Replies /\ message.kind # "RpcRslt"
    BY <1>4, MadeReplies
  <2>4. [step |-> step, c_slot |-> work[k][i].c_slot, inner |-> message] \in WorkState(DOMAIN inbox[k])
    BY <1>3, <2>3
  <2>5. Proceed(k, i, step, message)
    BY <2>2
  <2> HIDE DEF message
  <2>6. QED
    BY <1>5, <2>3, <2>4, <2>5
<1>8. CASE SubscribeCaller(k, i)
  <2> DEFINE message == work[k][i].inner
  <2>1. message \in {RpcReqRslt(s) : s \in Slots}
    BY <1>8, TaskTypes DEF SubscribeCaller, WorkState
  <2>2. Proceed(k, i, "reply", message)
    BY <1>8 DEF SubscribeCaller
  <2> HIDE DEF message
  <2>3. message \in Replies /\ message.kind # "RpcRslt"
    BY <1>4, <2>1, MadeReplies
  <2>4. QED
    BY <1>3, <1>5, <2>2, <2>3
<1>9. CASE HandleRpcReqResult(k, i)
  <2>1. work[k][i].inner.slot \in Slots /\ Refreshes(work[k][i], work[k][i].c_slot)
    BY <1>9, TaskTypes, RequestShapes DEF HandleRpcReqResult, Handles, Refreshes
  <2> DEFINE reply == IF phase[work[k][i].inner.slot] = "free" THEN Error
                      ELSE RpcRslt(work[k][i].inner.slot, recorded[work[k][i].inner.slot], TRUE)
  <2>2. reply \in Replies /\ (reply.kind = "RpcRslt" => reply.asked = TRUE)
    BY <1>4, <2>1, MadeReplies DEF TypeOK, RpcRslt
  <2>3. Proceed(k, i, "reply", reply)
    BY <1>9 DEF HandleRpcReqResult
  <2> HIDE DEF reply
  <2>4. QED
    BY <1>3, <1>5, <2>1, <2>2, <2>3
<1>10. CASE Reply(k, i)
  <2>1. work'[k] = RemoveAt(work[k], i)
    BY <1>10 DEF Reply, TaskEnds, TypeOK
  <2>2. new = {}
    BY <1>1, <2>1, ToSetParts DEF new
  <2>3. QED
    BY <2>2
<1>11. CASE AssignSlot(k, i) \/ OutOfSlots(k, i)
  <2> DEFINE message == work[k][i].inner
  <2>1. message \in {RpcReq(b) : b \in BOOLEAN}
    BY <1>11, TaskTypes, RequestKinds DEF AssignSlot, OutOfSlots, Handles
  <2>2. PICK step \in {"executing", "panicked"} : Proceed(k, i, step, message)
    BY <1>11 DEF AssignSlot, OutOfSlots
  <2>3. message.kind # "RpcRslt"
    BY <1>4, <2>1
  <2> HIDE DEF message
  <2>4. [step |-> step, c_slot |-> work[k][i].c_slot, inner |-> message] \in WorkState(DOMAIN inbox[k])
    BY <1>3, <2>1
  <2>5. QED
    BY <1>5, <2>2, <2>3, <2>4
<1>12. QED
  BY <1>6, <1>7, <1>8, <1>9, <1>10, <1>11 DEF WorkStep, OwnStep, ExecutorStep

LEMMA WorkStepRefreshes ==
  ASSUME TypeOK, NEW k \in Clients, NEW i \in 1 .. Len(work[k]), WorkStep(k, i), ServerSide
  PROVE  NoNewRefresh(k)
<1>1. toServer'[k] = toServer[k] /\ outgoing'[k] = outgoing[k]
  BY DEF WorkStep, OwnStep, ExecutorStep, Refuse, AssignSlot, OutOfSlots, NoHandler, Execute,
         SubscribeCaller, HandleRpcReqResult, HandleSub, HandleUnsub, Reply, ServerSide, clientVars,
         wireVars
<1>2. work[k][i] \in ToSet(work[k])
  <2> DEFINE T == WorkState(DOMAIN inbox[k])
  <2>1. work[k] \in Seq(T)
    BY ConnectionTypes
  <2> HIDE DEF T
  <2>2. ToSet(work[k]) = {work[k][j] : j \in 1 .. Len(work[k])}
    BY <2>1, ToSetSeq
  <2>3. QED
    BY <2>2
<1>3. ASSUME NEW c, NEW w \in ToSet(work'[k]), Refreshes(w, c)
      PROVE  \E v \in ToSet(work[k]) : Refreshes(v, c)
  <2>1. CASE w \in ToSet(work[k])
    BY <1>3, <2>1
  <2>2. CASE w \notin ToSet(work[k])
    <3>1. /\ w.c_slot = work[k][i].c_slot /\ w.step # "handle"
          /\ w.inner.kind = "RpcRslt" => Refreshes(work[k][i], work[k][i].c_slot)
      BY <1>3, <2>2, WorkStepElements
    <3>2. Refreshes(work[k][i], c)
      BY <1>3, <3>1 DEF Refreshes
    <3>3. QED
      BY <1>2, <3>2
  <2>3. QED
    BY <2>1, <2>2
<1>4. QED
  BY <1>1, <1>3 DEF NoNewRefresh, Refreshing

LEMMA ServerRefreshes ==
  ASSUME TypeOK, NEW k \in Clients, ConnectionStep(k), ServerSide
  PROVE  NoNewRefresh(k)
<1>1. CASE RelayStep(k) \/ Flush(k)
  BY <1>1, SameRefreshes DEF RelayStep, RelayReceive, RelayLag, RelaySend, Flush, ServerSide, clientVars,
                             wireVars
<1>2. QED
  BY <1>1, ReadRequestRefreshes, WorkStepRefreshes DEF ConnectionStep

LEMMA WriteRefreshes ==
  ASSUME TypeOK, NEW k \in Clients, Write(k), ClientSide
  PROVE  NoNewRefresh(k)
<1>1. outgoing'[k] = <<>> /\ work'[k] = work[k]
      /\ (toServer'[k] = toServer[k] \o outgoing[k] \/ toServer'[k] = toServer[k])
  BY DEF Write, ClientSide, connectionVars, TypeOK
<1>2. ToSet(toServer'[k]) \subseteq ToSet(toServer[k]) \cup ToSet(outgoing[k]) /\ ToSet(outgoing'[k]) = {}
  <2>1. ToSet(toServer[k] \o outgoing[k]) = ToSet(toServer[k]) \cup ToSet(outgoing[k])
    BY ConnectionTypes, ToSetConcat
  <2>2. QED
    BY <1>1, <2>1, ToSetOne
<1>3. QED
  BY <1>1, <1>2 DEF NoNewRefresh, Refreshing

\* What is under way is lost.
LEMMA LossRefreshes ==
  ASSUME NEW k \in Clients, work'[k] = work[k],
         outgoing'[k] \in {outgoing[k], <<>>}, toServer'[k] \in {toServer[k], <<>>}
  PROVE  NoNewRefresh(k)
<1>1. ToSet(outgoing'[k]) \subseteq ToSet(outgoing[k]) /\ ToSet(toServer'[k]) \subseteq ToSet(toServer[k])
  BY ToSetOne
<1>2. QED
  BY <1>1 DEF NoNewRefresh, Refreshing

LEMMA SendRefreshes ==
  ASSUME TypeOK, NEW k \in Clients, NEW c, NEW message, Send(k, c, message),
         UNCHANGED wireVars, ClientSide
  PROVE  \A d : Refreshing(k, d)' => Refreshing(k, d) \/ (d = c /\ message.kind = "RpcReqRslt")
<1>1. outgoing'[k] = <<WireMessage(c, message)>> /\ toServer'[k] = toServer[k] /\ work'[k] = work[k]
  BY DEF Send, wireVars, ClientSide, connectionVars, TypeOK
<1>2. ToSet(outgoing'[k]) = {WireMessage(c, message)}
  BY <1>1, ToSetOne
<1>3. \A d : AsksFor(WireMessage(c, message), d) => d = c /\ message.kind = "RpcReqRslt"
  BY DEF AsksFor, WireMessage
<1>4. QED
  BY <1>1, <1>2, <1>3 DEF Refreshing

----------------------------------------------------------------------------
(* Where somebody waits.                                                   *)

\* All messages to c that are not results: requests and answers.
Exchange(c) == {m \in To(c) : m.inner.kind # "RpcRslt"}

At(u, k, c)        == Waiting(u, k) /\ user[u].c_slot = c
Receiving(u, k, c) == user[u].pc = "receiving" /\ user[u].client = k /\ user[u].c_slot = c
Mapped(k, s, c)    == s \in DOMAIN slot_map[k] /\ slot_map[k][s] = c

\* The request or its answer is there; the queue is in no map yet, so that nobody
\* else can take from it, or ask for a result that comes to it.
Answered(k, c) ==
  /\ link[k] # "unused"
  /\ link[k] = "up" => Total(Exchange(c), k, c) = 1
  /\ \A s \in Slots : ~Mapped(k, s, c)
  /\ ~Refreshing(k, c)
  /\ \A u \in Users : ~Receiving(u, k, c)

AnswersInv ==
  /\ QueuesInv
  /\ \A u \in Users, k \in Clients, c \in CSlots : At(u, k, c) => Answered(k, c)

\* A step that changes nothing of this: what comes to c is an answer only if a
\* request went, and nobody maps c, receives from it, or asks for a result.
Steady(k, c, old, new) ==
  /\ link'[k] # link[k] => link'[k] \in {"closed", "lost"}
  /\ Flows(k, old, new)
  /\ old \in Exchange(c) <=> new \in Exchange(c)
  /\ \A s \in Slots : Mapped(k, s, c)' => Mapped(k, s, c)
  /\ Refreshing(k, c)' => Refreshing(k, c)
  /\ \A u \in Users : Receiving(u, k, c)' => Receiving(u, k, c)

LEMMA SteadyKeeps ==
  ASSUME TypeOK, TypeOK', NEW k \in Clients, NEW c \in CSlots, NEW old, NEW new,
         Steady(k, c, old, new), Answered(k, c)
  PROVE  Answered(k, c)'
<1>1. link'[k] # "unused" /\ (link'[k] = "up" => link[k] = "up")
  BY DEF Steady, Answered
<1>2. ASSUME link'[k] = "up" PROVE Total(Exchange(c), k, c)' = 1
  <2>1. Exchange(c) \in SUBSET To(c)
    BY DEF Exchange
  <2>2. Total(Exchange(c), k, c)' + Hit(old, Exchange(c))
          = Total(Exchange(c), k, c) + Hit(new, Exchange(c))
    BY <1>2, <2>1 DEF Steady, Flows
  <2>3. Hit(old, Exchange(c)) = Hit(new, Exchange(c)) /\ Hit(old, Exchange(c)) \in {0, 1}
    BY OneHit DEF Steady, Hit
  <2>4. Total(Exchange(c), k, c) = 1
    BY <1>1, <1>2 DEF Answered
  <2>5. Total(Exchange(c), k, c)' \in Nat
    BY TotalNext
  <2>6. QED
    BY <2>2, <2>3, <2>4, <2>5
<1>3. QED
  BY <1>1, <1>2 DEF Answered, Steady

\* Everywhere on connection k, ...
LEMMA SteadyAnswers ==
  ASSUME AnswersInv, QueuesInv', NEW k \in Clients, Elsewhere(k), NEW old, NEW new, NoNewWaiters,
         \A j \in Clients \ {k} : link'[j] = link[j],
         \A u \in Users, j \in Clients \ {k}, c \in CSlots : Receiving(u, j, c)' => Receiving(u, j, c),
         \A u \in Users, c \in CSlots : At(u, k, c) /\ user'[u] = user[u] => Steady(k, c, old, new)
  PROVE  AnswersInv'
<1>1. TypeOK /\ TypeOK'
  BY DEF AnswersInv, QueuesInv
<1>2. ASSUME NEW u \in Users, NEW j \in Clients, NEW c \in CSlots, At(u, j, c)'
      PROVE  Answered(j, c)'
  <2>1. At(u, j, c) /\ user'[u] = user[u]
    BY <1>2 DEF At, Waiting, NoNewWaiters
  <2>2. Answered(j, c)
    BY <2>1 DEF AnswersInv
  <2>3. CASE j = k
    BY <1>1, <2>1, <2>2, <2>3, SteadyKeeps
  <2>4. CASE j # k
    <3>1. Flows(j, NoMessage, NoMessage)
      BY <1>1, <2>4, ElsewhereFlows
    <3>2. (\A s \in Slots : Mapped(j, s, c)' => Mapped(j, s, c)) /\ (Refreshing(j, c)' => Refreshing(j, c))
      BY <2>4 DEF Elsewhere, Mapped, Refreshing
    <3>3. Steady(j, c, NoMessage, NoMessage)
      BY <2>4, <3>1, <3>2 DEF Steady
    <3>4. QED
      BY <1>1, <2>2, <3>3, SteadyKeeps
  <2>5. QED
    BY <2>3, <2>4
<1>3. QED
  BY <1>2 DEF AnswersInv

\* ... and so if messages only move.
LEMMA MovesAnswers ==
  ASSUME AnswersInv, QueuesInv', NEW k \in Clients, Elsewhere(k), NoNewWaiters,
         Flows(k, NoMessage, NoMessage), NoNewRefresh(k),
         \A j \in Clients \ {k} : link'[j] = link[j],
         link'[k] # link[k] => link'[k] \in {"closed", "lost"},
         \A s \in Slots, c \in CSlots : Mapped(k, s, c)' => Mapped(k, s, c),
         \A u \in Users, j \in Clients, c \in CSlots : Receiving(u, j, c)' => Receiving(u, j, c)
  PROVE  AnswersInv'
<1>1. \A u \in Users, c \in CSlots : At(u, k, c) => Steady(k, c, NoMessage, NoMessage)
  BY DEF Steady, NoNewRefresh
<1>2. QED
  BY <1>1, SteadyAnswers

\* A user that does not go on waits or receives as it did.
LEMMA SameUsers ==
  user' = user => NoNewWaiters /\ \A u \in Users : \A j, c : Receiving(u, j, c)' => Receiving(u, j, c)
  BY DEF NoNewWaiters, Receiving

LEMMA ServerMovesAnswers ==
  ASSUME AnswersInv, QueuesInv', NEW k \in Clients, ServerSide,
         \/ ReadRequest(k) \/ RelayLag(k) \/ RelaySend(k) \/ Flush(k)
         \/ \E i \in 1 .. Len(work[k]) : Reply(k, i)
  PROVE  AnswersInv'
<1>1. TypeOK /\ TypeOK'
  BY DEF AnswersInv, QueuesInv
<1>2. ConnectionStep(k)
  BY DEF ConnectionStep, RelayStep, WorkStep, OwnStep, ExecutorStep
<1>3. Elsewhere(k) /\ NoNewRefresh(k)
  BY <1>1, <1>2, ServerElsewhere, ServerRefreshes
<1>4. slot_map' = slot_map /\ user' = user /\ link' = link
  BY DEF ReadRequest, RelayLag, RelaySend, Flush, Reply, ServerSide, clientVars, wireVars
<1>5. Flows(k, NoMessage, NoMessage)
  <2>1. CASE RelayLag(k)
    <3>1. InHand(k)' = InHand(k)
      BY <1>1, <2>1 DEF RelayLag, InHand, TypeOK
    <3>2. QED
      BY <1>1, <2>1, <3>1, StillFlows DEF RelayLag, ServerSide, clientVars, wireVars
  <2>2. QED
    BY <1>1, <2>1, ReadRequestFlows, RelaySendFlows, FlushFlows, ReplyFlows
<1>6. \A s, c : Mapped(k, s, c)' => Mapped(k, s, c)
  BY <1>4 DEF Mapped
<1>7. QED
  BY <1>3, <1>4, <1>5, <1>6, SameUsers, MovesAnswers

LEMMA WireMovesAnswers ==
  ASSUME AnswersInv, QueuesInv', NEW k \in Clients,
         \/ Disconnect(k) /\ UNCHANGED <<tasksVars, connectionVars, clientVars>>
         \/ Deliver(k) /\ ClientSide
         \/ Write(k) /\ ClientSide
         \/ (\E c \in CSlots : DropCSlot(k, c)) /\ ClientSide
  PROVE  AnswersInv'
<1>1. TypeOK /\ TypeOK'
  BY DEF AnswersInv, QueuesInv
<1>2. Elsewhere(k)
  BY <1>1, WireElsewhere
<1>3. user' = user /\ (\A j \in Clients \ {k} : link'[j] = link[j])
      /\ (link'[k] # link[k] => link'[k] \in {"closed", "lost"})
  <2>1. CASE link' = [link EXCEPT ![k] = "lost"] /\ user' = user
    BY <1>1, <2>1 DEF TypeOK
  <2>2. CASE link' = link /\ user' = user
    BY <2>2
  <2>3. QED
    BY <2>1, <2>2 DEF Disconnect, Deliver, Write, DropCSlot, clientVars, wireVars
<1>4. \A s, c : Mapped(k, s, c)' => Mapped(k, s, c)
  <2>1. CASE (\E c \in CSlots : DropCSlot(k, c)) /\ ClientSide
    <3>1. PICK c \in CSlots : slot_map'[k] = [s \in DOMAIN slot_map[k] \ {c} |-> slot_map[k][s]]
      BY <1>1, <2>1 DEF DropCSlot, TypeOK
    <3>2. QED
      BY <3>1 DEF Mapped
  <2>2. CASE slot_map' = slot_map
    BY <2>2 DEF Mapped
  <2>3. QED
    BY <2>1, <2>2 DEF Deliver, Write, clientVars
<1>5. CASE Disconnect(k) /\ UNCHANGED <<tasksVars, connectionVars, clientVars>>
  <2>1. NoNewRefresh(k)
    BY <1>1, <1>5, LossRefreshes DEF Disconnect, connectionVars, clientVars, TypeOK
  <2>2. QED
    BY <1>1, <1>2, <1>3, <1>4, <1>5, <2>1, DisconnectFlows, SameUsers, MovesAnswers
<1>6. CASE Deliver(k) /\ ClientSide
  <2>1. NoNewRefresh(k)
    BY <1>6, SameRefreshes DEF Deliver, ClientSide, connectionVars
  <2>2. QED
    BY <1>1, <1>2, <1>3, <1>4, <1>6, <2>1, DeliverFlows, SameUsers, MovesAnswers
<1>7. CASE Write(k) /\ ClientSide
  BY <1>1, <1>2, <1>3, <1>4, <1>7, WriteFlows, WriteRefreshes, SameUsers, MovesAnswers
<1>8. CASE (\E c \in CSlots : DropCSlot(k, c)) /\ ClientSide
  <2>1. NoNewRefresh(k)
    BY <1>8, SameRefreshes DEF DropCSlot, ClientSide, connectionVars, wireVars
  <2>2. InHand(k)' = InHand(k)
    BY <1>8 DEF ClientSide, connectionVars, InHand
  <2>3. Flows(k, NoMessage, NoMessage)
    BY <1>1, <1>8, <2>2, StillFlows DEF DropCSlot, ClientSide, connectionVars, wireVars
  <2>4. QED
    BY <1>2, <1>3, <1>4, <2>1, <2>3, SameUsers, MovesAnswers
<1>9. QED
  BY <1>5, <1>6, <1>7, <1>8

\* Nobody waits on a client that is not yet open.
LEMMA ConnectAnswers ==
  ASSUME AnswersInv, QueuesInv', NEW k \in Clients, Connect(k)
  PROVE  AnswersInv'
<1>1. TypeOK /\ Elsewhere(k)
  BY WireElsewhere DEF AnswersInv, QueuesInv
<1>2. user' = user /\ link[k] = "unused" /\ \A j \in Clients \ {k} : link'[j] = link[j]
  BY <1>1 DEF Connect, Open, clientVars, TypeOK
<1>3. \A u \in Users, c \in CSlots : ~At(u, k, c)
  BY <1>2 DEF AnswersInv, Answered
<1>4. QED
  BY <1>1, <1>2, <1>3, SameUsers, SteadyAnswers

LEMMA CloseAbortAnswers ==
  ASSUME AnswersInv, QueuesInv', NEW u \in Users, CloseAbort(u), ClientSide
  PROVE  AnswersInv'
<1>1. TypeOK /\ TypeOK'
  BY DEF AnswersInv, QueuesInv
<1>2. PICK k \in Clients : k = user[u].client
  BY <1>1, EngagedTypes DEF CloseAbort
<1>3. Elsewhere(k) /\ Flows(k, NoMessage, NoMessage)
  BY <1>1, <1>2, UserElsewhere, CloseAbortFlows DEF UserStep
<1>4. NoNewRefresh(k)
  BY <1>1, <1>2, LossRefreshes DEF CloseAbort, ClientSide, connectionVars, TypeOK
<1>5. link'[k] = "closed" /\ \A j \in Clients \ {k} : link'[j] = link[j]
  BY <1>1, <1>2 DEF CloseAbort, TypeOK
<1>6. /\ NoNewWaiters
      /\ \A v \in Users, j \in Clients, c \in CSlots : Receiving(v, j, c)' => Receiving(v, j, c)
      /\ \A s \in Slots, c \in CSlots : Mapped(k, s, c)' => Mapped(k, s, c)
  BY <1>1, EndsWait DEF CloseAbort, Receiving, Resting, Mapped
<1>7. QED
  BY <1>3, <1>4, <1>5, <1>6, MovesAnswers

\* Only users, tasks or nobody went on.
LEMMA QuietAnswers ==
  ASSUME AnswersInv, QueuesInv', UNCHANGED <<wireVars, connectionVars, othersVars>>, NoNewWaiters,
         \A u \in Users, j \in Clients, c \in CSlots :
           Receiving(u, j, c)' => Receiving(u, j, c) \/ \E s \in Slots : Mapped(j, s, c)
  PROVE  AnswersInv'
<1>1. TypeOK /\ TypeOK'
  BY DEF AnswersInv, QueuesInv
<1>2. ASSUME NEW u \in Users, NEW j \in Clients, NEW c \in CSlots, At(u, j, c)'
      PROVE  Answered(j, c)'
  <2>1. Answered(j, c)
    BY <1>2 DEF At, Waiting, NoNewWaiters, AnswersInv
  <2>2. InHand(j)' = InHand(j)
    BY DEF InHand, connectionVars
  <2>3. Flows(j, NoMessage, NoMessage)
    BY <1>1, <2>2, StillFlows DEF wireVars, connectionVars, othersVars
  <2>4. NoNewRefresh(j)
    BY SameRefreshes DEF wireVars, connectionVars, othersVars
  <2>5. Steady(j, c, NoMessage, NoMessage)
    BY <2>1, <2>3, <2>4 DEF Steady, NoNewRefresh, Mapped, wireVars, othersVars, Answered
  <2>6. QED
    BY <1>1, <2>1, <2>5, SteadyKeeps
<1>3. QED
  BY <1>2 DEF AnswersInv

----------------------------------------------------------------------------
(* What the server does with a request and an answer.                      *)

\* A task goes on with the request or the answer; but if it holds a result, nobody
\* waits there.
LEMMA TaskAnswers ==
  ASSUME AnswersInv, QueuesInv', NEW k \in Clients, NEW i \in 1 .. Len(work[k]),
         WorkStep(k, i), ServerSide, NEW step, NEW message,
         \/ step \in {"executing", "panicked"} /\ message \in {RpcReq(b) : b \in BOOLEAN}
         \/ step = "subscribe" /\ message \in {RpcReqRslt(s) : s \in Slots}
         \/ step = "reply" /\ message \in Replies,
         Proceed(k, i, step, message), UNCHANGED <<wireVars, relay, outbox>>,
         work[k][i].inner.kind # "RpcRslt",
         message.kind # "RpcRslt" \/ Refreshing(k, work[k][i].c_slot)
  PROVE  AnswersInv'
<1> DEFINE d   == work[k][i].c_slot
           old == WireMessage(d, work[k][i].inner)
           new == WireMessage(d, message)
<1>1. TypeOK /\ TypeOK'
  BY DEF AnswersInv, QueuesInv
<1>2. Elsewhere(k) /\ NoNewRefresh(k)
  BY <1>1, ServerElsewhere, WorkStepRefreshes DEF ConnectionStep
<1>3. user' = user /\ slot_map' = slot_map /\ link' = link
  BY DEF ServerSide, clientVars, wireVars
<1>4. Flows(k, old, new)
  BY <1>1, ProceedFlows
<1>5. ASSUME NEW u \in Users, NEW c \in CSlots, At(u, k, c) PROVE Steady(k, c, old, new)
  <2>1. ~Refreshing(k, c)
    BY <1>5 DEF AnswersInv, Answered
  <2>2. old \in Exchange(c) <=> new \in Exchange(c)
    <3>1. CASE c = d
      <4>1. message.kind # "RpcRslt" /\ message \in Requests \cup Replies
        BY <2>1, <3>1, MadeRequests, MadeReplies
      <4>2. work[k][i].inner \in Requests \cup Replies
        BY <1>1, TaskTypes
      <4>3. old \in Exchange(c) /\ new \in Exchange(c)
        BY <3>1, <4>1, <4>2 DEF Exchange, To, Addressed, WireMessage
      <4>4. QED
        BY <4>3
    <3>2. CASE c # d
      BY <3>2 DEF Exchange, To, Addressed, WireMessage
    <3>3. QED
      BY <3>1, <3>2
  <2> HIDE DEF old, new
  <2>3. QED
    BY <1>2, <1>3, <1>4, <2>2, SameUsers DEF Steady, NoNewRefresh, Mapped
<1> HIDE DEF old, new
<1>6. QED
  BY <1>2, <1>3, <1>5, SameUsers, SteadyAnswers

LEMMA HandlersAnswer ==
  ASSUME AnswersInv, QueuesInv', NEW k \in Clients, NEW i \in 1 .. Len(work[k]),
         WorkStep(k, i), ~Reply(k, i), ServerSide
  PROVE  AnswersInv'
<1>1. TypeOK
  BY DEF AnswersInv, QueuesInv
<1>2. /\ Error \in Replies /\ Error.kind # "RpcRslt"
      /\ SubOpFin \in Replies /\ SubOpFin.kind # "RpcRslt"
      /\ \A s \in Slots : RpcReqRslt(s) \in Replies /\ RpcReqRslt(s).kind # "RpcRslt"
      /\ \A b \in BOOLEAN : RpcReq(b).kind # "RpcRslt"
  BY MadeReplies DEF Error, SubOpFin, RpcReqRslt, RpcReq
<1>3. CASE Refuse(k, i) \/ NoHandler(k, i) \/ HandleSub(k, i) \/ HandleUnsub(k, i)
  <2>1. work[k][i].inner.kind # "RpcRslt"
    BY <1>1, <1>2, <1>3, TaskTypes DEF Refuse, NoHandler, HandleSub, HandleUnsub, Handles
  <2>2. QED
    BY <1>2, <1>3, <2>1, TaskAnswers DEF Refuse, NoHandler, HandleSub, HandleUnsub
<1>4. ASSUME NEW s \in Slots, Execute(k, i, s) PROVE AnswersInv'
  <2> DEFINE step == IF work[k][i].inner.subscribe THEN "subscribe" ELSE "reply"
  <2>1. work[k][i].inner.kind # "RpcRslt" /\ Proceed(k, i, step, RpcReqRslt(s))
        /\ UNCHANGED <<wireVars, relay, outbox>>
    BY <1>1, <1>2, <1>4, TaskTypes DEF Execute
  <2>2. \/ step = "subscribe" /\ RpcReqRslt(s) \in {RpcReqRslt(t) : t \in Slots}
        \/ step = "reply" /\ RpcReqRslt(s) \in Replies
    BY <1>2
  <2> HIDE DEF step
  <2>3. QED
    BY <1>2, <2>1, <2>2, TaskAnswers
<1>5. CASE SubscribeCaller(k, i)
  <2>1. work[k][i].inner \in {RpcReqRslt(s) : s \in Slots}
    BY <1>1, <1>5, TaskTypes DEF SubscribeCaller, WorkState
  <2>2. work[k][i].inner \in Replies /\ work[k][i].inner.kind # "RpcRslt"
    BY <1>2, <2>1
  <2>3. QED
    BY <1>5, <2>2, TaskAnswers DEF SubscribeCaller
<1>6. CASE HandleRpcReqResult(k, i)
  <2> DEFINE s     == work[k][i].inner.slot
             reply == IF phase[s] = "free" THEN Error ELSE RpcRslt(s, recorded[s], TRUE)
  <2>1. s \in Slots /\ work[k][i].inner = RpcReqRslt(s) /\ work[k][i].inner.kind # "RpcRslt"
    BY <1>1, <1>6, TaskTypes, RequestShapes DEF HandleRpcReqResult, Handles
  <2>2. Refreshing(k, work[k][i].c_slot)
    <3>1. work[k][i] \in ToSet(work[k])
      BY <1>1, ConnectionTypes, ToSetSeq
    <3>2. QED
      BY <1>6, <3>1 DEF HandleRpcReqResult, Handles, Refreshing, Refreshes
  <2>3. reply \in Replies
    BY <1>1, <2>1, MadeReplies DEF TypeOK
  <2>4. Proceed(k, i, "reply", reply) /\ UNCHANGED <<wireVars, relay, outbox>>
    BY <1>6 DEF HandleRpcReqResult
  <2> HIDE DEF reply
  <2>5. QED
    BY <2>1, <2>2, <2>3, <2>4, TaskAnswers
<1>7. CASE AssignSlot(k, i) \/ OutOfSlots(k, i)
  <2>1. work[k][i].inner \in {RpcReq(b) : b \in BOOLEAN}
    BY <1>1, <1>7, TaskTypes, RequestKinds DEF AssignSlot, OutOfSlots, Handles
  <2>2. PICK step \in {"executing", "panicked"} : Proceed(k, i, step, work[k][i].inner)
    BY <1>7 DEF AssignSlot, OutOfSlots
  <2>3. QED
    BY <1>2, <1>7, <2>1, <2>2, TaskAnswers DEF AssignSlot, OutOfSlots
<1>8. QED
  BY <1>3, <1>4, <1>5, <1>6, <1>7 DEF WorkStep, OwnStep, ExecutorStep

\* What the relay sends is no answer.
LEMMA RelayReceiveAnswers ==
  ASSUME AnswersInv, QueuesInv', NEW k \in Clients, RelayReceive(k), ServerSide
  PROVE  AnswersInv'
<1> DEFINE m   == log[relay[k].next + 1]
           out == WireMessage(subscribed[k][m.slot], RpcRslt(m.slot, m.n, FALSE))
<1>1. TypeOK /\ TypeOK'
  BY DEF AnswersInv, QueuesInv
<1>2. Elsewhere(k) /\ NoNewRefresh(k)
  BY <1>1, ServerElsewhere, ServerRefreshes DEF ConnectionStep, RelayStep
<1>3. user' = user /\ slot_map' = slot_map /\ link' = link
  BY DEF RelayReceive, ServerSide, clientVars, wireVars
<1>4. Flows(k, NoMessage, out) \/ Flows(k, NoMessage, NoMessage)
  BY <1>1, RelayReceiveFlows
<1>5. \A c : NoMessage \notin Exchange(c) /\ out \notin Exchange(c)
  BY NotAMessage DEF Exchange, WireMessage, RpcRslt
<1> HIDE DEF out
<1>6. \E new : \A c \in CSlots : Steady(k, c, NoMessage, new)
  BY <1>2, <1>3, <1>4, <1>5, SameUsers DEF Steady, NoNewRefresh, Mapped
<1>7. QED
  BY <1>2, <1>3, <1>6, SameUsers, SteadyAnswers

----------------------------------------------------------------------------
(* What users take from queues and send.                                   *)

\* A message is taken from a queue where nobody waits any more.
LEMMA PopAnswers ==
  ASSUME AnswersInv, QueuesInv', NEW k \in Clients, NEW c \in DOMAIN inbox[k], Pop(k, c),
         UNCHANGED <<wireVars, outgoing>>, ClientSide, Elsewhere(k), NoNewWaiters,
         \A u \in Users : ~(At(u, k, c) /\ user'[u] = user[u]),
         \A s \in Slots, d \in CSlots : Mapped(k, s, d)' => Mapped(k, s, d) \/ d = c,
         \A u \in Users, j \in Clients, d \in CSlots : Receiving(u, j, d)' => Receiving(u, j, d)
  PROVE  AnswersInv'
<1> DEFINE old == WireMessage(c, Head(inbox[k][c]))
<1>1. TypeOK /\ TypeOK'
  BY DEF AnswersInv, QueuesInv
<1>2. Flows(k, old, NoMessage)
  BY <1>1, PopFlows
<1>3. NoNewRefresh(k)
  BY SameRefreshes DEF wireVars, ClientSide, connectionVars
<1>4. \A d : d # c => old \notin Exchange(d) /\ NoMessage \notin Exchange(d)
  BY NotAMessage DEF Exchange, To, Addressed, WireMessage
<1> HIDE DEF old
<1>5. ASSUME NEW u \in Users, NEW d \in CSlots, At(u, k, d), user'[u] = user[u]
      PROVE  Steady(k, d, old, NoMessage)
  <2>1. d # c
    BY <1>5
  <2>2. QED
    BY <1>2, <1>3, <1>4, <2>1 DEF Steady, NoNewRefresh, wireVars
<1>6. QED
  BY <1>5, SteadyAnswers DEF wireVars

LEMMA ReturnsAnswers ==
  ASSUME AnswersInv, QueuesInv', NEW u \in Users, CallReturns(u) \/ SubscribeReturns(u), ClientSide
  PROVE  AnswersInv'
<1>1. TypeOK /\ TypeOK'
  BY DEF AnswersInv, QueuesInv
<1>2. user[u].pc \in {"calling", "subscribing"} /\ End(u)
  BY DEF CallReturns, SubscribeReturns
<1>3. /\ NoNewWaiters /\ user'[u] = Resting
      /\ \A v \in Users \ {u} : user'[v] = user[v]
  BY <1>1, <1>2, EndsWait
<1>4. PICK k \in Clients : k = user[u].client
  BY <1>1, <1>2, EngagedTypes
<1>5. PICK c \in DOMAIN inbox[k] : c = user[u].c_slot
  BY <1>1, <1>2, <1>4, EngagedTypes
<1>6. Elsewhere(k)
  BY <1>1, <1>4, UserElsewhere DEF UserStep
<1>7. Pop(k, c) /\ UNCHANGED <<wireVars, outgoing>>
  BY <1>4, <1>5 DEF CallReturns, SubscribeReturns
<1>8. UNCHANGED slot_map \/ \E s \in Slots : Map(k, s, c)
  <2>1. CASE CallReturns(u)
    <3>1. Head(inbox[k][c]) \in Replies
      BY <1>1, <1>7, PopTypes
    <3>2. QED
      BY <1>4, <1>5, <2>1, <3>1, ReplyShapes DEF CallReturns
  <2>2. CASE SubscribeReturns(u)
    <3>1. user[u].slot \in Slots
      BY <1>1, <2>2, EngagedTypes DEF SubscribeReturns
    <3>2. QED
      BY <1>4, <1>5, <2>2, <3>1 DEF SubscribeReturns
  <2>3. QED
    BY <2>1, <2>2
<1>9. \A s, d : Mapped(k, s, d)' => Mapped(k, s, d) \/ d = c
  <2>1. ASSUME NEW s \in Slots, Map(k, s, c)
        PROVE  \A t, d : Mapped(k, t, d)' => Mapped(k, t, d) \/ d = c
    <3>1. slot_map'[k] = [t \in DOMAIN slot_map[k] \cup {s} |-> IF t = s THEN c ELSE slot_map[k][t]]
      BY <1>1, <2>1, MapTypes
    <3>2. QED
      BY <3>1 DEF Mapped
  <2>2. QED
    BY <1>8, <2>1 DEF Mapped
<1>10. \A v \in Users : ~(At(v, k, c) /\ user'[v] = user[v])
  <2> SUFFICES ASSUME NEW v \in Users, At(v, k, c), user'[v] = user[v] PROVE FALSE
    OBVIOUS
  <2>1. v = u
    BY <1>2, <1>4, <1>5 DEF AnswersInv, QueuesInv, OwnQueues, At, Waiting
  <2>2. QED
    BY <1>2, <1>3, <2>1 DEF Resting
<1>11. \A v \in Users, j \in Clients, d \in CSlots : Receiving(v, j, d)' => Receiving(v, j, d)
  BY <1>3 DEF Receiving, Resting
<1>12. QED
  BY <1>3, <1>6, <1>7, <1>9, <1>10, <1>11, PopAnswers

LEMMA ReceivedAnswers ==
  ASSUME AnswersInv, QueuesInv', NEW u \in Users, Received(u), ClientSide
  PROVE  AnswersInv'
<1>1. TypeOK /\ TypeOK'
  BY DEF AnswersInv, QueuesInv
<1>2. user[u].pc = "receiving" /\ UNCHANGED <<wireVars, slot_map, outgoing>>
  BY DEF Received
<1>3. PICK k \in Clients : k = user[u].client
  BY <1>1, <1>2, EngagedTypes
<1>4. PICK c \in DOMAIN inbox[k] : c = user[u].c_slot
  BY <1>1, <1>2, <1>3, EngagedTypes
<1>5. Elsewhere(k) /\ Pop(k, c) /\ c \in CSlots
  BY <1>1, <1>3, <1>4, UserElsewhere, QueueTypes DEF UserStep, Received
<1>6. /\ user'[u].pc \in {"idle", "looking"}
      /\ \A v \in Users \ {u} : user'[v] = user[v]
  <2>1. CASE End(u)
    BY <1>1, <2>1, EndsWait DEF Resting
  <2>2. CASE user' = [user EXCEPT ![u].pc = "looking", ![u].c_slot = Nothing]
    BY <1>1, <2>2 DEF TypeOK, UserTypeOK, UserState
  <2>3. QED
    BY <2>1, <2>2 DEF Received
<1>7. /\ NoNewWaiters
      /\ \A v \in Users, j \in Clients, d \in CSlots : Receiving(v, j, d)' => Receiving(v, j, d)
  BY <1>6 DEF NoNewWaiters, Receiving
<1>8. \A v \in Users : ~At(v, k, c)
  BY <1>2, <1>3, <1>4, <1>5 DEF AnswersInv, Answered, Receiving
<1>9. \A s, d : Mapped(k, s, d)' => Mapped(k, s, d)
  BY <1>2 DEF Mapped
<1>10. QED
  BY <1>2, <1>5, <1>7, <1>8, <1>9, PopAnswers

LEMMA TryReceiveAnswers ==
  ASSUME AnswersInv, QueuesInv', NEW u \in Users, NEW k \in Clients, NEW s \in Slots,
         TryReceive(u, k, s), ClientSide
  PROVE  AnswersInv'
<1>1. TypeOK /\ TypeOK'
  BY DEF AnswersInv, QueuesInv
<1>2. PICK c \in DOMAIN inbox[k] : c = slot_map[k][s]
  BY <1>1, MappedTypes DEF TryReceive
<1>3. c \in CSlots /\ Mapped(k, s, c)
  BY <1>1, <1>2, QueueTypes DEF Mapped, TryReceive
<1>4. UserStarts(u, k)
  BY DEF UserStarts
<1>5. Elsewhere(k) /\ Pop(k, c) /\ user' = user /\ UNCHANGED <<wireVars, slot_map, outgoing>>
  BY <1>1, <1>2, <1>4, UserElsewhere DEF TryReceive
<1>6. \A v \in Users : ~At(v, k, c)
  BY <1>3 DEF AnswersInv, Answered
<1>7. \A t, d : Mapped(k, t, d)' => Mapped(k, t, d)
  BY <1>5 DEF Mapped
<1>8. QED
  BY <1>5, <1>6, <1>7, SameUsers, PopAnswers

\* A request goes to a queue where nobody waits.
LEMMA SendAnswers ==
  ASSUME AnswersInv, QueuesInv', NEW k \in Clients, NEW c \in CSlots, NEW message,
         Send(k, c, message), inbox' = inbox \/ Allocate(k, c),
         UNCHANGED <<wireVars, slot_map>>, ClientSide, Elsewhere(k), NoNewWaiters,
         \A u \in Users : ~At(u, k, c),
         \A u \in Users, j \in Clients, d \in CSlots : Receiving(u, j, d)' => Receiving(u, j, d)
  PROVE  AnswersInv'
<1> DEFINE new == WireMessage(c, message)
<1>1. TypeOK /\ TypeOK'
  BY DEF AnswersInv, QueuesInv
<1>2. Flows(k, NoMessage, new)
  BY <1>1, SendFlows
<1>3. \A d : Refreshing(k, d)' => Refreshing(k, d) \/ d = c
  BY <1>1, SendRefreshes
<1>4. \A d : d # c => new \notin Exchange(d) /\ NoMessage \notin Exchange(d)
  BY NotAMessage DEF Exchange, To, Addressed, WireMessage
<1> HIDE DEF new
<1>5. ASSUME NEW u \in Users, NEW d \in CSlots, At(u, k, d) PROVE Steady(k, d, NoMessage, new)
  <2>1. d # c
    BY <1>5
  <2>2. QED
    BY <1>2, <1>3, <1>4, <2>1 DEF Steady, Mapped, wireVars
<1>6. QED
  BY <1>5, SteadyAnswers DEF wireVars

LEMMA RefreshAnswers ==
  ASSUME AnswersInv, QueuesInv', NEW u \in Users, NEW k \in Clients, NEW s \in Slots,
         Refresh(u, k, s), ClientSide
  PROVE  AnswersInv'
<1>1. TypeOK
  BY DEF AnswersInv, QueuesInv
<1>2. PICK c \in CSlots : c = slot_map[k][s] /\ Mapped(k, s, c)
  BY <1>1, MappedTypes, QueueTypes DEF Refresh, Mapped
<1>3. UserStarts(u, k)
  BY DEF UserStarts
<1>4. Elsewhere(k) /\ user' = user
  BY <1>1, <1>3, UserElsewhere DEF Refresh
<1>5. \A v \in Users : ~At(v, k, c)
  BY <1>2 DEF AnswersInv, Answered
<1>6. Send(k, c, RpcReqRslt(s)) /\ UNCHANGED <<wireVars, inbox, slot_map>>
  BY <1>2 DEF Refresh
<1>7. QED
  BY <1>4, <1>5, <1>6, SameUsers, SendAnswers

\* Nobody waits without a queue.
LEMMA WaitersHaveQueues ==
  ASSUME TypeOK, NEW k \in Clients, NEW c, c \notin DOMAIN inbox[k]
  PROVE  \A u \in Users : ~At(u, k, c) /\ ~Receiving(u, k, c)
  BY DEF At, Waiting, Receiving, TypeOK, UserTypeOK

LEMMA CloseSendAnswers ==
  ASSUME AnswersInv, QueuesInv', NEW u \in Users, NEW c \in CSlots, CloseSend(u, c), ClientSide
  PROVE  AnswersInv'
<1>1. TypeOK
  BY DEF AnswersInv, QueuesInv
<1>2. PICK k \in Clients : k = user[u].client
  BY <1>1, EngagedTypes DEF CloseSend
<1>3. Elsewhere(k)
  BY <1>1, <1>2, UserElsewhere DEF UserStep
<1>4. user'[u].pc = "aborting" /\ \A v \in Users \ {u} : user'[v] = user[v]
  BY <1>1 DEF CloseSend, TypeOK, UserTypeOK, UserState
<1>5. NoNewWaiters /\ \A v \in Users : \A j, d : Receiving(v, j, d)' => Receiving(v, j, d)
  BY <1>4 DEF NoNewWaiters, Receiving
<1>6. CASE link[k] = "closed"
  <2>1. UNCHANGED <<wireVars, connectionVars, othersVars>>
    BY <1>2, <1>6 DEF CloseSend, ClientSide, othersVars
  <2>2. QED
    BY <1>5, <2>1, QuietAnswers
<1>7. CASE link[k] # "closed"
  <2>1. /\ Allocate(k, c) /\ Send(k, c, UnSub(DOMAIN slot_map[k]))
        /\ UNCHANGED <<wireVars, slot_map>>
    BY <1>2, <1>7 DEF CloseSend
  <2>2. \A v \in Users : ~At(v, k, c)
    BY <1>1, <2>1, WaitersHaveQueues DEF Allocate
  <2>3. QED
    BY <1>3, <1>5, <2>1, <2>2, SendAnswers
<1>8. QED
  BY <1>6, <1>7

\* Who receives has found the queue in the map, ...
LEMMA UserOnlyAnswers ==
  ASSUME AnswersInv, QueuesInv', NEW u \in Users, ClientSide,
         \/ \E k \in Clients, s \in Slots : Receive(u, k, s)
         \/ \E k \in Clients : Close(u, k)
         \/ LookUp(u) \/ NotSubscribed(u) \/ ClosePanics(u)
  PROVE  AnswersInv'
<1>1. TypeOK
  BY DEF AnswersInv, QueuesInv
<1>2. UNCHANGED <<wireVars, connectionVars, othersVars>>
  BY DEF Receive, Close, LookUp, NotSubscribed, ClosePanics, ClientSide
<1>3. CASE LookUp(u)
  <2>1. PICK k \in Clients, s \in Slots : k = user[u].client /\ s = user[u].slot
    BY <1>1, <1>3, EngagedTypes DEF LookUp
  <2>2. /\ s \in DOMAIN slot_map[k]
        /\ user'[u].pc = "receiving" /\ user'[u].client = k /\ user'[u].c_slot = slot_map[k][s]
        /\ \A v \in Users \ {u} : user'[v] = user[v]
    BY <1>1, <1>3, <2>1 DEF LookUp, TypeOK, UserTypeOK, UserState
  <2>3. NoNewWaiters
    BY <2>2 DEF NoNewWaiters
  <2>4. \A v \in Users, j \in Clients, d \in CSlots :
          Receiving(v, j, d)' => Receiving(v, j, d) \/ \E t \in Slots : Mapped(j, t, d)
    BY <2>2 DEF Receiving, Mapped
  <2>5. QED
    BY <1>2, <2>3, <2>4, QuietAnswers
<1>4. CASE ~LookUp(u)
  <2>1. /\ user'[u].pc \in {"idle", "looking", "closing"}
        /\ \A v \in Users \ {u} : user'[v] = user[v]
    <3>1. CASE NotSubscribed(u) \/ ClosePanics(u)
      BY <1>1, <3>1, EndsWait DEF NotSubscribed, ClosePanics, Resting
    <3>2. CASE \/ \E k \in Clients, s \in Slots : Receive(u, k, s)
               \/ \E k \in Clients : Close(u, k)
      BY <1>1, <3>2 DEF Receive, Close, Begin, TypeOK
    <3>3. QED
      BY <1>4, <3>1, <3>2
  <2>2. NoNewWaiters /\ \A v \in Users : \A j, d : Receiving(v, j, d)' => Receiving(v, j, d)
    BY <2>1 DEF NoNewWaiters, Receiving
  <2>3. QED
    BY <1>2, <2>2, QuietAnswers
<1>5. QED
  BY <1>3, <1>4

\* ... and who starts to wait has put a request on its way, to a queue of its own.
LEMMA NewWaiterAnswers ==
  ASSUME AnswersInv, QueuesInv', NEW u \in Users, NEW k \in Clients, NEW c \in CSlots,
         NEW message \in Requests, NEW pc, NEW s, Elsewhere(k), ClientSide, Ready(u, k),
         Allocate(k, c), Send(k, c, message), Begin(u, pc, k, c, s),
         UNCHANGED <<wireVars, slot_map, drops>>,
         pc \in {"calling", "subscribing"}, message.kind # "RpcReqRslt"
  PROVE  AnswersInv'
<1> DEFINE new == WireMessage(c, message)
<1>1. TypeOK /\ TypeOK'
  BY DEF AnswersInv, QueuesInv
<1>2. /\ user'[u] = [pc |-> pc, client |-> k, c_slot |-> c, slot |-> s]
      /\ \A v \in Users \ {u} : user'[v] = user[v]
  BY <1>1 DEF Begin, TypeOK
<1>3. c \notin DOMAIN inbox[k]
  BY DEF Allocate
<1>4. Flows(k, NoMessage, new)
  BY <1>1, SendFlows
<1>5. \A d : Refreshing(k, d)' => Refreshing(k, d)
  BY <1>1, SendRefreshes
<1>6. \A v \in Users : \A j, d : Receiving(v, j, d)' => Receiving(v, j, d)
  BY <1>2 DEF Receiving
<1>7. \A v \in Users, j \in Clients, d \in CSlots :
        At(v, j, d)' => (At(v, j, d) /\ user'[v] = user[v]) \/ (j = k /\ d = c)
  BY <1>2 DEF At, Waiting
<1>8. new \in Exchange(c)
  BY RequestShapes DEF Exchange, To, Addressed, WireMessage
<1>9. \A d : d # c => new \notin Exchange(d) /\ NoMessage \notin Exchange(d)
  BY NotAMessage DEF Exchange, To, Addressed, WireMessage
<1> HIDE DEF new
<1>10. ASSUME NEW v \in Users, NEW d \in CSlots, At(v, k, d), d # c PROVE Answered(k, d)'
  <2>1. Steady(k, d, NoMessage, new)
    BY <1>4, <1>5, <1>6, <1>9, <1>10 DEF Steady, Mapped, wireVars
  <2>2. Answered(k, d)
    BY <1>10 DEF AnswersInv
  <2>3. QED
    BY <1>1, <2>1, <2>2, SteadyKeeps
<1>11. ASSUME NEW v \in Users, NEW j \in Clients, NEW d \in CSlots, At(v, j, d), j # k
       PROVE  Answered(j, d)'
  <2>1. Flows(j, NoMessage, NoMessage)
    BY <1>1, <1>11, ElsewhereFlows
  <2>2. (\A t \in Slots : Mapped(j, t, d)' => Mapped(j, t, d)) /\ (Refreshing(j, d)' => Refreshing(j, d))
    BY <1>11 DEF Elsewhere, Mapped, Refreshing
  <2>3. Steady(j, d, NoMessage, NoMessage)
    BY <1>6, <2>1, <2>2 DEF Steady, wireVars
  <2>4. Answered(j, d)
    BY <1>11 DEF AnswersInv
  <2>5. QED
    BY <1>1, <2>3, <2>4, SteadyKeeps
<1>12. Answered(k, c)'
  <2>1. link'[k] # "unused"
    BY DEF Ready, wireVars
  <2>2. (\A t \in Slots : ~Mapped(k, t, c)') /\ ~Refreshing(k, c)'
    BY <1>1, <1>3, <1>5, RefreshingTypes, MappedTypes DEF Mapped
  <2>3. \A v \in Users : ~Receiving(v, k, c)'
    BY <1>1, <1>3, <1>6, WaitersHaveQueues
  <2>4. ASSUME link'[k] = "up" PROVE Total(Exchange(c), k, c)' = 1
    <3>1. Exchange(c) \in SUBSET To(c)
      BY DEF Exchange
    <3>2. Total(Exchange(c), k, c) = 0
      BY <1>1, <1>3, <3>1, FreshQueue
    <3>3. Total(Exchange(c), k, c)' + Hit(NoMessage, Exchange(c))
            = Total(Exchange(c), k, c) + Hit(new, Exchange(c))
      BY <1>4, <2>4, <3>1 DEF Flows
    <3>4. Hit(NoMessage, Exchange(c)) = 0 /\ Hit(new, Exchange(c)) = 1
      BY <1>8, <3>1, NoHit DEF Hit
    <3>5. Total(Exchange(c), k, c)' \in Nat
      BY <1>1, TotalNext
    <3>6. QED
      BY <3>2, <3>3, <3>4, <3>5
  <2>5. QED
    BY <2>1, <2>2, <2>3, <2>4 DEF Answered
<1>13. QED
  BY <1>7, <1>10, <1>11, <1>12 DEF AnswersInv

----------------------------------------------------------------------------
LEMMA AnswersInitial == Init => AnswersInv
  BY QueuesInitial DEF AnswersInv, At, Waiting, Init, ClientInit, Resting

LEMMA AnswersStep == AnswersInv /\ [Next]_vars => AnswersInv'
<1> SUFFICES ASSUME AnswersInv, [Next]_vars PROVE AnswersInv'
  OBVIOUS
<1>1. QueuesInv'
  BY QueuesStep DEF AnswersInv
<1>2. ASSUME NEW k \in Clients, ConnectionStep(k), ServerSide PROVE AnswersInv'
  <2>1. ASSUME NEW i \in 1 .. Len(work[k]), WorkStep(k, i) PROVE AnswersInv'
    BY <1>1, <1>2, <2>1, HandlersAnswer, ServerMovesAnswers
  <2>2. QED
    BY <1>1, <1>2, <2>1, RelayReceiveAnswers, ServerMovesAnswers DEF ConnectionStep, RelayStep
<1>3. ASSUME NEW k \in Clients, NEW u \in Users, UserStarts(u, k), ClientSide PROVE AnswersInv'
  <2>1. UserStarts(u, k)
    BY <1>3
  <2>2. Elsewhere(k)
    BY <1>3, UserElsewhere DEF AnswersInv, QueuesInv
  <2>3. ASSUME NEW c \in CSlots, NEW b \in BOOLEAN, Call(u, k, c, b) PROVE AnswersInv'
    <3>1. RpcReq(b) \in Requests /\ RpcReq(b).kind # "RpcReqRslt"
      BY MadeRequests DEF RpcReq
    <3>2. /\ Ready(u, k) /\ Allocate(k, c) /\ Send(k, c, RpcReq(b))
          /\ Begin(u, "calling", k, c, Nothing) /\ UNCHANGED <<wireVars, slot_map, drops>>
      BY <2>3 DEF Call
    <3>3. QED
      BY <1>1, <1>3, <2>2, <3>1, <3>2, NewWaiterAnswers
  <2>4. ASSUME NEW c \in CSlots, NEW s \in Slots, Subscribe(u, k, c, s) PROVE AnswersInv'
    <3>1. Sub(s) \in Requests /\ Sub(s).kind # "RpcReqRslt"
      BY MadeRequests DEF Sub
    <3>2. /\ Ready(u, k) /\ Allocate(k, c) /\ Send(k, c, Sub(s))
          /\ Begin(u, "subscribing", k, c, s) /\ UNCHANGED <<wireVars, slot_map, drops>>
      BY <2>4 DEF Subscribe
    <3>3. QED
      BY <1>1, <1>3, <2>2, <3>1, <3>2, NewWaiterAnswers
  <2>5. QED
    BY <1>1, <1>3, <2>1, <2>3, <2>4, RefreshAnswers, TryReceiveAnswers, UserOnlyAnswers DEF UserStarts
<1>4. ASSUME NEW u \in Users, UserStep(u), ClientSide PROVE AnswersInv'
  BY <1>1, <1>4, ReturnsAnswers, ReceivedAnswers, UserOnlyAnswers, CloseSendAnswers, CloseAbortAnswers
     DEF UserStep
<1>5. ASSUME NEW s \in Slots, TaskStep(s), UNCHANGED <<wireVars, connectionVars, clientVars>>
      PROVE  AnswersInv'
  BY <1>1, <1>5, QuietAnswers, SameUsers DEF clientVars, othersVars
<1>6. CASE UNCHANGED vars
  BY <1>1, <1>6, QuietAnswers, SameUsers DEF vars, clientVars, othersVars
<1>7. QED
  BY <1>1, <1>2, <1>3, <1>4, <1>5, <1>6, ConnectAnswers, WireMovesAnswers DEF Next

\* The count of the messages is that of their positions.
LEMMA WaitersCounted ==
  ASSUME AnswersInv, NEW k \in Clients, NEW u \in Users, Waiting(u, k), link[k] = "up"
  PROVE  LET c == user[u].c_slot IN
           Cardinality(Of(c, Requested(k))) + Cardinality(Answers(k, c)) = 1
<1>1. TypeOK
  BY DEF AnswersInv, QueuesInv
<1>2. PICK c \in DOMAIN inbox[k] : c = user[u].c_slot
  BY <1>1, EngagedTypes DEF Waiting
<1>3. Total(Exchange(c), k, c) = 1 /\ ~Refreshing(k, c)
  <2>1. c \in CSlots /\ At(u, k, c)
    BY <1>1, <1>2, QueueTypes DEF At
  <2>2. QED
    BY <2>1 DEF AnswersInv, Answered
<1> DEFINE D == DOMAIN inbox[k]
           T == WorkState(D) \cup Addressed(D, Requests)
<1>4. /\ Path(k, c) \in Seq(Addressed(D, Replies)) /\ Requested(k) \in Seq(T)
  BY <1>1, <1>2, PathTypes
<1>5. Answers(k, c) = Places(Exchange(c), Path(k, c))
  <2>1. ASSUME NEW m \in Addressed(D, Replies)
        PROVE  (m.c_slot = c /\ m.inner.kind # "RpcRslt") <=> Letter(m) \in Exchange(c)
    BY DEF Letter, WireMessage, Exchange, To, Addressed
  <2>2. \A i \in 1 .. Len(Path(k, c)) : Path(k, c)[i] \in Addressed(D, Replies)
    BY <1>4, ElementOfSeq
  <2>3. QED
    BY <2>1, <2>2 DEF Answers, Of, Places
<1>6. Of(c, Requested(k)) = Places(Exchange(c), Requested(k))
  <2>1. ASSUME NEW x \in T, x.inner.kind = "RpcRslt", x.c_slot = c PROVE x \notin ToSet(Requested(k))
    <3>1. x \notin Addressed(D, Requests)
      BY <2>1, RequestShapes DEF Addressed
    <3>2. ToSet(toServer[k]) \cup ToSet(outgoing[k]) \subseteq Addressed(D, Requests)
      BY <1>1, ConnectionTypes, ToSetSeq
    <3>3. x \notin ToSet(work[k])
      BY <1>3, <2>1 DEF Refreshing, Refreshes
    <3>4. ToSet(Requested(k)) = ToSet(work[k]) \cup ToSet(toServer[k]) \cup ToSet(outgoing[k])
      <4>1. work[k] \in Seq(T) /\ toServer[k] \in Seq(T) /\ outgoing[k] \in Seq(T)
        BY <1>1, <1>2, PathTypes
      <4> HIDE DEF T
      <4> DEFINE r == work[k] \o toServer[k]
      <4>2. r \in Seq(T)
        BY <4>1, ConcatProperties
      <4>3. ToSet(r) = ToSet(work[k]) \cup ToSet(toServer[k])
        BY <4>1, ToSetConcat
      <4> HIDE DEF r
      <4>4. ToSet(r \o outgoing[k]) = ToSet(r) \cup ToSet(outgoing[k])
        BY <4>1, <4>2, ToSetConcat
      <4>5. QED
        BY <4>3, <4>4 DEF Requested, r
    <3>5. QED
      BY <3>1, <3>2, <3>3, <3>4
  <2>2. ASSUME NEW x \in T, x.inner.kind # "RpcRslt"
        PROVE  x.c_slot = c <=> Letter(x) \in Exchange(c)
    <3>1. x.inner \in Requests \cup Replies
      BY MadeRequests, MadeReplies DEF Addressed, WorkState
    <3>2. QED
      BY <2>2, <3>1 DEF Letter, WireMessage, Exchange, To, Addressed
  <2>3. ASSUME NEW x \in T, x.inner.kind = "RpcRslt" PROVE Letter(x) \notin Exchange(c)
    BY <2>3 DEF Letter, WireMessage, Exchange
  <2> HIDE DEF T
  <2>4. \A i \in 1 .. Len(Requested(k)) : Requested(k)[i] \in T /\ Requested(k)[i] \in ToSet(Requested(k))
    BY <1>4, ElementOfSeq, ToSetSeq
  <2>5. QED
    BY <2>1, <2>2, <2>3, <2>4 DEF Of, Places
<1>7. QED
  BY <1>1, <1>2, <1>3, <1>5, <1>6, TotalInOrder DEF Times

\* The tasks come first among the requests.
LEMMA PanickedRequested ==
  ASSUME TypeOK, NEW k \in Clients, NEW c \in DOMAIN inbox[k]
  PROVE  /\ Panicked(k, c) \subseteq Of(c, Requested(k))
         /\ IsFiniteSet(Of(c, Requested(k))) /\ IsFiniteSet(Answers(k, c))
<1> DEFINE D == DOMAIN inbox[k]
           T == WorkState(D) \cup Addressed(D, Requests)
           r == work[k] \o toServer[k]
<1>1. /\ work[k] \in Seq(T) /\ toServer[k] \in Seq(T) /\ outgoing[k] \in Seq(T)
      /\ Requested(k) \in Seq(T) /\ Path(k, c) \in Seq(Addressed(D, Replies))
  BY PathTypes
<1> HIDE DEF T
<1>2. r \in Seq(T)
  BY <1>1, ConcatProperties
<1>3. /\ Len(r) = Len(work[k]) + Len(toServer[k])
      /\ \A i \in 1 .. Len(work[k]) + Len(toServer[k]) :
           r[i] = IF i <= Len(work[k]) THEN work[k][i] ELSE toServer[k][i - Len(work[k])]
  BY <1>1, ConcatProperties
<1> HIDE DEF r
<1>4. /\ Len(r \o outgoing[k]) = Len(r) + Len(outgoing[k])
      /\ \A i \in 1 .. Len(r) + Len(outgoing[k]) :
           (r \o outgoing[k])[i] = IF i <= Len(r) THEN r[i] ELSE outgoing[k][i - Len(r)]
  BY <1>1, <1>2, ConcatProperties
<1>5. /\ Len(work[k]) \in Nat /\ Len(toServer[k]) \in Nat /\ Len(outgoing[k]) \in Nat
      /\ Len(r) \in Nat
  BY <1>1, <1>2, LenProperties
<1>6. ASSUME NEW i \in 1 .. Len(work[k])
      PROVE  i \in 1 .. Len(Requested(k)) /\ Requested(k)[i] = work[k][i]
  <2>1. Requested(k) = r \o outgoing[k]
    BY DEF Requested, r
  <2>2. i \in 1 .. Len(r) /\ r[i] = work[k][i]
    <3>1. i \in 1 .. Len(work[k]) + Len(toServer[k]) /\ i <= Len(work[k])
      <4>1. \A a, b \in Nat : \A n \in 1 .. a : n \in 1 .. a + b /\ n <= a
        OBVIOUS
      <4>2. QED
        BY <1>5, <4>1
    <3>2. r[i] = work[k][i]
      BY <1>3, <3>1
    <3>3. QED
      BY <1>3, <3>1, <3>2
  <2>3. i \in 1 .. Len(r \o outgoing[k]) /\ (r \o outgoing[k])[i] = r[i]
    BY <1>4, <1>5, <2>2
  <2>4. QED
    BY <2>1, <2>2, <2>3
<1>7. Panicked(k, c) \subseteq Of(c, Requested(k))
  BY <1>6 DEF Panicked, Of
<1>8. IsFiniteSet(Of(c, Requested(k))) /\ IsFiniteSet(Answers(k, c))
  <2>1. Len(Requested(k)) \in Nat /\ Len(Path(k, c)) \in Nat
    BY <1>1, LenProperties
  <2>2. IsFiniteSet(1 .. Len(Requested(k))) /\ IsFiniteSet(1 .. Len(Path(k, c)))
    BY <2>1, FS_Interval
  <2>3. Of(c, Requested(k)) \subseteq 1 .. Len(Requested(k)) /\ Answers(k, c) \subseteq 1 .. Len(Path(k, c))
    BY DEF Of, Answers
  <2>4. QED
    BY <2>2, <2>3, FS_Subset
<1>9. QED
  BY <1>7, <1>8

LEMMA AnswersCounted == AnswersInv => OneAnswer
<1> SUFFICES ASSUME AnswersInv, NEW k \in Clients, NEW u \in Users, Waiting(u, k), link[k] = "up"
             PROVE  LET c     == user[u].c_slot
                        alive == Of(c, Requested(k)) \ Panicked(k, c) IN
                      Cardinality(alive) + Cardinality(Answers(k, c))
                        = IF Panicked(k, c) = {} THEN 1 ELSE 0
  BY DEF OneAnswer
<1>1. TypeOK
  BY DEF AnswersInv, QueuesInv
<1>2. PICK c \in DOMAIN inbox[k] : c = user[u].c_slot
  BY <1>1, EngagedTypes DEF Waiting
<1> DEFINE A == Of(c, Requested(k))
           B == Answers(k, c)
           P == Panicked(k, c)
<1>3. P \subseteq A /\ IsFiniteSet(A) /\ IsFiniteSet(B)
  BY <1>1, PanickedRequested
<1>4. Cardinality(A) + Cardinality(B) = 1
  BY <1>2, WaitersCounted
<1> HIDE DEF A, B, P
<1>5. Cardinality(A \ P) + Cardinality(B) = IF P = {} THEN 1 ELSE 0
  <2>1. CASE P = {}
    <3>1. A \ P = A
      BY <2>1
    <3>2. QED
      BY <1>4, <2>1, <3>1
  <2>2. CASE P # {}
    <3>1. PICK x \in P : TRUE
      BY <2>2
    <3>2. x \in A /\ IsFiniteSet(A \ {x}) /\ Cardinality(A \ {x}) = Cardinality(A) - 1
      BY <1>3, <3>1, FS_RemoveElement
    <3>3. Cardinality(A) \in Nat /\ Cardinality(B) \in Nat /\ Cardinality(A \ {x}) \in Nat
      BY <1>3, <3>2, FS_CardinalityType
    <3>4. Cardinality(A \ {x}) = 0 /\ Cardinality(B) = 0
      BY <1>4, <3>2, <3>3
    <3>5. A \ {x} = {}
      BY <3>2, <3>4, FS_EmptySet
    <3>6. A \ P = {}
      BY <3>1, <3>5
    <3>7. Cardinality(A \ P) = 0
      BY <3>6, FS_EmptySet
    <3>8. QED
      BY <2>2, <3>4, <3>7
  <2>3. QED
    BY <2>1, <2>2
<1>6. QED
  BY <1>2, <1>5 DEF A, B, P

\* For a user that waits there is its request or its answer, once, as long as the
\* connection is up, or else the task that had its request has panicked over it;
\* and no other answer reaches its queue.
THEOREM WaitersAnsweredOnce == Spec => []OneAnswer
  BY AnswersInitial, AnswersStep, AnswersCounted, PTL DEF Spec
----------------------------------------------------------------------------
(* The order of reports.                                                   *)

\* Reports on one RPC come in this order.
Before(x, y) ==
  x.inner \in Reports /\ y.inner \in Reports /\ x.inner.slot = y.inner.slot
    => x.inner.n < y.inner.n

Ahead(A, B) == \A x \in A, y \in B : Before(x, y)
InOrder(s)  == \A i, j \in 1 .. Len(s) : i < j => Before(s[i], s[j])

LEMMA InOrderShort ==
  ASSUME NEW T, NEW s \in Seq(T), Len(s) <= 1
  PROVE  InOrder(s)
  BY LenProperties DEF InOrder

LEMMA InOrderTail ==
  ASSUME NEW T, NEW s \in Seq(T), s # <<>>, InOrder(s)
  PROVE  InOrder(Tail(s)) /\ Ahead({Head(s)}, ToSet(Tail(s)))
<1> DEFINE r == Tail(s)
<1>1. /\ Len(s) \in Nat /\ Len(s) >= 1 /\ Head(s) = s[1] /\ r \in Seq(T) /\ Len(r) = Len(s) - 1
      /\ \A i \in 1 .. Len(s) - 1 : r[i] = s[i + 1]
  BY HeadTailProperties, LenProperties, EmptySeq
<1> HIDE DEF r
<1>2. ToSet(r) = {r[i] : i \in 1 .. Len(r)}
  BY <1>1, ToSetSeq
<1>3. ASSUME NEW i \in 1 .. Len(r), NEW j \in 1 .. Len(r), i < j PROVE Before(r[i], r[j])
  <2>1. i + 1 \in 1 .. Len(s) /\ j + 1 \in 1 .. Len(s) /\ i + 1 < j + 1
    BY <1>1, <1>3
  <2>2. QED
    BY <1>1, <2>1 DEF InOrder
<1>4. ASSUME NEW j \in 1 .. Len(r) PROVE Before(s[1], r[j])
  <2>1. 1 \in 1 .. Len(s) /\ j + 1 \in 1 .. Len(s) /\ 1 < j + 1
    BY <1>1, <1>4
  <2>2. QED
    BY <1>1, <2>1 DEF InOrder
<1>5. QED
  BY <1>1, <1>2, <1>3, <1>4 DEF InOrder, Ahead, r

LEMMA InOrderConcat ==
  ASSUME NEW T, NEW s \in Seq(T), NEW t \in Seq(T),
         InOrder(s), InOrder(t), Ahead(ToSet(s), ToSet(t))
  PROVE  InOrder(s \o t)
<1> DEFINE r == s \o t
<1>1. /\ Len(r) = Len(s) + Len(t)
      /\ \A i \in 1 .. Len(s) + Len(t) : r[i] = IF i <= Len(s) THEN s[i] ELSE t[i - Len(s)]
  BY ConcatProperties
<1>2. /\ Len(s) \in Nat /\ Len(t) \in Nat
      /\ ToSet(s) = {s[i] : i \in 1 .. Len(s)} /\ ToSet(t) = {t[i] : i \in 1 .. Len(t)}
  BY LenProperties, ToSetSeq
<1> HIDE DEF r
<1>3. ASSUME NEW i \in 1 .. Len(r), NEW j \in 1 .. Len(r), i < j PROVE Before(r[i], r[j])
  <2>1. CASE j <= Len(s)
    <3>1. i \in 1 .. Len(s) /\ j \in 1 .. Len(s) /\ r[i] = s[i] /\ r[j] = s[j]
      BY <1>1, <1>2, <1>3, <2>1
    <3>2. QED
      BY <1>3, <3>1 DEF InOrder
  <2>2. CASE i <= Len(s) /\ j > Len(s)
    <3>1. i \in 1 .. Len(s) /\ j - Len(s) \in 1 .. Len(t) /\ r[i] = s[i] /\ r[j] = t[j - Len(s)]
      BY <1>1, <1>2, <1>3, <2>2
    <3>2. QED
      BY <1>2, <3>1 DEF Ahead
  <2>3. CASE i > Len(s)
    <3>1. /\ i - Len(s) \in 1 .. Len(t) /\ j - Len(s) \in 1 .. Len(t) /\ i - Len(s) < j - Len(s)
          /\ r[i] = t[i - Len(s)] /\ r[j] = t[j - Len(s)]
      BY <1>1, <1>2, <1>3, <2>3
    <3>2. QED
      BY <3>1 DEF InOrder
  <2>4. QED
    BY <1>1, <1>2, <2>1, <2>2, <2>3
<1>4. QED
  BY <1>3 DEF InOrder, r

\* So do these on their way: from hand to outbox, wire and queue.
Lined(queue, wire, out, hand) ==
  /\ InOrder(queue) /\ InOrder(wire)
  /\ Ahead(ToSet(queue), ToSet(wire))
  /\ Ahead(ToSet(queue) \cup ToSet(wire), ToSet(out))
  /\ Ahead(ToSet(queue) \cup ToSet(wire) \cup ToSet(out), ToSet(hand))

OnPath(k, c) ==
  ToSet(Queue(k, c)) \cup ToSet(toClient[k]) \cup ToSet(outbox[k]) \cup ToSet(InHand(k))

\* The relay of k has had this report.
Relayed(k, report) ==
  \E p \in 1 .. relay[k].next : log[p] = [slot |-> report.slot, n |-> report.n]

OrderOK(k, c) ==
  /\ Lined(Queue(k, c), toClient[k], outbox[k], InHand(k))
  /\ \A x \in OnPath(k, c) : x.inner \in Reports => Relayed(k, x.inner)

\* The bus has the reports of an RPC in order, and none that was not sent.
LogInOrder ==
  /\ \A p \in 1 .. Len(log) : log[p].n <= sent[log[p].slot]
  /\ \A p, q \in 1 .. Len(log) : p < q /\ log[p].slot = log[q].slot => log[p].n < log[q].n

\* Reports come to the client from the relay alone: no task holds one.
ReportsInv ==
  /\ TypeOK
  /\ LogInOrder
  /\ \A k \in Clients :
       /\ \A w \in ToSet(work[k]) : w.inner \notin Reports
       /\ \A c \in CSlots : OrderOK(k, c)

LogGrows ==
  /\ Len(log) <= Len(log')
  /\ \A p \in 1 .. Len(log) : log'[p] = log[p]

LEMMA PlaceNext ==
  ASSUME NEW k \in Clients
  PROVE  (TypeOK => relay[k].next \in Nat)'
<1>1. TypeOK => relay[k].next \in Nat
  BY ConnectionTypes
<1>2. QED
  BY <1>1, PTL

LEMMA StillRelayed ==
  ASSUME TypeOK, TypeOK', LogGrows, NEW k \in Clients, relay'[k].next >= relay[k].next
  PROVE  \A report : Relayed(k, report) => Relayed(k, report)'
<1>1. /\ relay[k].next \in Nat /\ relay[k].next <= Len(log) /\ Len(log) \in Nat
  BY ConnectionTypes
<1>2. relay'[k].next \in Nat
  BY PlaceNext
<1>3. QED
  BY <1>1, <1>2 DEF Relayed, LogGrows

\* Nothing comes to the path, and nothing moves on it.
Fades(k) ==
  /\ \A c \in CSlots : \/ Queue(k, c)' = Queue(k, c)
                       \/ Queue(k, c) # <<>> /\ Queue(k, c)' = Tail(Queue(k, c))
  /\ toClient'[k] \in {toClient[k], <<>>} /\ outbox'[k] = outbox[k] /\ InHand(k)' = InHand(k)
  /\ relay'[k].next >= relay[k].next

LEMMA FadesKeeps ==
  ASSUME ReportsInv, TypeOK', LogGrows, NEW k \in Clients, Fades(k), NEW c \in CSlots
  PROVE  OrderOK(k, c)'
<1> DEFINE q  == Queue(k, c)
           q2 == Queue(k, c)'
<1>1. /\ Lined(q, toClient[k], outbox[k], InHand(k))
      /\ \A x \in OnPath(k, c) : x.inner \in Reports => Relayed(k, x.inner)
  BY DEF ReportsInv, OrderOK
<1>2. q \in Seq(Addressed({c}, Replies))
  BY QueueKinds DEF ReportsInv
<1>3. (q2 = q \/ (q # <<>> /\ q2 = Tail(q))) /\ OnPath(k, c)' =
         ToSet(q2) \cup ToSet(toClient'[k]) \cup ToSet(outbox'[k]) \cup ToSet(InHand(k)')
  BY DEF Fades, OnPath
<1>4. ToSet(toClient'[k]) \subseteq ToSet(toClient[k]) /\ InOrder(toClient'[k])
  <2>1. <<>> \in Seq({}) /\ Len(<<>>) <= 1
    BY EmptySeq
  <2>2. InOrder(<<>>) /\ ToSet(<<>>) = {}
    BY <2>1, InOrderShort, ToSetOne
  <2>3. QED
    BY <1>1, <2>2 DEF Fades, Lined
<1> HIDE DEF q, q2
<1>5. ToSet(q2) \subseteq ToSet(q) /\ InOrder(q2)
  BY <1>1, <1>2, <1>3, InOrderTail, ToSetParts DEF Lined
<1>6. Lined(q2, toClient'[k], outbox'[k], InHand(k)')
  BY <1>1, <1>4, <1>5 DEF Lined, Ahead, Fades
<1>7. OnPath(k, c)' \subseteq OnPath(k, c)
  BY <1>3, <1>4, <1>5 DEF OnPath, Fades, q
<1>8. \A x \in OnPath(k, c)' : x.inner \in Reports => Relayed(k, x.inner)'
  BY <1>1, <1>7, StillRelayed DEF Fades, ReportsInv
<1>9. QED
  BY <1>6, <1>8 DEF OrderOK, q2
\* The outbox is written to the wire, or lost.
LEMMA LinedFlush ==
  ASSUME NEW T, NEW q \in Seq(T), NEW t \in Seq(T), NEW o \in Seq(T), NEW h \in Seq(T),
         Len(o) <= 1, Lined(q, t, o, h)
  PROVE  Lined(q, t \o o, <<>>, h) /\ Lined(q, t, <<>>, h)
<1>1. InOrder(o) /\ ToSet(<<>>) = {}
  BY InOrderShort, ToSetOne
<1> DEFINE r == t \o o
<1>2. InOrder(r) /\ ToSet(r) = ToSet(t) \cup ToSet(o)
  BY <1>1, InOrderConcat, ToSetConcat DEF Lined, Ahead
<1> HIDE DEF r
<1>3. Lined(q, r, <<>>, h) /\ Lined(q, t, <<>>, h)
  BY <1>1, <1>2 DEF Lined, Ahead
<1>4. QED
  BY <1>3 DEF r

\* A message comes to the outbox, from a task or from hand.
LEMMA LinedOut ==
  ASSUME NEW q, NEW t, NEW h, Lined(q, t, <<>>, h)
  PROVE  /\ Lined(q, t, h, <<>>)
         /\ \A m : m.inner \notin Reports => Lined(q, t, <<m>>, h)
<1>1. ToSet(<<>>) = {} /\ \A m : ToSet(<<m>>) = {m}
  BY ToSetOne
<1>2. QED
  BY <1>1 DEF Lined, Ahead, Before

\* The relay takes a report in hand.
LEMMA LinedReceive ==
  ASSUME NEW q, NEW t, NEW o, NEW m, Lined(q, t, o, <<>>),
         Ahead(ToSet(q) \cup ToSet(t) \cup ToSet(o), {m})
  PROVE  Lined(q, t, o, <<m>>)
  BY ToSetOne DEF Lined

\* The client takes a message from the wire, to this queue or another.
LEMMA LinedDeliver ==
  ASSUME NEW T, NEW q \in Seq(T), NEW t \in Seq(T), NEW o, NEW h, t # <<>>, Lined(q, t, o, h)
  PROVE  Lined(Append(q, Head(t)), Tail(t), o, h) /\ Lined(q, Tail(t), o, h)
<1>1. /\ InOrder(Tail(t)) /\ Ahead({Head(t)}, ToSet(Tail(t)))
      /\ Head(t) \in ToSet(t) /\ ToSet(Tail(t)) \subseteq ToSet(t) /\ Head(t) \in T
  BY InOrderTail, ToSetParts, HeadTailProperties DEF Lined
<1> DEFINE m == Head(t)
           r == Append(q, m)
           s == Tail(t)
<1>2. r = q \o <<m>> /\ <<m>> \in Seq(T) /\ Len(<<m>>) <= 1 /\ ToSet(<<m>>) = {m}
  BY <1>1, AppendIsConcat, ToSetOne
<1> HIDE DEF m, r, s
<1>3. InOrder(<<m>>) /\ Ahead(ToSet(q), ToSet(<<m>>))
  BY <1>1, <1>2, InOrderShort DEF Lined, Ahead, m
<1>4. InOrder(r) /\ ToSet(r) = ToSet(q) \cup {m}
  <2>1. InOrder(q)
    BY DEF Lined
  <2>2. InOrder(q \o <<m>>) /\ ToSet(q \o <<m>>) = ToSet(q) \cup ToSet(<<m>>)
    <3>1. InOrder(q \o <<m>>)
      BY <1>2, <1>3, <2>1, InOrderConcat, ZenonT(30)
    <3>2. ToSet(q \o <<m>>) = ToSet(q) \cup ToSet(<<m>>)
      <4>1. <<m>> \in Seq(T)
        BY <1>2
      <4>2. QED
        BY <4>1, ToSetConcat
    <3>3. QED
      BY <3>1, <3>2
  <2>3. QED
    BY <1>2, <2>2
<1>5. /\ InOrder(s) /\ Ahead({m}, ToSet(s)) /\ m \in ToSet(t) /\ ToSet(s) \subseteq ToSet(t)
  BY <1>1 DEF m, s
<1>6. Lined(r, s, o, h) /\ Lined(q, s, o, h)
  BY <1>4, <1>5 DEF Lined, Ahead
<1>7. QED
  BY <1>6 DEF m, r, s

----------------------------------------------------------------------------
\* An action on connection k keeps the order if it does so there.
LEMMA ReportsElsewhere ==
  ASSUME ReportsInv, TypeOK', NEW k \in Clients, Elsewhere(k), UNCHANGED <<log, sent>>,
         \A w \in ToSet(work'[k]) : w.inner \notin Reports,
         \A c \in CSlots : OrderOK(k, c)'
  PROVE  ReportsInv'
<1>1. ASSUME NEW j \in Clients, j # k
      PROVE  /\ \A w \in ToSet(work'[j]) : w.inner \notin Reports
             /\ \A c \in CSlots : OrderOK(j, c)'
  <2>1. work'[j] = work[j]
    BY <1>1 DEF Elsewhere
  <2>2. ASSUME NEW c \in CSlots PROVE OrderOK(j, c)'
    <3>1. /\ inbox'[j] = inbox[j] /\ toClient'[j] = toClient[j] /\ outbox'[j] = outbox[j]
          /\ relay'[j] = relay[j] /\ OrderOK(j, c)
      BY <1>1 DEF Elsewhere, ReportsInv
    <3>2. QED
      BY <3>1 DEF OrderOK, OnPath, Relayed, Queue, Tagged, InHand
  <2>3. QED
    BY <1>1, <2>1, <2>2 DEF ReportsInv
<1>2. LogInOrder'
  BY DEF ReportsInv, LogInOrder
<1>3. QED
  BY <1>1, <1>2 DEF ReportsInv

LEMMA SameLogGrows ==
  ASSUME TypeOK, log' = log
  PROVE  LogGrows
  BY LenProperties DEF TypeOK, LogGrows

LEMMA FadesReports ==
  ASSUME ReportsInv, TypeOK', NEW k \in Clients, Elsewhere(k), UNCHANGED <<log, sent>>,
         \A w \in ToSet(work'[k]) : w.inner \notin Reports, Fades(k)
  PROVE  ReportsInv'
  BY SameLogGrows, FadesKeeps, ReportsElsewhere DEF ReportsInv

\* Nothing changes on the path.
LEMMA PathStays ==
  ASSUME TypeOK, NEW k \in Clients, \A c \in CSlots : Queue(k, c)' = Queue(k, c),
         toClient'[k] = toClient[k], outbox'[k] = outbox[k], relay'[k] = relay[k]
  PROVE  Fades(k)
<1>1. relay[k].next \in Nat
  BY ConnectionTypes
<1>2. InHand(k)' = InHand(k)
  BY DEF InHand
<1>3. QED
  BY <1>1, <1>2 DEF Fades

\* A request is read, or a task goes on and does not yet reply.
LEMMA TaskReports ==
  ASSUME ReportsInv, TypeOK', NEW k \in Clients, ServerSide,
         \/ ReadRequest(k)
         \/ \E i \in 1 .. Len(work[k]) : WorkStep(k, i) /\ ~Reply(k, i)
  PROVE  ReportsInv'
<1>1. Elsewhere(k)
  BY ServerElsewhere DEF ConnectionStep, ReportsInv
<1>2. UNCHANGED <<log, sent, inbox, toClient, outbox, relay>>
  BY DEF ReadRequest, WorkStep, OwnStep, ExecutorStep, Refuse, AssignSlot, OutOfSlots, NoHandler,
         Execute, SubscribeCaller, HandleRpcReqResult, HandleSub, HandleUnsub, Accept, ServerSide, clientVars, wireVars, tasksVars
<1>3. Fades(k)
  BY <1>2, PathStays DEF Queue, Tagged, ReportsInv
<1>4. \A w \in ToSet(work'[k]) : w.inner \notin Reports
  <2>1. CASE ReadRequest(k)
    <3> DEFINE m == Head(toServer[k])
               w == [step |-> "handle", c_slot |-> m.c_slot, inner |-> m.inner]
    <3>1. m \in Addressed(DOMAIN inbox[k], Requests) /\ work'[k] = Append(work[k], w)
      BY <2>1, HeadTailProperties, ConnectionTypes DEF ReadRequest, ReportsInv, TypeOK
    <3>2. m.inner \in Requests
      BY <3>1 DEF Addressed
    <3>3. m.inner \notin Reports
      BY <3>2, RequestShapes DEF Reports
    <3>4. w \in WorkState(DOMAIN inbox[k]) /\ w.inner \notin Reports
      BY <3>1, <3>3 DEF WorkState, Addressed
    <3> HIDE DEF w, m
    <3>5. ToSet(work'[k]) = ToSet(work[k]) \cup {w}
      BY <3>1, <3>4, ConnectionTypes, ToSetParts DEF ReportsInv
    <3>6. QED
      BY <3>4, <3>5 DEF ReportsInv
  <2>2. ASSUME NEW i \in 1 .. Len(work[k]), WorkStep(k, i)
        PROVE  \A w \in ToSet(work'[k]) : w.inner \notin Reports
    <3>1. \A w \in ToSet(work'[k]) \ ToSet(work[k]) : w.inner.kind = "RpcRslt" => w.inner.asked = TRUE
      BY <2>2, WorkStepElements DEF ReportsInv
    <3>2. \A m \in Reports : m.kind = "RpcRslt" /\ m.asked = FALSE
      BY DEF Reports
    <3>3. QED
      BY <3>1, <3>2 DEF ReportsInv
  <2>3. QED
    BY <2>1, <2>2
<1>5. QED
  BY <1>1, <1>2, <1>3, <1>4, FadesReports
\* A task replies.
LEMMA ReplyReports ==
  ASSUME ReportsInv, TypeOK', NEW k \in Clients, NEW i \in 1 .. Len(work[k]), Reply(k, i), ServerSide
  PROVE  ReportsInv'
<1> DEFINE m == WireMessage(work[k][i].c_slot, work[k][i].inner)
<1>1. Elsewhere(k)
  BY ServerElsewhere DEF ConnectionStep, WorkStep, OwnStep, ExecutorStep, ReportsInv
<1>2. /\ UNCHANGED <<log, sent, inbox, toClient, relay>>
      /\ outbox[k] = <<>> /\ outbox'[k] = <<m>> /\ work'[k] = RemoveAt(work[k], i)
  BY DEF Reply, Enqueue, Room, TaskEnds, ServerSide, clientVars, wireVars, tasksVars, ReportsInv, TypeOK
<1>3. work[k] \in Seq(WorkState(DOMAIN inbox[k]))
  BY ConnectionTypes DEF ReportsInv
<1>4. \A w \in ToSet(work'[k]) : w.inner \notin Reports
  BY <1>2, <1>3, ToSetParts DEF ReportsInv
<1>5. m.inner \notin Reports
  <2>1. work[k][i] \in ToSet(work[k])
    BY <1>3, ToSetSeq
  <2>2. QED
    BY <2>1 DEF ReportsInv, WireMessage
<1> HIDE DEF m
<1>6. ASSUME NEW c \in CSlots PROVE OrderOK(k, c)'
  <2>1. /\ Lined(Queue(k, c), toClient[k], <<>>, InHand(k))
        /\ \A x \in OnPath(k, c) : x.inner \in Reports => Relayed(k, x.inner)
    BY <1>2 DEF ReportsInv, OrderOK
  <2>2. Lined(Queue(k, c), toClient[k], <<m>>, InHand(k))
    BY <1>5, <2>1, LinedOut
  <2>3. Queue(k, c)' = Queue(k, c) /\ InHand(k)' = InHand(k)
        /\ \A report : Relayed(k, report)' <=> Relayed(k, report)
    BY <1>2 DEF Queue, Tagged, InHand, Relayed
  <2>4. OnPath(k, c)' \subseteq OnPath(k, c) \cup {m}
    BY <1>2, <2>3, ToSetOne DEF OnPath
  <2>5. QED
    BY <1>2, <1>5, <2>1, <2>2, <2>3, <2>4 DEF OrderOK
<1>7. QED
  BY <1>1, <1>2, <1>4, <1>6, ReportsElsewhere

\* What the relay receives is later than what it had before.
LEMMA RelayReceiveReports ==
  ASSUME ReportsInv, TypeOK', NEW k \in Clients, RelayReceive(k), ServerSide
  PROVE  ReportsInv'
<1> DEFINE next == relay[k].next + 1
           m    == log[next]
           out  == WireMessage(subscribed[k][m.slot], RpcRslt(m.slot, m.n, FALSE))
<1>1. Elsewhere(k)
  BY ServerElsewhere DEF ConnectionStep, RelayStep, ReportsInv
<1>2. UNCHANGED <<log, sent, inbox, toClient, outbox, work>> /\ InHand(k) = <<>>
  BY DEF RelayReceive, ServerSide, clientVars, wireVars, tasksVars, InHand
<1>3. /\ relay[k].next \in Nat /\ next \in 1 .. Len(log) /\ m \in Message /\ relay'[k].next = next
      /\ InHand(k)' = IF m.slot \in DOMAIN subscribed[k] THEN <<out>> ELSE <<>>
  <2>1. relay[k].next \in Nat /\ next \in 1 .. Len(log) /\ Len(log) \in Nat
    BY ConnectionTypes DEF RelayReceive, Receivable, Pending, ReportsInv
  <2>2. m \in Message
    BY <2>1, ElementOfSeq DEF ReportsInv, TypeOK
  <2>3. relay'[k] = IF m.slot \in DOMAIN subscribed[k]
                    THEN [pc |-> "sending", next |-> next, out |-> out]
                    ELSE [relay[k] EXCEPT !.next = next]
    BY DEF RelayReceive, ReportsInv, TypeOK
  <2>4. relay[k] \in RelayState(DOMAIN inbox[k]) /\ relay[k].pc = "recv"
    BY ConnectionTypes DEF RelayReceive, ReportsInv
  <2> HIDE DEF next, m, out
  <2>5. relay'[k].next = next
    BY <2>3, <2>4 DEF RelayState
  <2>6. InHand(k)' = IF m.slot \in DOMAIN subscribed[k] THEN <<out>> ELSE <<>>
    BY <2>3, <2>4 DEF RelayState, InHand
  <2>7. QED
    BY <2>1, <2>2, <2>5, <2>6
<1>4. CASE m.slot \notin DOMAIN subscribed[k]
  <2>1. Fades(k)
    BY <1>2, <1>3, <1>4 DEF Fades, Queue, Tagged
  <2>2. QED
    BY <1>1, <1>2, <2>1, FadesReports DEF ReportsInv
<1>5. CASE m.slot \in DOMAIN subscribed[k]
  <2>1. out.inner \in Reports /\ out.inner.slot = m.slot /\ out.inner.n = m.n
        /\ m = [slot |-> m.slot, n |-> m.n]
    BY <1>3, MadeReplies DEF WireMessage, RpcRslt, Message
  <2>2. PICK taken : taken = out
    OBVIOUS
  <2> HIDE DEF out
  <2>3. ASSUME NEW c \in CSlots PROVE OrderOK(k, c)'
    <3>1. /\ Lined(Queue(k, c), toClient[k], outbox[k], <<>>)
          /\ \A x \in OnPath(k, c) : x.inner \in Reports => Relayed(k, x.inner)
      BY <1>2 DEF ReportsInv, OrderOK
    <3>2. ASSUME NEW x \in OnPath(k, c) PROVE Before(x, taken)
      <4> SUFFICES ASSUME x.inner \in Reports, x.inner.slot = m.slot PROVE x.inner.n < m.n
        BY <2>1, <2>2 DEF Before
      <4>1. PICK p \in 1 .. relay[k].next : log[p] = [slot |-> x.inner.slot, n |-> x.inner.n]
        BY <3>1 DEF Relayed
      <4>2. p \in 1 .. Len(log) /\ p < next
        BY <1>3, <4>1
      <4>3. log[p].slot = m.slot /\ log[p].n = x.inner.n
        BY <4>1
      <4>4. QED
        BY <1>3, <4>2, <4>3 DEF ReportsInv, LogInOrder
    <3>3. Lined(Queue(k, c), toClient[k], outbox[k], <<taken>>)
      BY <3>1, <3>2, LinedReceive DEF Ahead, OnPath
    <3>4. Queue(k, c)' = Queue(k, c) /\ OnPath(k, c)' \subseteq OnPath(k, c) \cup {taken}
      BY <1>2, <1>3, <1>5, <2>2, ToSetOne DEF OnPath, Queue, Tagged
    <3>5. \A report : Relayed(k, report) => Relayed(k, report)'
      BY <1>2, <1>3 DEF Relayed
    <3>6. Relayed(k, taken.inner)'
      BY <1>2, <1>3, <2>1, <2>2 DEF Relayed
    <3>7. QED
      BY <1>2, <1>3, <1>5, <2>2, <3>1, <3>3, <3>4, <3>5, <3>6 DEF OrderOK
  <2>4. QED
    BY <1>1, <1>2, <2>3, ReportsElsewhere DEF ReportsInv
<1>6. QED
  BY <1>4, <1>5

\* The relay sends, or ends; the outbox is flushed.
LEMMA RelaySendReports ==
  ASSUME ReportsInv, TypeOK', NEW k \in Clients, RelaySend(k), ServerSide
  PROVE  ReportsInv'
<1>1. Elsewhere(k)
  BY ServerElsewhere DEF ConnectionStep, RelayStep, ReportsInv
<1>2. /\ UNCHANGED <<log, sent, inbox, toClient, work>>
      /\ outbox[k] = <<>> /\ outbox'[k] = InHand(k) /\ InHand(k)' = <<>>
      /\ relay'[k].next = relay[k].next
  <2>1. relay[k] \in RelayState(DOMAIN inbox[k])
    BY ConnectionTypes DEF ReportsInv
  <2>2. QED
    BY <2>1 DEF RelaySend, Enqueue, Room, RelayListens, InHand, RelayState, ServerSide, clientVars, wireVars,
                tasksVars, ReportsInv, TypeOK
<1>3. ASSUME NEW c \in CSlots PROVE OrderOK(k, c)'
  <2>1. /\ Lined(Queue(k, c), toClient[k], <<>>, InHand(k))
        /\ \A x \in OnPath(k, c) : x.inner \in Reports => Relayed(k, x.inner)
    BY <1>2 DEF ReportsInv, OrderOK
  <2>2. Lined(Queue(k, c), toClient[k], InHand(k), <<>>)
    BY <2>1, LinedOut
  <2>3. Queue(k, c)' = Queue(k, c) /\ \A report : Relayed(k, report)' <=> Relayed(k, report)
    BY <1>2 DEF Queue, Tagged, Relayed
  <2>4. OnPath(k, c)' \subseteq OnPath(k, c)
    BY <1>2, <2>3, ToSetOne DEF OnPath
  <2>5. QED
    BY <1>2, <2>1, <2>2, <2>3, <2>4 DEF OrderOK
<1>4. QED
  BY <1>1, <1>2, <1>3, ReportsElsewhere DEF ReportsInv

LEMMA RelayLagReports ==
  ASSUME ReportsInv, TypeOK', NEW k \in Clients, RelayLag(k), ServerSide
  PROVE  ReportsInv'
<1>1. Elsewhere(k)
  BY ServerElsewhere DEF ConnectionStep, RelayStep, ReportsInv
<1>2. relay[k] \in RelayState(DOMAIN inbox[k]) /\ relay[k].next \in Nat
  BY ConnectionTypes DEF ReportsInv
<1>3. UNCHANGED <<log, sent, inbox, toClient, outbox, work>> /\ InHand(k)' = InHand(k)
      /\ relay'[k].next = relay[k].next
  BY <1>2 DEF RelayLag, ServerSide, clientVars, wireVars, tasksVars, InHand, RelayState, ReportsInv, TypeOK
<1>4. Fades(k)
  BY <1>2, <1>3 DEF Fades, Queue, Tagged
<1>5. QED
  BY <1>1, <1>3, <1>4, FadesReports DEF ReportsInv

LEMMA FlushReports ==
  ASSUME ReportsInv, TypeOK', NEW k \in Clients, Flush(k), ServerSide
  PROVE  ReportsInv'
<1>1. Elsewhere(k)
  BY ServerElsewhere DEF ConnectionStep, ReportsInv
<1>2. /\ UNCHANGED <<log, sent, inbox, relay, work>> /\ outbox'[k] = <<>>
      /\ toClient'[k] \in {toClient[k], toClient[k] \o outbox[k]}
  BY DEF Flush, ServerSide, clientVars, tasksVars, ReportsInv, TypeOK
<1>3. ASSUME NEW c \in CSlots PROVE OrderOK(k, c)'
  <2> DEFINE T == Addressed(DOMAIN inbox[k] \cup {c}, Replies)
  <2>1. /\ Lined(Queue(k, c), toClient[k], outbox[k], InHand(k))
        /\ \A x \in OnPath(k, c) : x.inner \in Reports => Relayed(k, x.inner)
    BY DEF ReportsInv, OrderOK
  <2>2. /\ Queue(k, c) \in Seq(T) /\ toClient[k] \in Seq(T) /\ outbox[k] \in Seq(T) /\ InHand(k) \in Seq(T)
        /\ Len(outbox[k]) <= 1
    <3>1. /\ Addressed({c}, Replies) \subseteq T /\ Addressed(DOMAIN inbox[k], Replies) \subseteq T
          /\ Addressed(DOMAIN inbox[k], Reports) \subseteq T
      BY MadeReplies DEF Addressed
    <3>2. /\ Queue(k, c) \in Seq(Addressed({c}, Replies))
          /\ toClient[k] \in Seq(Addressed(DOMAIN inbox[k], Replies))
          /\ outbox[k] \in Seq(Addressed(DOMAIN inbox[k], Replies)) /\ Len(outbox[k]) <= 1
          /\ InHand(k) \in Seq(Addressed(DOMAIN inbox[k], Reports))
      BY QueueKinds, ConnectionTypes, InHandTypes DEF ReportsInv
    <3> HIDE DEF T
    <3>3. QED
      BY <3>1, <3>2, SeqMonotonic
  <2> HIDE DEF T
  <2>3. Lined(Queue(k, c), toClient'[k], <<>>, InHand(k))
    BY <1>2, <2>1, <2>2, LinedFlush
  <2>4. Queue(k, c)' = Queue(k, c) /\ InHand(k)' = InHand(k)
        /\ \A report : Relayed(k, report)' <=> Relayed(k, report)
    BY <1>2 DEF Queue, Tagged, InHand, Relayed
  <2>5. OnPath(k, c)' \subseteq OnPath(k, c)
    <3>1. ToSet(toClient'[k]) \subseteq ToSet(toClient[k]) \cup ToSet(outbox[k]) /\ ToSet(outbox'[k]) = {}
      <4>1. ToSet(toClient[k] \o outbox[k]) = ToSet(toClient[k]) \cup ToSet(outbox[k])
        BY <2>2, ToSetConcat
      <4>2. ToSet(outbox'[k]) = {}
        BY <1>2, ToSetOne
      <4>3. QED
        BY <1>2, <4>1, <4>2
    <3>2. QED
      BY <2>4, <3>1 DEF OnPath
  <2>6. QED
    BY <1>2, <2>1, <2>3, <2>4, <2>5 DEF OrderOK
<1>4. QED
  BY <1>1, <1>2, <1>3, ReportsElsewhere DEF ReportsInv

\* The client takes a message from the wire.
LEMMA DeliverReports ==
  ASSUME ReportsInv, TypeOK', NEW k \in Clients, Deliver(k), ClientSide
  PROVE  ReportsInv'
<1> DEFINE m == Head(toClient[k])
           D == DOMAIN inbox[k]
<1>1. Elsewhere(k)
  BY WireElsewhere DEF ReportsInv
<1>2. /\ UNCHANGED <<log, sent, outbox, relay, work>>
      /\ toClient[k] # <<>> /\ toClient'[k] = Tail(toClient[k])
      /\ inbox'[k] = [d \in D |-> IF d = m.c_slot THEN Append(inbox[k][d], m.inner) ELSE inbox[k][d]]
  BY DEF Deliver, ClientSide, connectionVars, tasksVars, ReportsInv, TypeOK
<1>3. /\ m \in Addressed(D, Replies) /\ toClient[k] \in Seq(Addressed(D, Replies))
      /\ m.c_slot \in D /\ m.inner \in Replies /\ m = WireMessage(m.c_slot, m.inner)
  <2>1. m \in Addressed(D, Replies) /\ toClient[k] \in Seq(Addressed(D, Replies))
    BY <1>2, HeadTailProperties, ConnectionTypes DEF ReportsInv
  <2>2. QED
    BY <2>1, Letters DEF Letter
<1> HIDE DEF m
<1>4. ASSUME NEW c \in CSlots PROVE OrderOK(k, c)'
  <2> DEFINE T == Addressed(D \cup {c}, Replies)
             q == Queue(k, c)
             t == toClient[k]
  <2>1. /\ Lined(q, t, outbox[k], InHand(k))
        /\ \A x \in OnPath(k, c) : x.inner \in Reports => Relayed(k, x.inner)
    BY DEF ReportsInv, OrderOK
  <2>2. /\ q \in Seq(T) /\ t \in Seq(T) /\ m \in T
    <3>1. Addressed({c}, Replies) \subseteq T /\ Addressed(D, Replies) \subseteq T
      BY DEF Addressed
    <3>2. q \in Seq(Addressed({c}, Replies))
      BY QueueKinds DEF ReportsInv
    <3> HIDE DEF T, q
    <3>3. QED
      BY <1>3, <3>1, <3>2, SeqMonotonic
  <2>3. Queue(k, c)' = IF c = m.c_slot THEN Append(q, m) ELSE q
    <3>1. CASE c = m.c_slot
      BY <1>2, <1>3, <3>1, TaggedTypes, QueueTypes DEF Queue, Tagged, ReportsInv
    <3>2. CASE c # m.c_slot
      BY <1>2, <3>2 DEF Queue, Tagged
    <3>3. QED
      BY <3>1, <3>2
  <2>4. InHand(k)' = InHand(k) /\ \A report : Relayed(k, report)' <=> Relayed(k, report)
    BY <1>2 DEF InHand, Relayed
  <2> HIDE DEF T, q
  <2>5. Lined(Append(q, m), Tail(t), outbox[k], InHand(k)) /\ Lined(q, Tail(t), outbox[k], InHand(k))
    BY <1>2, <2>1, <2>2, LinedDeliver DEF m
  <2>6. OnPath(k, c)' \subseteq OnPath(k, c)
    <3>1. /\ ToSet(Append(q, m)) = ToSet(q) \cup {m}
          /\ m \in ToSet(t) /\ ToSet(Tail(t)) \subseteq ToSet(t)
      BY <1>2, <2>2, ToSetParts DEF m
    <3>2. QED
      BY <1>2, <2>3, <2>4, <3>1 DEF OnPath, q
  <2>7. QED
    BY <1>2, <2>1, <2>3, <2>4, <2>5, <2>6 DEF OrderOK
<1>5. QED
  BY <1>1, <1>2, <1>4, ReportsElsewhere DEF ReportsInv
\* A client gives itself a queue, pops one, or closes.
LEMMA ClientReports ==
  ASSUME ReportsInv, TypeOK', NEW k \in Clients, Elsewhere(k), ClientSide,
         toClient'[k] \in {toClient[k], <<>>},
         \/ inbox' = inbox
         \/ \E c \in CSlots : Allocate(k, c)
         \/ \E c \in DOMAIN inbox[k] : Pop(k, c)
  PROVE  ReportsInv'
<1>1. UNCHANGED <<log, sent, outbox, relay, work>>
  BY DEF ClientSide, connectionVars, tasksVars
<1>2. ASSUME NEW d \in CSlots
      PROVE  \/ Queue(k, d)' = Queue(k, d)
             \/ Queue(k, d) # <<>> /\ Queue(k, d)' = Tail(Queue(k, d))
  <2>1. CASE inbox' = inbox
    BY <2>1 DEF Queue, Tagged
  <2>2. ASSUME NEW c \in CSlots, Allocate(k, c) PROVE Queue(k, d)' = Queue(k, d)
    BY <2>2, AllocateTypes DEF Queue, Tagged, ReportsInv
  <2>3. ASSUME NEW c \in DOMAIN inbox[k], Pop(k, c)
        PROVE  \/ Queue(k, d)' = Queue(k, d)
               \/ Queue(k, d) # <<>> /\ Queue(k, d)' = Tail(Queue(k, d))
    <3>1. /\ inbox[k][c] # <<>> /\ inbox[k][c] \in Seq(Replies)
          /\ DOMAIN inbox'[k] = DOMAIN inbox[k]
          /\ \A e \in DOMAIN inbox[k] : inbox'[k][e] = IF e = c THEN Tail(inbox[k][c]) ELSE inbox[k][e]
      BY <2>3, QueueTypes, PopTypes DEF Pop, ReportsInv
    <3>2. CASE d = c
      <4>1. Queue(k, d) = Tagged(c, inbox[k][c]) /\ Queue(k, d)' = Tagged(c, Tail(inbox[k][c]))
        BY <3>1, <3>2 DEF Queue, Tagged
      <4>2. QED
        BY <3>1, <4>1, TaggedTypes
    <3>3. CASE d # c
      BY <3>1, <3>3 DEF Queue, Tagged
    <3>4. QED
      BY <3>2, <3>3
  <2>4. QED
    BY <2>1, <2>2, <2>3
<1>3. relay[k].next \in Nat
  BY ConnectionTypes DEF ReportsInv
<1>4. Fades(k)
  BY <1>1, <1>2, <1>3 DEF Fades, InHand
<1>5. QED
  BY <1>1, <1>4, FadesReports DEF ReportsInv

LEMMA WireReports ==
  ASSUME ReportsInv, TypeOK', NEW k \in Clients,
         \/ Connect(k)
         \/ Disconnect(k) /\ UNCHANGED <<tasksVars, connectionVars, clientVars>>
         \/ Deliver(k) /\ ClientSide
         \/ Write(k) /\ ClientSide
         \/ (\E c \in CSlots : DropCSlot(k, c)) /\ ClientSide
  PROVE  ReportsInv'
<1>1. Elsewhere(k)
  BY WireElsewhere DEF ReportsInv
<1>2. CASE Connect(k)
  <2>1. relay[k].next <= Len(log) /\ relay[k] \in RelayState(DOMAIN inbox[k])
    BY ConnectionTypes DEF ReportsInv
  <2>2. /\ UNCHANGED <<log, sent, inbox, toClient, outbox, work>> /\ InHand(k)' = InHand(k)
        /\ relay'[k].next = Len(log)
    BY <1>2, <2>1 DEF Connect, Open, AcceptConnection, RelayState, InHand, clientVars, tasksVars,
                      ReportsInv, TypeOK
  <2>3. Fades(k)
    BY <2>1, <2>2 DEF Fades, Queue, Tagged
  <2>4. QED
    BY <1>1, <2>2, <2>3, FadesReports DEF ReportsInv
<1>3. CASE \/ Disconnect(k) /\ UNCHANGED <<tasksVars, connectionVars, clientVars>>
           \/ Write(k) /\ ClientSide
           \/ (\E c \in CSlots : DropCSlot(k, c)) /\ ClientSide
  <2>1. ClientSide /\ inbox' = inbox /\ toClient'[k] \in {toClient[k], <<>>}
    BY <1>3 DEF Disconnect, Write, DropCSlot, ClientSide, clientVars, wireVars, ReportsInv, TypeOK
  <2>2. QED
    BY <1>1, <2>1, ClientReports
<1>4. QED
  BY <1>2, <1>3, DeliverReports

LEMMA UserStartsReports ==
  ASSUME ReportsInv, TypeOK', NEW k \in Clients, NEW u \in Users, UserStarts(u, k), ClientSide
  PROVE  ReportsInv'
<1>1. Elsewhere(k)
  BY UserElsewhere DEF ReportsInv
<1>2. /\ toClient' = toClient
      /\ \/ inbox' = inbox
         \/ \E c \in CSlots : Allocate(k, c)
         \/ \E c \in DOMAIN inbox[k] : Pop(k, c)
  <2>1. ASSUME NEW s \in Slots, TryReceive(u, k, s)
        PROVE  toClient' = toClient /\ \E c \in DOMAIN inbox[k] : Pop(k, c)
    BY <2>1, MappedTypes DEF TryReceive, wireVars, ReportsInv
  <2>2. QED
    BY <2>1 DEF UserStarts, Call, Subscribe, Refresh, Receive, Close, wireVars, othersVars
<1>3. QED
  BY <1>1, <1>2, ClientReports

LEMMA UserStepReports ==
  ASSUME ReportsInv, TypeOK', NEW u \in Users, UserStep(u), ClientSide
  PROVE  ReportsInv'
<1>1. user[u].pc # "idle"
  BY DEF UserStep, CallReturns, SubscribeReturns, LookUp, NotSubscribed, Received, CloseSend, ClosePanics,
         CloseAbort
<1>2. PICK k \in Clients : k = user[u].client
  BY <1>1, EngagedTypes DEF ReportsInv
<1>3. Elsewhere(k)
  BY <1>2, UserElsewhere DEF ReportsInv
<1>4. CASE CallReturns(u) \/ SubscribeReturns(u) \/ Received(u)
  <2>1. user[u].c_slot \in DOMAIN inbox[k]
    BY <1>2, <1>4, EngagedTypes DEF CallReturns, SubscribeReturns, Received, ReportsInv
  <2>2. Pop(k, user[u].c_slot) /\ toClient' = toClient
    BY <1>2, <1>4 DEF CallReturns, SubscribeReturns, Received, wireVars
  <2>3. QED
    BY <1>3, <2>1, <2>2, ClientReports
<1>5. CASE LookUp(u) \/ NotSubscribed(u) \/ ClosePanics(u)
  <2>1. inbox' = inbox /\ toClient' = toClient
    BY <1>5 DEF LookUp, NotSubscribed, ClosePanics, wireVars, othersVars
  <2>2. QED
    BY <1>3, <2>1, ClientReports
<1>6. ASSUME NEW c \in CSlots, CloseSend(u, c) PROVE ReportsInv'
  <2>1. (inbox' = inbox \/ Allocate(k, c)) /\ toClient' = toClient
    BY <1>2, <1>6 DEF CloseSend, wireVars
  <2>2. QED
    BY <1>3, <2>1, ClientReports
<1>7. CASE CloseAbort(u)
  <2>1. inbox' = inbox /\ toClient'[k] = <<>>
    BY <1>2, <1>7 DEF CloseAbort, ReportsInv, TypeOK
  <2>2. QED
    BY <1>3, <2>1, ClientReports
<1>8. QED
  BY <1>4, <1>5, <1>6, <1>7 DEF UserStep

\* Nothing happens, but that an RPC may report.
LEMMA LogReports ==
  ASSUME ReportsInv, TypeOK', LogGrows, LogInOrder', UNCHANGED <<wireVars, connectionVars, clientVars>>
  PROVE  ReportsInv'
<1>1. ASSUME NEW k \in Clients, NEW c \in CSlots PROVE OrderOK(k, c)'
  <2>1. Fades(k)
    <3>1. relay[k].next \in Nat
      BY ConnectionTypes DEF ReportsInv
    <3>2. QED
      BY <3>1 DEF Fades, Queue, Tagged, InHand, wireVars, connectionVars, clientVars
  <2>2. QED
    BY <2>1, FadesKeeps
<1>2. QED
  BY <1>1 DEF ReportsInv, connectionVars

LEMMA TaskStepReports ==
  ASSUME ReportsInv, TypeOK', NEW s \in Slots, TaskStep(s),
         UNCHANGED <<wireVars, connectionVars, clientVars>>
  PROVE  ReportsInv'
<1>1. CASE SendReport(s)
  <2> DEFINE m == [slot |-> s, n |-> sent[s] + 1]
  <2>1. /\ log \in Seq(Message) /\ m \in Message /\ Len(log) \in Nat
        /\ \A p \in 1 .. Len(log) : log[p] \in Message
        /\ sent \in [Slots -> Nat] /\ sent' = [sent EXCEPT ![s] = sent[s] + 1] /\ log' = Append(log, m)
    BY <1>1, LenProperties, ElementOfSeq DEF SendReport, ReportsInv, TypeOK, Message
  <2> HIDE DEF m
  <2>2. Len(log') = Len(log) + 1 /\ log'[Len(log) + 1] = m
        /\ \A p \in 1 .. Len(log) : log'[p] = log[p]
    BY <2>1, AppendProperties
  <2>3. m.slot = s /\ m.n = sent[s] + 1
    BY DEF m
  <2>4. LogInOrder
    BY DEF ReportsInv
  <2>5. ASSUME NEW p \in 1 .. Len(log') PROVE log'[p].n <= sent'[log'[p].slot]
    <3>1. CASE p \in 1 .. Len(log)
      <4>1. log[p].slot \in Slots /\ log[p].n \in Nat /\ log[p].n <= sent[log[p].slot]
        BY <2>1, <2>4, <3>1 DEF LogInOrder, Message
      <4>2. QED
        BY <2>1, <2>2, <3>1, <4>1
    <3>2. CASE p = Len(log) + 1
      BY <2>1, <2>2, <2>3, <3>2
    <3>3. QED
      BY <2>1, <2>2, <3>1, <3>2
  <2>6. ASSUME NEW p \in 1 .. Len(log'), NEW q \in 1 .. Len(log'), p < q, log'[p].slot = log'[q].slot
        PROVE  log'[p].n < log'[q].n
    <3>1. p \in 1 .. Len(log)
      BY <2>1, <2>2, <2>6
    <3>2. CASE q \in 1 .. Len(log)
      BY <2>2, <2>4, <2>6, <3>1, <3>2 DEF LogInOrder
    <3>3. CASE q = Len(log) + 1
      <4>1. log[p].slot = s /\ log[p].n \in Nat /\ log[p].n <= sent[s]
        BY <2>1, <2>2, <2>3, <2>4, <2>6, <3>1, <3>3 DEF LogInOrder, Message
      <4>2. QED
        BY <2>1, <2>2, <2>3, <3>1, <3>3, <4>1
    <3>4. QED
      BY <2>1, <2>2, <3>2, <3>3
  <2>7. LogGrows
    BY <2>1, <2>2 DEF LogGrows
  <2>8. LogInOrder'
    BY <2>5, <2>6 DEF LogInOrder
  <2>9. QED
    BY <2>7, <2>8, LogReports
<1>2. CASE UNCHANGED <<log, sent>>
  <2>1. LogGrows /\ LogInOrder'
    BY <1>2, SameLogGrows DEF ReportsInv, LogInOrder
  <2>2. QED
    BY <2>1, LogReports
<1>3. QED
  BY <1>1, <1>2 DEF TaskStep, ReportUpdate, ReportResult, Die, Record

----------------------------------------------------------------------------
LEMMA ReportsInitial == Init => ReportsInv
<1> SUFFICES ASSUME Init PROVE ReportsInv
  OBVIOUS
<1>1. TypeOK
  BY TypeInitial
<1>2. log = <<>> /\ \A k \in Clients : /\ inbox[k] = [c \in {} |-> <<>>] /\ toClient[k] = <<>>
                                       /\ outbox[k] = <<>> /\ work[k] = <<>> /\ relay[k].pc = "off"
  BY DEF Init, WireInit, ConnectionInit, TasksInit, ClientInit
<1>3. LogInOrder
  BY <1>2 DEF LogInOrder
<1>4. InOrder(<<>>) /\ ToSet(<<>>) = {}
  <2>1. <<>> \in Seq({}) /\ Len(<<>>) <= 1
    BY EmptySeq
  <2>2. QED
    BY <2>1, InOrderShort, ToSetOne
<1>5. ASSUME NEW k \in Clients, NEW c \in CSlots PROVE OrderOK(k, c)
  <2>1. Queue(k, c) = <<>> /\ InHand(k) = <<>>
    BY <1>2 DEF Queue, InHand
  <2>2. QED
    BY <1>2, <1>4, <2>1 DEF OrderOK, Lined, Ahead, OnPath
<1>6. QED
  BY <1>1, <1>2, <1>3, <1>4, <1>5 DEF ReportsInv

LEMMA ReportsStep == ReportsInv /\ [Next]_vars => ReportsInv'
<1> SUFFICES ASSUME ReportsInv, [Next]_vars PROVE ReportsInv'
  OBVIOUS
<1>1. TypeOK'
  BY TypeStep DEF ReportsInv
<1>2. ASSUME NEW k \in Clients, ConnectionStep(k), ServerSide PROVE ReportsInv'
  <2>1. ASSUME NEW i \in 1 .. Len(work[k]), WorkStep(k, i) PROVE ReportsInv'
    BY <1>1, <1>2, <2>1, TaskReports, ReplyReports
  <2>2. QED
    BY <1>1, <1>2, <2>1, TaskReports, RelayReceiveReports, RelaySendReports, RelayLagReports,
       FlushReports DEF ConnectionStep, RelayStep
<1>3. CASE UNCHANGED vars
  <2>1. LogGrows /\ LogInOrder'
    BY <1>3, SameLogGrows DEF vars, tasksVars, ReportsInv, LogInOrder
  <2>2. QED
    BY <1>1, <1>3, <2>1, LogReports DEF vars
<1>4. QED
  BY <1>1, <1>2, <1>3, WireReports, UserStartsReports, UserStepReports, TaskStepReports DEF Next

\* What comes to one queue is about one RPC, so its reports are in order.
LEMMA ReportsRelayed == QueuesInv /\ ReportsInv => RelayedInOrder
<1> SUFFICES ASSUME QueuesInv, ReportsInv, NEW k \in Clients, NEW c \in DOMAIN inbox[k],
                    NEW i \in Of(c, Path(k, c)), NEW j \in Of(c, Path(k, c)), i < j,
                    Path(k, c)[i].inner.kind = "RpcRslt", ~Path(k, c)[i].inner.asked,
                    Path(k, c)[j].inner.kind = "RpcRslt", ~Path(k, c)[j].inner.asked
             PROVE  Path(k, c)[i].inner.n < Path(k, c)[j].inner.n
  BY DEF RelayedInOrder
<1> DEFINE T == Addressed(DOMAIN inbox[k], Replies)
           q == Queue(k, c)
<1>1. /\ TypeOK /\ c \in CSlots /\ Len(outbox[k]) <= 1
      /\ i \in 1 .. Len(Path(k, c)) /\ j \in 1 .. Len(Path(k, c))
  BY QueueTypes, ConnectionTypes DEF QueuesInv, Of
<1>2. /\ Path(k, c) = ((q \o toClient[k]) \o outbox[k]) \o InHand(k) /\ Path(k, c) \in Seq(T)
      /\ q \in Seq(T) /\ toClient[k] \in Seq(T) /\ outbox[k] \in Seq(T) /\ InHand(k) \in Seq(T)
  BY <1>1, PathTypes DEF Path
<1>3. Lined(q, toClient[k], outbox[k], InHand(k))
  BY <1>1 DEF ReportsInv, OrderOK
<1>4. ASSUME NEW m \in T, m.inner.kind = "RpcRslt", ~m.inner.asked PROVE m.inner \in Reports
  <2>1. m.inner \in Replies
    BY DEF Addressed
  <2>2. m.inner \in [kind : {"RpcRslt"}, slot : Slots, n : Nat, asked : BOOLEAN]
    BY <1>4, <2>1 DEF Replies, RpcReqRslt, Error, SubOpFin
  <2>3. m.inner.asked = FALSE
    BY <1>4, <2>2
  <2>4. QED
    BY <2>2, <2>3 DEF Reports
<1> HIDE DEF T, q
<1>5. InOrder(Path(k, c))
  <2>1. InOrder(outbox[k]) /\ InOrder(InHand(k))
    <3>1. Len(InHand(k)) <= 1
      BY DEF InHand
    <3>2. QED
      BY <1>1, <1>2, <3>1, InOrderShort
  <2> DEFINE a == q \o toClient[k]
             b == a \o outbox[k]
  <2>2. a \in Seq(T) /\ InOrder(a) /\ ToSet(a) = ToSet(q) \cup ToSet(toClient[k])
    BY <1>2, <1>3, ConcatProperties, InOrderConcat, ToSetConcat DEF Lined
  <2> HIDE DEF a
  <2>3. b \in Seq(T) /\ InOrder(b) /\ ToSet(b) = ToSet(a) \cup ToSet(outbox[k])
    <3>1. Ahead(ToSet(a), ToSet(outbox[k]))
      BY <1>3, <2>2 DEF Lined
    <3>2. b \in Seq(T) /\ ToSet(b) = ToSet(a) \cup ToSet(outbox[k])
      BY <1>2, <2>2, ConcatProperties, ToSetConcat
    <3>3. InOrder(b)
      BY <1>2, <2>1, <2>2, <3>1, InOrderConcat
    <3>4. QED
      BY <3>2, <3>3
  <2> HIDE DEF b
  <2>4. Ahead(ToSet(b), ToSet(InHand(k)))
    BY <1>3, <2>2, <2>3 DEF Lined
  <2>5. InOrder(b \o InHand(k))
    BY <1>2, <2>1, <2>3, <2>4, InOrderConcat
  <2>6. QED
    BY <1>2, <2>5 DEF a, b
<1> DEFINE x == Path(k, c)[i]
           y == Path(k, c)[j]
<1>6. x.inner.slot \in Mentioned(c, Path(k, c)) /\ y.inner.slot \in Mentioned(c, Path(k, c))
  BY DEF Mentioned
<1>7. x.inner.slot = y.inner.slot
  BY <1>1, <1>6, MentionedNames DEF QueuesInv, QueueOK, OneName
<1>8. x.inner \in Reports /\ y.inner \in Reports
  BY <1>1, <1>2, <1>4, ElementOfSeq
<1>9. QED
  BY <1>1, <1>5, <1>7, <1>8 DEF InOrder, Before

\* The reports that the relay sends reach a queue in the order of the bus, each once,
\* however replies and refreshes come between them.
THEOREM ReportsInOrder == Spec => []RelayedInOrder
  BY QueuesInitial, QueuesStep, ReportsInitial, ReportsStep, ReportsRelayed, PTL DEF Spec
=============================================================================
