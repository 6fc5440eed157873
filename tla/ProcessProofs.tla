---------------------------- MODULE ProcessProofs ----------------------------
(***************************************************************************)
(* Proofs about the process from start to end.                             *)
(*                                                                         *)
(* All its orders are one order.  What main closes and what the            *)
(* constructor that runs keeps are, one after the other, a prefix of the   *)
(* order in which the resources are ranked here; and what is open is what  *)
(* that prefix holds, except for a few calls of the start.                 *)
(***************************************************************************)
EXTENDS Process, SequenceTheorems, TLAPS

Rank(r) ==
    CASE r = "metrics" -> 1
      [] r = "traces" -> 2
      [] r = "mongo" -> 3
      [] r = "connection" -> 4
      [] r = "cleaning" -> 5
      [] r = "guestCommunication" -> 6
      [] r = "dayChange" -> 7
      [] r = "hourChange" -> 8
      [] r = "redis" -> 9
      [] r = "clock" -> 10

UpTo(n) == {r \in Resource : Rank(r) <= n}

LEMMA Ranked ==
    /\ \A r \in Resource : Rank(r) \in 1..10
    /\ \A r, q \in Resource : Rank(r) = Rank(q) => r = q
    /\ UpTo(0) = {} /\ UpTo(10) = Resource
    /\ UpTo(2) = Telemetry /\ UpTo(1) \subseteq Telemetry
    /\ \A r \in Channel : Rank(r) \in 5..8
    /\ \A r \in Resource : Rank(r) \in 5..8 => r \in Channel
    /\ Rank("connection") = 4 /\ Rank("redis") = 9
    /\ \A r \in Dependency : Rank(r) <= 9
  <1>1. /\ \A r \in Resource : Rank(r) \in 1..10
        /\ \A r, q \in Resource : Rank(r) = Rank(q) => r = q
        /\ \A r \in Channel : Rank(r) \in 5..8
        /\ \A r \in Resource : Rank(r) \in 5..8 => r \in Channel
        /\ Rank("connection") = 4 /\ Rank("redis") = 9
        /\ \A r \in Dependency : Rank(r) <= 9
        /\ \A r \in Resource : (Rank(r) <= 2) <=> r \in Telemetry
    <2>1. \A r \in Resource : \/ r = "metrics" /\ Rank(r) = 1
                              \/ r = "traces" /\ Rank(r) = 2
                              \/ r = "mongo" /\ Rank(r) = 3
                              \/ r = "connection" /\ Rank(r) = 4
                              \/ r = "cleaning" /\ Rank(r) = 5
                              \/ r = "guestCommunication" /\ Rank(r) = 6
                              \/ r = "dayChange" /\ Rank(r) = 7
                              \/ r = "hourChange" /\ Rank(r) = 8
                              \/ r = "redis" /\ Rank(r) = 9
                              \/ r = "clock" /\ Rank(r) = 10
      BY DEF Rank, Resource, Telemetry, Dependency, Channel
    <2> QED
      BY <2>1 DEF Telemetry, Channel, Resource, Dependency
  <1>2. UpTo(0) = {} /\ UpTo(10) = Resource
    BY <1>1 DEF UpTo
  <1>3. UpTo(2) = Telemetry /\ UpTo(1) \subseteq Telemetry
    BY <1>1 DEF UpTo, Resource
  <1> QED
    BY <1>1, <1>2, <1>3

-----------------------------------------------------------------------------
(***************************************************************************)
(* The calls of the start, one by one.                                     *)
(***************************************************************************)
\* A concatenation is its two parts one after the other.
LEMMA Joined ==
    ASSUME NEW S, NEW s \in Seq(S), NEW t \in Seq(S), NEW u \in Seq(S),
           Len(u) = Len(s) + Len(t),
           \A i \in 1..Len(s) : u[i] = s[i],
           \A i \in 1..Len(t) : u[Len(s) + i] = t[i]
    PROVE  s \o t = u
  <1>1. Len(s) \in Nat /\ Len(t) \in Nat
    OBVIOUS
  <1>2. /\ s \o t \in Seq(S) /\ Len(s \o t) = Len(s) + Len(t)
        /\ \A i \in 1..(Len(s) + Len(t)) :
              (s \o t)[i] = IF i <= Len(s) THEN s[i] ELSE t[i - Len(s)]
    BY ConcatProperties
  <1>3. ASSUME NEW i \in 1..Len(u) PROVE (s \o t)[i] = u[i]
    <2>1. CASE i <= Len(s)
      BY <1>1, <1>2, <2>1
    <2>2. CASE i > Len(s)
      <3>1. i - Len(s) \in 1..Len(t) /\ Len(s) + (i - Len(s)) = i
        BY <1>1, <2>2
      <3> QED
        BY <1>1, <1>2, <2>2, <3>1
    <2> QED
      BY <1>1, <2>1, <2>2
  <1> QED
    BY <1>2, <1>3, SeqEqual

\* What each call of the start opens and has its constructor keep, and which ones return.
LEMMA StartupCalls ==
    Startup = <<Return({}, <<>>),
                Call({"traces"}, <<>>), Call({"metrics"}, <<>>),
                Return({}, <<"metrics", "traces">>),
                Call({"mongo"}, <<"mongo">>), Return({}, <<>>),
                Call({"connection"}, <<"connection">>),
                Call({"cleaning"}, <<>>), Call({}, <<"cleaning">>),
                Call({"guestCommunication"}, <<>>), Call({}, <<"guestCommunication">>),
                Call({"dayChange"}, <<"dayChange">>), Call({"hourChange"}, <<"hourChange">>),
                Call({}, <<>>), Call({}, <<>>), Call({}, <<>>), Return({}, <<>>),
                Call({"redis"}, <<"redis">>), Return({}, <<>>),
                Return({"clock"}, <<"clock">>),
                Return({}, <<>>)>>
  <1> DEFINE nothing == Call({}, <<>>)
             return == Return({}, <<>>)
             traces == Call({"traces"}, <<>>)
             metrics == Call({"metrics"}, <<>>)
             telemetry == Return({}, <<"metrics", "traces">>)
             mongo == Call({"mongo"}, <<"mongo">>)
             connect == Call({"connection"}, <<"connection">>)
             cleaning == Call({"cleaning"}, <<>>)
             keepCleaning == Call({}, <<"cleaning">>)
             guest == Call({"guestCommunication"}, <<>>)
             keepGuest == Call({}, <<"guestCommunication">>)
             dayChange == Call({"dayChange"}, <<"dayChange">>)
             hourChange == Call({"hourChange"}, <<"hourChange">>)
             redis == Call({"redis"}, <<"redis">>)
             clock == Return({"clock"}, <<"clock">>)
             calls == {nothing, return, traces, metrics, telemetry, mongo, connect, cleaning,
                        keepCleaning, guest, keepGuest, dayChange, hourChange, redis,
                        clock}
             r1 == <<connect>>
             r2 == <<connect, cleaning, keepCleaning>>
             r3 == <<connect, cleaning, keepCleaning, guest, keepGuest>>
             r4 == <<connect, cleaning, keepCleaning, guest, keepGuest, dayChange>>
             r5 == <<connect, cleaning, keepCleaning, guest, keepGuest, dayChange,
                     hourChange>>
             r6 == <<connect, cleaning, keepCleaning, guest, keepGuest, dayChange,
                     hourChange, nothing, nothing>>
             r7 == <<connect, cleaning, keepCleaning, guest, keepGuest, dayChange,
                     hourChange, nothing, nothing, nothing, return>>
             s1 == <<return>>
             s2 == <<return, traces, metrics, telemetry>>
             s3 == <<return, traces, metrics, telemetry, mongo, return>>
             s4 == <<return, traces, metrics, telemetry, mongo, return, connect, cleaning,
                     keepCleaning, guest, keepGuest, dayChange, hourChange, nothing,
                     nothing, nothing, return>>
             s5 == <<return, traces, metrics, telemetry, mongo, return, connect, cleaning,
                     keepCleaning, guest, keepGuest, dayChange, hourChange, nothing,
                     nothing, nothing, return, redis, return>>
             s6 == <<return, traces, metrics, telemetry, mongo, return, connect, cleaning,
                     keepCleaning, guest, keepGuest, dayChange, hourChange, nothing,
                     nothing, nothing, return, redis, return, clock>>
             s7 == <<return, traces, metrics, telemetry, mongo, return, connect, cleaning,
                     keepCleaning, guest, keepGuest, dayChange, hourChange, nothing,
                     nothing, nothing, return, redis, return, clock, return>>
  <1>1. NewRabbitmq =
           r1 \o <<cleaning, keepCleaning>> \o <<guest, keepGuest>>
              \o <<dayChange>> \o <<hourChange>> \o <<nothing, nothing>> \o <<nothing, return>>
    BY DEF NewRabbitmq, Publisher, Consumer, DeclareAndBind
  <1>2. Startup = s1 \o <<traces, metrics, telemetry>> \o <<mongo, return>>
                     \o NewRabbitmq \o <<redis, return>> \o <<clock>> \o <<return>>
    BY DEF Startup, LoadConfigs, TelemetryInit, NewMongoDb, NewRedisClient, NewClockEmu,
           NewServices
  <1> HIDE DEF nothing, return, traces, metrics, telemetry,
               mongo, connect, cleaning, keepCleaning, guest, keepGuest,
               dayChange, hourChange, redis, clock
  <1>3. r1 \o <<cleaning, keepCleaning>> = r2
    <2> DEFINE t == <<cleaning, keepCleaning>>
    <2>1. /\ r1 \in Seq(calls) /\ t \in Seq(calls) /\ r2 \in Seq(calls)
          /\ Len(r2) = Len(r1) + Len(t)
          /\ \A i \in 1..Len(r1) : r2[i] = r1[i]
          /\ \A i \in 1..Len(t) : r2[Len(r1) + i] = t[i]
      OBVIOUS
    <2> HIDE DEF calls, r1, r2, t
    <2>2. r1 \o t = r2
      BY <2>1, Joined
    <2> QED
      BY <2>2 DEF t
  <1>4. r2 \o <<guest, keepGuest>> = r3
    <2> DEFINE t == <<guest, keepGuest>>
    <2>1. /\ r2 \in Seq(calls) /\ t \in Seq(calls) /\ r3 \in Seq(calls)
          /\ Len(r3) = Len(r2) + Len(t)
          /\ \A i \in 1..Len(r2) : r3[i] = r2[i]
          /\ \A i \in 1..Len(t) : r3[Len(r2) + i] = t[i]
      OBVIOUS
    <2> HIDE DEF calls, r2, r3, t
    <2>2. r2 \o t = r3
      BY <2>1, Joined
    <2> QED
      BY <2>2 DEF t
  <1>5. r3 \o <<dayChange>> = r4
    <2> DEFINE t == <<dayChange>>
    <2>1. /\ r3 \in Seq(calls) /\ t \in Seq(calls) /\ r4 \in Seq(calls)
          /\ Len(r4) = Len(r3) + Len(t)
          /\ \A i \in 1..Len(r3) : r4[i] = r3[i]
          /\ \A i \in 1..Len(t) : r4[Len(r3) + i] = t[i]
      OBVIOUS
    <2> HIDE DEF calls, r3, r4, t
    <2>2. r3 \o t = r4
      BY <2>1, Joined
    <2> QED
      BY <2>2 DEF t
  <1>6. r4 \o <<hourChange>> = r5
    <2> DEFINE t == <<hourChange>>
    <2>1. /\ r4 \in Seq(calls) /\ t \in Seq(calls) /\ r5 \in Seq(calls)
          /\ Len(r5) = Len(r4) + Len(t)
          /\ \A i \in 1..Len(r4) : r5[i] = r4[i]
          /\ \A i \in 1..Len(t) : r5[Len(r4) + i] = t[i]
      OBVIOUS
    <2> HIDE DEF calls, r4, r5, t
    <2>2. r4 \o t = r5
      BY <2>1, Joined
    <2> QED
      BY <2>2 DEF t
  <1>7. r5 \o <<nothing, nothing>> = r6
    <2> DEFINE t == <<nothing, nothing>>
    <2>1. /\ r5 \in Seq(calls) /\ t \in Seq(calls) /\ r6 \in Seq(calls)
          /\ Len(r6) = Len(r5) + Len(t)
          /\ \A i \in 1..Len(r5) : r6[i] = r5[i]
          /\ \A i \in 1..Len(t) : r6[Len(r5) + i] = t[i]
      OBVIOUS
    <2> HIDE DEF calls, r5, r6, t
    <2>2. r5 \o t = r6
      BY <2>1, Joined
    <2> QED
      BY <2>2 DEF t
  <1>8. r6 \o <<nothing, return>> = r7
    <2> DEFINE t == <<nothing, return>>
    <2>1. /\ r6 \in Seq(calls) /\ t \in Seq(calls) /\ r7 \in Seq(calls)
          /\ Len(r7) = Len(r6) + Len(t)
          /\ \A i \in 1..Len(r6) : r7[i] = r6[i]
          /\ \A i \in 1..Len(t) : r7[Len(r6) + i] = t[i]
      OBVIOUS
    <2> HIDE DEF calls, r6, r7, t
    <2>2. r6 \o t = r7
      BY <2>1, Joined
    <2> QED
      BY <2>2 DEF t
  <1>9. s1 \o <<traces, metrics, telemetry>> = s2
    <2> DEFINE t == <<traces, metrics, telemetry>>
    <2>1. /\ s1 \in Seq(calls) /\ t \in Seq(calls) /\ s2 \in Seq(calls)
          /\ Len(s2) = Len(s1) + Len(t)
          /\ \A i \in 1..Len(s1) : s2[i] = s1[i]
          /\ \A i \in 1..Len(t) : s2[Len(s1) + i] = t[i]
      OBVIOUS
    <2> HIDE DEF calls, s1, s2, t
    <2>2. s1 \o t = s2
      BY <2>1, Joined
    <2> QED
      BY <2>2 DEF t
  <1>10. s2 \o <<mongo, return>> = s3
    <2> DEFINE t == <<mongo, return>>
    <2>1. /\ s2 \in Seq(calls) /\ t \in Seq(calls) /\ s3 \in Seq(calls)
          /\ Len(s3) = Len(s2) + Len(t)
          /\ \A i \in 1..Len(s2) : s3[i] = s2[i]
          /\ \A i \in 1..Len(t) : s3[Len(s2) + i] = t[i]
      OBVIOUS
    <2> HIDE DEF calls, s2, s3, t
    <2>2. s2 \o t = s3
      BY <2>1, Joined
    <2> QED
      BY <2>2 DEF t
  <1>11. s3 \o r7 = s4
    <2> DEFINE t == r7
    <2>1. /\ s3 \in Seq(calls) /\ t \in Seq(calls) /\ s4 \in Seq(calls)
          /\ Len(s4) = Len(s3) + Len(t)
          /\ \A i \in 1..Len(s3) : s4[i] = s3[i]
          /\ \A i \in 1..Len(t) : s4[Len(s3) + i] = t[i]
      OBVIOUS
    <2> HIDE DEF calls, s3, s4, t
    <2>2. s3 \o t = s4
      BY <2>1, Joined
    <2> QED
      BY <2>2 DEF t
  <1>12. s4 \o <<redis, return>> = s5
    <2> DEFINE t == <<redis, return>>
    <2>1. /\ s4 \in Seq(calls) /\ t \in Seq(calls) /\ s5 \in Seq(calls)
          /\ Len(s5) = Len(s4) + Len(t)
          /\ \A i \in 1..Len(s4) : s5[i] = s4[i]
          /\ \A i \in 1..Len(t) : s5[Len(s4) + i] = t[i]
      OBVIOUS
    <2> HIDE DEF calls, s4, s5, t
    <2>2. s4 \o t = s5
      BY <2>1, Joined
    <2> QED
      BY <2>2 DEF t
  <1>13. s5 \o <<clock>> = s6
    <2> DEFINE t == <<clock>>
    <2>1. /\ s5 \in Seq(calls) /\ t \in Seq(calls) /\ s6 \in Seq(calls)
          /\ Len(s6) = Len(s5) + Len(t)
          /\ \A i \in 1..Len(s5) : s6[i] = s5[i]
          /\ \A i \in 1..Len(t) : s6[Len(s5) + i] = t[i]
      OBVIOUS
    <2> HIDE DEF calls, s5, s6, t
    <2>2. s5 \o t = s6
      BY <2>1, Joined
    <2> QED
      BY <2>2 DEF t
  <1>14. s6 \o <<return>> = s7
    <2> DEFINE t == <<return>>
    <2>1. /\ s6 \in Seq(calls) /\ t \in Seq(calls) /\ s7 \in Seq(calls)
          /\ Len(s7) = Len(s6) + Len(t)
          /\ \A i \in 1..Len(s6) : s7[i] = s6[i]
          /\ \A i \in 1..Len(t) : s7[Len(s6) + i] = t[i]
      OBVIOUS
    <2> HIDE DEF calls, s6, s7, t
    <2>2. s6 \o t = s7
      BY <2>1, Joined
    <2> QED
      BY <2>2 DEF t
  <1> HIDE DEF r2, r3, r4, r5, r6, r7, s2, s3, s4, s5, s6, s7
  <1>15. NewRabbitmq = r7
    BY <1>1, <1>3, <1>4, <1>5, <1>6, <1>7, <1>8
  <1>16. Startup = s7
    BY <1>2, <1>15, <1>9, <1>10, <1>11, <1>12, <1>13, <1>14
  <1> QED
    BY <1>16 DEF s7, nothing, return, traces, metrics, telemetry,
                 mongo, connect, cleaning, keepCleaning, guest, keepGuest,
                 dayChange, hourChange, redis, clock

-----------------------------------------------------------------------------
(***************************************************************************)
(* The start, in numbers: before call n, Kept[n] resources are kept, the   *)
(* first Returned[n] of them by main, and Loose(n) is open and kept by     *)
(* nobody yet.                                                             *)
(***************************************************************************)
Kept ==
    <<0, 0, 0, 0, 2, 3, 3, 4, 4, 5, 5, 6, 7, 8, 8, 8, 8, 8, 9, 9, 10, 10>>
Returned ==
    <<0, 0, 0, 0, 2, 2, 3, 3, 3, 3, 3, 3, 3, 3, 3, 3, 3, 8, 8, 9, 10, 10>>
Loose(n) ==
    CASE n = 3 -> {"traces"}
      [] n = 4 -> Telemetry
      [] n = 9 -> {"cleaning"}
      [] n = 11 -> {"guestCommunication"}
      [] OTHER -> {}

LEMMA OneRankUp ==
    ASSUME NEW k \in 0..9, NEW r \in Resource, Rank(r) = k + 1
    PROVE  UpTo(k + 1) = UpTo(k) \cup {r}
  <1>1. \A q \in Resource : Rank(q) \in Nat /\ (Rank(q) = k + 1 => q = r)
    BY Ranked
  <1>2. \A q \in Resource : (Rank(q) <= k + 1) <=> (Rank(q) <= k \/ q = r)
    BY <1>1
  <1> QED
    BY <1>2 DEF UpTo

\* A call opens and keeps the next resources in the order of their ranks, or something
\* that is kept soon.
Effect(n, call) ==
    /\ call.keeps \in Seq(Resource) /\ call.returns \in BOOLEAN
    /\ Kept[n + 1] = Kept[n] + Len(call.keeps)
    /\ \A i \in 1..Len(call.keeps) : Rank(call.keeps[i]) = Kept[n] + i
    /\ Returned[n + 1] = IF call.returns THEN Kept[n + 1] ELSE Returned[n]
    /\ UpTo(Kept[n + 1]) \cup Loose(n + 1) = UpTo(Kept[n]) \cup Loose(n) \cup call.opens

LEMMA KeepsNone ==
    ASSUME NEW n \in 1..21, NEW call,
           call.keeps = <<>>, call.returns \in BOOLEAN,
           Kept[n] \in 0..10, Kept[n + 1] = Kept[n],
           Returned[n + 1] = IF call.returns THEN Kept[n + 1] ELSE Returned[n],
           Loose(n + 1) = Loose(n) \cup call.opens
    PROVE  Effect(n, call)
  <1>1. call.keeps \in Seq(Resource) /\ Len(call.keeps) = 0
    OBVIOUS
  <1>2. UpTo(Kept[n + 1]) \cup Loose(n + 1) = UpTo(Kept[n]) \cup Loose(n) \cup call.opens
    OBVIOUS
  <1>3. Kept[n + 1] = Kept[n] + Len(call.keeps)
    BY <1>1
  <1>4. \A i \in 1..Len(call.keeps) : Rank(call.keeps[i]) = Kept[n] + i
    BY <1>1
  <1> QED
    BY <1>1, <1>2, <1>3, <1>4 DEF Effect

LEMMA KeepsOne ==
    ASSUME NEW n \in 1..21, NEW call, NEW r \in Resource,
           call.keeps = <<r>>, call.returns \in BOOLEAN,
           Kept[n] \in 0..9, Rank(r) = Kept[n] + 1, Kept[n + 1] = Kept[n] + 1,
           Returned[n + 1] = IF call.returns THEN Kept[n + 1] ELSE Returned[n],
           Loose(n) \cup call.opens = {r}, Loose(n + 1) = {}
    PROVE  Effect(n, call)
  <1>1. UpTo(Kept[n + 1]) = UpTo(Kept[n]) \cup {r}
    BY OneRankUp
  <1>2. call.keeps \in Seq(Resource) /\ Len(call.keeps) = 1 /\ call.keeps[1] = r
    OBVIOUS
  <1> QED
    BY <1>1, <1>2 DEF Effect

LEMMA CallEffect == \A n \in 1..21 : Effect(n, Startup[n])
  <1> SUFFICES ASSUME NEW n \in 1..21, NEW call, call = Startup[n] PROVE Effect(n, call)
    OBVIOUS
  <1>1. Kept[n] \in 0..10
    BY DEF Kept
  <1>2. CASE n \in {1, 6, 17, 19, 21}
    <2>1. call = Return({}, <<>>)
      BY <1>2, StartupCalls
    <2>2. Kept[n + 1] = Kept[n] /\ Returned[n + 1] = Kept[n + 1]
      BY <1>2 DEF Kept, Returned
    <2>3. Loose(n) = {} /\ Loose(n + 1) = {}
      BY <1>2 DEF Loose
    <2>4. call.keeps = <<>> /\ call.returns = TRUE /\ call.opens = {}
      BY <2>1 DEF Return
    <2>5. /\ call.returns \in BOOLEAN
          /\ Returned[n + 1] = IF call.returns THEN Kept[n + 1] ELSE Returned[n]
          /\ Loose(n + 1) = Loose(n) \cup call.opens
          /\ Kept[n] \in 0..10
      BY <1>1, <2>2, <2>3, <2>4
    <2> QED
      BY ONLY n \in 1..21, <2>2, <2>4, <2>5, KeepsNone
  <1>3. CASE n \in {2, 3, 8, 10, 14, 15, 16}
    <2>1. \E opens : call = Call(opens, <<>>) /\ Loose(n + 1) = Loose(n) \cup opens
      <3>1. CASE n = 2
        <4>1. call = Call({"traces"}, <<>>)
          BY <3>1, StartupCalls
        <4>2. Loose(n + 1) = Loose(n) \cup {"traces"}
          BY <3>1 DEF Loose
        <4> QED
          BY <4>1, <4>2
      <3>2. CASE n = 3
        <4>1. call = Call({"metrics"}, <<>>)
          BY <3>2, StartupCalls
        <4>2. Loose(n + 1) = Loose(n) \cup {"metrics"}
          BY <3>2 DEF Loose, Telemetry
        <4> QED
          BY <4>1, <4>2
      <3>3. CASE n = 8
        <4>1. call = Call({"cleaning"}, <<>>)
          BY <3>3, StartupCalls
        <4>2. Loose(n + 1) = Loose(n) \cup {"cleaning"}
          BY <3>3 DEF Loose
        <4> QED
          BY <4>1, <4>2
      <3>4. CASE n = 10
        <4>1. call = Call({"guestCommunication"}, <<>>)
          BY <3>4, StartupCalls
        <4>2. Loose(n + 1) = Loose(n) \cup {"guestCommunication"}
          BY <3>4 DEF Loose
        <4> QED
          BY <4>1, <4>2
      <3>5. CASE n \in {14, 15, 16}
        <4>1. call = Call({}, <<>>)
          BY <3>5, StartupCalls
        <4>2. Loose(n + 1) = Loose(n) \cup {}
          BY <3>5 DEF Loose
        <4> QED
          BY <4>1, <4>2
      <3> QED
        BY <1>3, <3>1, <3>2, <3>3, <3>4, <3>5
    <2>2. Kept[n + 1] = Kept[n] /\ Returned[n + 1] = Returned[n]
      BY <1>3 DEF Kept, Returned
    <2>3. PICK opens : call = Call(opens, <<>>) /\ Loose(n + 1) = Loose(n) \cup opens
      BY <2>1
    <2>4. call.keeps = <<>> /\ call.returns = FALSE /\ call.opens = opens
      BY <2>3 DEF Call
    <2>5. /\ call.returns \in BOOLEAN
          /\ Returned[n + 1] = IF call.returns THEN Kept[n + 1] ELSE Returned[n]
          /\ Loose(n + 1) = Loose(n) \cup call.opens
          /\ Kept[n] \in 0..10
      BY <1>1, <2>2, <2>3, <2>4
    <2> QED
      BY ONLY n \in 1..21, <2>2, <2>4, <2>5, KeepsNone
  <1>4. CASE n = 4
    <2>1. call = Return({}, <<"metrics", "traces">>)
      BY <1>4, StartupCalls
    <2>2. Kept[n] = 0 /\ Kept[n + 1] = 2 /\ Returned[n + 1] = 2
      BY <1>4 DEF Kept, Returned
    <2>3. Loose(n) = Telemetry /\ Loose(n + 1) = {}
      BY <1>4 DEF Loose
    <2>4. /\ call.keeps \in Seq(Resource) /\ Len(call.keeps) = 2
          /\ call.keeps[1] = "metrics" /\ call.keeps[2] = "traces"
          /\ call.returns = TRUE /\ call.opens = {}
      BY <2>1 DEF Return, Resource, Telemetry
    <2>5. Rank("metrics") = 1 /\ Rank("traces") = 2
      BY DEF Rank
    <2>6. UpTo(Kept[n + 1]) \cup Loose(n + 1) = UpTo(Kept[n]) \cup Loose(n) \cup call.opens
      BY <2>2, <2>3, <2>4, Ranked
    <2>7. \A i \in 1..Len(call.keeps) : Rank(call.keeps[i]) = Kept[n] + i
      BY <2>2, <2>4, <2>5
    <2>8. /\ call.returns \in BOOLEAN
          /\ Returned[n + 1] = IF call.returns THEN Kept[n + 1] ELSE Returned[n]
      BY ONLY <2>2, <2>4
    <2>9. Kept[n + 1] = Kept[n] + Len(call.keeps)
      BY ONLY <2>2, <2>4
    <2> QED
      BY ONLY <2>4, <2>6, <2>7, <2>8, <2>9 DEF Effect
  <1>5. CASE n \in {5, 7, 9, 11, 12, 13, 18, 20}
    <2> DEFINE Opens(r, opens) ==
          /\ call = IF n = 20 THEN Return(opens, <<r>>) ELSE Call(opens, <<r>>)
          /\ r \in Resource /\ Rank(r) = Kept[n] + 1
          /\ Loose(n) \cup opens = {r}
    <2>1. \E r, opens : Opens(r, opens)
      <3>1. CASE n = 5
        <4>1. call = Call({"mongo"}, <<"mongo">>)
          BY <3>1, StartupCalls
        <4>2. Loose(n) = {} /\ Kept[n] = 2 /\ Rank("mongo") = 3 /\ "mongo" \in Resource
          BY <3>1 DEF Loose, Kept, Rank, Resource, Dependency
        <4> QED
          BY <3>1, <4>1, <4>2
      <3>2. CASE n = 7
        <4>1. call = Call({"connection"}, <<"connection">>)
          BY <3>2, StartupCalls
        <4>2. Loose(n) = {} /\ Kept[n] = 3 /\ Rank("connection") = 4 /\ "connection" \in Resource
          BY <3>2 DEF Loose, Kept, Rank, Resource, Dependency
        <4> QED
          BY <3>2, <4>1, <4>2
      <3>3. CASE n = 9
        <4>1. call = Call({}, <<"cleaning">>)
          BY <3>3, StartupCalls
        <4>2. Loose(n) = {"cleaning"} /\ Kept[n] = 4 /\ Rank("cleaning") = 5
              /\ "cleaning" \in Resource
          BY <3>3 DEF Loose, Kept, Rank, Resource, Channel
        <4> QED
          BY <3>3, <4>1, <4>2
      <3>4. CASE n = 11
        <4>1. call = Call({}, <<"guestCommunication">>)
          BY <3>4, StartupCalls
        <4>2. Loose(n) = {"guestCommunication"} /\ Kept[n] = 5
              /\ Rank("guestCommunication") = 6 /\ "guestCommunication" \in Resource
          BY <3>4 DEF Loose, Kept, Rank, Resource, Channel
        <4> QED
          BY <3>4, <4>1, <4>2
      <3>5. CASE n = 12
        <4>1. call = Call({"dayChange"}, <<"dayChange">>)
          BY <3>5, StartupCalls
        <4>2. Loose(n) = {} /\ Kept[n] = 6 /\ Rank("dayChange") = 7 /\ "dayChange" \in Resource
          BY <3>5 DEF Loose, Kept, Rank, Resource, Channel
        <4> QED
          BY <3>5, <4>1, <4>2
      <3>6. CASE n = 13
        <4>1. call = Call({"hourChange"}, <<"hourChange">>)
          BY <3>6, StartupCalls
        <4>2. Loose(n) = {} /\ Kept[n] = 7 /\ Rank("hourChange") = 8 /\ "hourChange" \in Resource
          BY <3>6 DEF Loose, Kept, Rank, Resource, Channel
        <4> QED
          BY <3>6, <4>1, <4>2
      <3>7. CASE n = 18
        <4>1. call = Call({"redis"}, <<"redis">>)
          BY <3>7, StartupCalls
        <4>2. Loose(n) = {} /\ Kept[n] = 8 /\ Rank("redis") = 9 /\ "redis" \in Resource
          BY <3>7 DEF Loose, Kept, Rank, Resource, Dependency
        <4> QED
          BY <3>7, <4>1, <4>2
      <3>8. CASE n = 20
        <4>1. call = Return({"clock"}, <<"clock">>)
          BY <3>8, StartupCalls
        <4>2. Loose(n) = {} /\ Kept[n] = 9 /\ Rank("clock") = 10 /\ "clock" \in Resource
          BY <3>8 DEF Loose, Kept, Rank, Resource
        <4> QED
          BY <3>8, <4>1, <4>2
      <3> QED
        BY <1>5, <3>1, <3>2, <3>3, <3>4, <3>5, <3>6, <3>7, <3>8
    <2>2. /\ Kept[n] \in 0..9 /\ Kept[n + 1] = Kept[n] + 1
          /\ Returned[n + 1] = IF n = 20 THEN Kept[n + 1] ELSE Returned[n]
      BY <1>5 DEF Kept, Returned
    <2>3. Loose(n + 1) = {}
      BY <1>5 DEF Loose
    <2>4. PICK r, opens : Opens(r, opens)
      BY <2>1
    <2>5. CASE n = 20
      <3>1. call = Return(opens, <<r>>)
        BY <2>4, <2>5
      <3>2. call.keeps = <<r>> /\ call.returns = TRUE /\ call.opens = opens
        BY <3>1 DEF Return
      <3>3. /\ call.returns \in BOOLEAN
            /\ Returned[n + 1] = IF call.returns THEN Kept[n + 1] ELSE Returned[n]
            /\ Loose(n) \cup call.opens = {r}
            /\ r \in Resource /\ Rank(r) = Kept[n] + 1
        BY <2>2, <2>4, <2>5, <3>2
      <3> QED
        BY <2>2, <2>3, <3>2, <3>3, KeepsOne
    <2>6. CASE n # 20
      <3>1. call = Call(opens, <<r>>)
        BY <2>4, <2>6
      <3>2. call.keeps = <<r>> /\ call.returns = FALSE /\ call.opens = opens
        BY <3>1 DEF Call
      <3>3. /\ call.returns \in BOOLEAN
            /\ Returned[n + 1] = IF call.returns THEN Kept[n + 1] ELSE Returned[n]
            /\ Loose(n) \cup call.opens = {r}
            /\ r \in Resource /\ Rank(r) = Kept[n] + 1
        BY <2>2, <2>4, <2>6, <3>2
      <3> QED
        BY <2>2, <2>3, <3>2, <3>3, KeepsOne
    <2> QED
      BY <2>5, <2>6
  <1> QED
    BY <1>2, <1>3, <1>4, <1>5

\* What the numbers say about one call: nothing is kept by nobody but in telemetry.Init
\* and in NewRabbitmq, and a constructor keeps something only after telemetry.Init.
LEMMA Tables ==
    /\ Kept[1] = 0 /\ Returned[1] = 0 /\ Loose(1) = {}
    /\ Kept[22] = 10 /\ Returned[22] = 10 /\ Loose(22) = {}
    /\ \A n \in 1..22 : /\ Kept[n] \in 0..10 /\ Returned[n] \in 0..10
                        /\ Kept[n] = Returned[n] => Loose(n) \subseteq Telemetry
                        /\ Kept[n] # Returned[n] =>
                              /\ Returned[n] >= 2
                              /\ Loose(n) \subseteq IF Returned[n] = 3 THEN Channel ELSE {}
  <1>1. /\ Kept[1] = 0 /\ Returned[1] = 0
        /\ Kept[22] = 10 /\ Returned[22] = 10
        /\ \A n \in 1..22 : Kept[n] \in 0..10 /\ Returned[n] \in 0..10
        /\ \A n \in 1..22 : Kept[n] # Returned[n] => Returned[n] >= 2
    BY DEF Kept, Returned
  <1>2. \A n \in 1..22 : Kept[n] = Returned[n] => n # 9 /\ n # 11
    BY DEF Kept, Returned
  <1>3. \A n \in 1..22 : Kept[n] # Returned[n] => n # 3 /\ n # 4
    BY DEF Kept, Returned
  <1>4. Returned[9] = 3 /\ Returned[11] = 3
    BY DEF Returned
  <1>5. Loose(1) = {} /\ Loose(22) = {}
    BY DEF Loose
  <1>6. ASSUME NEW n \in 1..22
        PROVE  /\ n # 9 /\ n # 11 => Loose(n) \subseteq Telemetry
               /\ n # 3 /\ n # 4 /\ n # 9 /\ n # 11 => Loose(n) = {}
               /\ n \in {9, 11} => Loose(n) \subseteq Channel
    BY DEF Loose, Telemetry, Channel
  <1> QED
    BY <1>1, <1>2, <1>3, <1>4, <1>5, <1>6

-----------------------------------------------------------------------------
(***************************************************************************)
(* Sequences of resources in the order of their ranks.                     *)
(***************************************************************************)
RankedFrom(s, k) == \A i \in 1..Len(s) : Rank(s[i]) = k + i

LEMMA RankedJoin ==
    ASSUME NEW s \in Seq(Resource), NEW t \in Seq(Resource), NEW k \in Nat,
           RankedFrom(s, k), RankedFrom(t, k + Len(s))
    PROVE  /\ s \o t \in Seq(Resource) /\ Len(s \o t) = Len(s) + Len(t)
           /\ RankedFrom(s \o t, k)
  <1>1. Len(s) \in Nat /\ Len(t) \in Nat
    BY LenProperties
  <1> DEFINE u == s \o t
  <1>2. /\ u \in Seq(Resource) /\ Len(u) = Len(s) + Len(t)
        /\ \A i \in 1..(Len(s) + Len(t)) :
              u[i] = IF i <= Len(s) THEN s[i] ELSE t[i - Len(s)]
    BY ConcatProperties
  <1> HIDE DEF u
  <1>3. ASSUME NEW i \in 1..Len(u) PROVE Rank(u[i]) = k + i
    <2>1. CASE i <= Len(s)
      <3>1. i \in 1..Len(s) /\ u[i] = s[i]
        BY <1>1, <1>2, <2>1
      <3>2. Rank(s[i]) = k + i
        BY <3>1 DEF RankedFrom
      <3> QED
        BY <3>1, <3>2
    <2>2. CASE i > Len(s)
      <3>1. i - Len(s) \in 1..Len(t) /\ u[i] = t[i - Len(s)]
        BY <1>1, <1>2, <2>2
      <3>2. Rank(t[i - Len(s)]) = (k + Len(s)) + (i - Len(s))
        BY <3>1 DEF RankedFrom
      <3> QED
        BY <1>1, <3>1, <3>2
    <2> QED
      BY <1>1, <2>1, <2>2
  <1> QED
    BY <1>2, <1>3 DEF u, RankedFrom

LEMMA RankedFront ==
    ASSUME NEW s \in Seq(Resource), NEW k \in Nat, s # <<>>, RankedFrom(s, k)
    PROVE  /\ Front(s) \in Seq(Resource) /\ Len(Front(s)) = Len(s) - 1
           /\ RankedFrom(Front(s), k)
           /\ Last(s) \in Resource /\ Rank(Last(s)) = k + Len(s)
           /\ Len(s) \in Nat \ {0} /\ k + Len(s) <= 10
  <1>1. Len(s) \in Nat \ {0} /\ Len(s) \in Nat /\ Len(s) >= 1
    <2>1. Len(s) \in Nat \ {0}
      BY EmptySeq, LenProperties
    <2> QED
      BY <2>1
  <1>2. s[Len(s)] \in Resource /\ Rank(s[Len(s)]) = k + Len(s)
    BY <1>1, ElementOfSeq DEF RankedFrom
  <1>3. k + Len(s) <= 10
    BY <1>1, <1>2, Ranked
  <1> DEFINE u == SubSeq(s, 1, Len(s) - 1)
  <1>4. \A i \in 1..(Len(s) - 1) : s[i] \in Resource
    BY <1>1, ElementOfSeq
  <1>5. /\ u \in Seq(Resource)
        /\ Len(u) = IF 1 <= Len(s) - 1 THEN Len(s) - 1 - 1 + 1 ELSE 0
        /\ \A i \in 1..(Len(s) - 1 - 1 + 1) : u[i] = s[1 + i - 1]
    BY <1>1, <1>4, SubSeqProperties
  <1>6. Front(s) = u
    BY DEF Front
  <1> HIDE DEF u
  <1>7. Len(u) = Len(s) - 1
    <2>1. CASE 1 <= Len(s) - 1
      BY ONLY <1>1, <1>5, <2>1
    <2>2. CASE ~(1 <= Len(s) - 1)
      <3>1. Len(u) = 0
        BY <1>5, <2>2
      <3>2. Len(s) = 1
        BY <1>1, <2>2
      <3> QED
        BY <3>1, <3>2
    <2> QED
      BY <2>1, <2>2
  <1>8. \A i \in 1..Len(u) : Rank(u[i]) = k + i
    BY <1>1, <1>5, <1>7 DEF RankedFrom
  <1> QED
    BY <1>1, <1>2, <1>3, <1>5, <1>6, <1>7, <1>8 DEF RankedFrom, Last

\* A resource is closed before those ranked lower; the channels go with the connection.
LEMMA ClosedOne ==
    ASSUME NEW k \in 1..10, NEW r \in Resource, Rank(r) = k
    PROVE  /\ UpTo(k) \ Closed(r) = UpTo(k - 1)
           /\ k = 4 => (Channel \subseteq Closed(r))
           /\ k > 2 => (Telemetry \cap Closed(r) = {})
  <1>1. /\ \A q \in Resource : Rank(q) \in 1..10 /\ (Rank(q) = k => q = r)
        /\ \A q \in Channel : Rank(q) \in 5..8
        /\ Rank("connection") = 4 /\ "connection" \in Resource
        /\ Channel \subseteq Resource /\ Telemetry \subseteq Resource
        /\ \A q \in Telemetry : Rank(q) <= 2
    <2>1. \A q \in Telemetry : Rank(q) <= 2
      BY Ranked DEF UpTo
    <2> QED
      BY <2>1, Ranked DEF Resource, Dependency
  <1>2. CASE r = "connection"
    <2>1. k = 4 /\ Closed(r) = {r} \cup Channel
      BY <1>1, <1>2 DEF Closed
    <2>2. \A q \in Resource : (Rank(q) <= 4 /\ q \notin {r} \cup Channel) <=> Rank(q) <= 3
      BY <1>1, <2>1
    <2>3. UpTo(4) \ ({r} \cup Channel) = UpTo(3)
      BY <2>2 DEF UpTo
    <2> QED
      BY <1>1, <2>1, <2>3
  <1>3. CASE r # "connection"
    <2>1. k # 4 /\ Closed(r) = {r}
      BY <1>1, <1>3 DEF Closed
    <2>2. \A q \in Resource : (Rank(q) <= k /\ q # r) <=> Rank(q) <= k - 1
      BY <1>1
    <2>3. UpTo(k) \ {r} = UpTo(k - 1)
      BY <2>2 DEF UpTo
    <2> QED
      BY <1>1, <2>1, <2>3
  <1> QED
    BY <1>2, <1>3

-----------------------------------------------------------------------------
(***************************************************************************)
(* The invariant: where main is says what it holds.                        *)
(***************************************************************************)

\* What main closes, and then what the constructor closes, in the order of the ranks.
Ordered == RankedFrom(cleanup, 0) /\ RankedFrom(own, Len(cleanup))

Starting ==
    phase = "starting" =>
        /\ step \in 1..21
        /\ Len(cleanup) = Returned[step]
        /\ Len(cleanup) + Len(own) = Kept[step]
        /\ open = UpTo(Kept[step]) \cup Loose(step)

\* In NewRabbitmq, after telemetry.Init and NewMongoDb, a channel may be open that goes
\* with the connection.
Undoing ==
    phase = "undoing" =>
        /\ own # <<>>
        /\ Len(cleanup) >= 2 /\ Telemetry \subseteq open
        /\ open \subseteq UpTo(Len(cleanup) + Len(own))
                             \cup (IF Len(cleanup) = 3 THEN Channel ELSE {})

Serving ==
    phase \in {"listening", "serving"} =>
        own = <<>> /\ Len(cleanup) = 10 /\ open = Resource

Closing ==
    phase = "closing" =>
        own = <<>> /\ Len(cleanup) \in 1..10 /\ open = UpTo(Len(cleanup))

Ended ==
    /\ phase = "exited" => own = <<>> /\ open \subseteq UpTo(Len(cleanup)) \cup Telemetry
    /\ phase = "stopped" => own = <<>> /\ cleanup = <<>> /\ open = {}

\* A probe looks while main serves or closes, and comes to Redis last.
Probing ==
    /\ ~probing => probe = <<>>
    /\ probing => /\ phase \notin {"starting", "undoing", "listening"}
                  /\ probe \in {Checks, <<"connection", "redis">>, <<"redis">>, <<>>}

Typed ==
    /\ phase \in {"starting", "undoing", "listening", "serving", "closing", "exited", "stopped"}
    /\ step \in 1..22
    /\ own \in Seq(Resource) /\ cleanup \in Seq(Resource)
    /\ open \subseteq Resource
    /\ signalled \in BOOLEAN /\ shutting \in BOOLEAN
    /\ down \subseteq Dependency
    /\ probing \in BOOLEAN

MainInv == Ordered /\ Starting /\ Undoing /\ Serving /\ Closing /\ Ended
Inv == Typed /\ MainInv /\ Probing

LEMMA InvInit == Init => Inv
  <1> SUFFICES ASSUME Init PROVE Inv
    OBVIOUS
  <1>1. own = <<>> /\ cleanup = <<>> /\ open = {} /\ phase = "starting" /\ step = 1
        /\ own \in Seq(Resource) /\ cleanup \in Seq(Resource)
        /\ Len(own) = 0 /\ Len(cleanup) = 0
    BY DEF Init
  <1>2. Typed
    <2>1. signalled = FALSE /\ shutting = FALSE /\ probing = FALSE /\ down = {}
      BY DEF Init
    <2>2. signalled \in BOOLEAN /\ shutting \in BOOLEAN /\ probing \in BOOLEAN
      BY <2>1
    <2>3. down \subseteq Dependency /\ open \subseteq Resource
      BY <1>1, <2>1
    <2>4. /\ phase \in {"starting", "undoing", "listening", "serving", "closing", "exited", "stopped"}
          /\ step \in 1..22
      BY <1>1
    <2> QED
      BY ONLY <1>1, <2>2, <2>3, <2>4 DEF Typed
  <1>3. Probing
    <2>1. probing = FALSE /\ probe = <<>>
      BY DEF Init
    <2> QED
      BY <2>1, Zenon DEF Probing
  <1>4. Ordered
    BY <1>1 DEF Ordered, RankedFrom
  <1>5. Starting
    BY <1>1, Tables, Ranked DEF Starting
  <1>6. Undoing /\ Serving /\ Closing /\ Ended
    BY <1>1 DEF Undoing, Serving, Closing, Ended
  <1> QED
    BY <1>2, <1>3, <1>4, <1>5, <1>6 DEF Inv, MainInv

LEMMA Lengths == Typed => Len(own) \in Nat /\ Len(cleanup) \in Nat
  BY LenProperties DEF Typed

\* What is kept stays in order, whoever keeps it after the call.
LEMMA SucceedStep == Typed /\ MainInv /\ Succeed => Typed' /\ MainInv'
  <1> SUFFICES ASSUME Typed, MainInv, Succeed PROVE Typed' /\ MainInv'
    OBVIOUS
  <1> DEFINE call == Startup[step]
             kept == own \o call.keeps
  <1>1. /\ phase = "starting" /\ step \in 1..21
        /\ Len(cleanup) = Returned[step] /\ Len(cleanup) + Len(own) = Kept[step]
        /\ open = UpTo(Kept[step]) \cup Loose(step)
        /\ RankedFrom(cleanup, 0) /\ RankedFrom(own, Len(cleanup))
    BY DEF Succeed, MainInv, Starting, Ordered
  <1>2. Len(own) \in Nat /\ Len(cleanup) \in Nat
    BY Lengths
  <1>3. Effect(step, call)
    BY <1>1, CallEffect
  <1>4. /\ step' = step + 1 /\ open' = open \cup call.opens
        /\ call.returns => own' = <<>> /\ cleanup' = cleanup \o kept
        /\ ~call.returns => own' = kept /\ cleanup' = cleanup
        /\ phase' = IF step = Len(Startup) THEN "listening" ELSE phase
        /\ UNCHANGED <<signals, down, probe, probing>>
    BY DEF Succeed
  <1>5. Len(Startup) = 21
    BY StartupCalls
  <1> HIDE DEF call, kept
  <1>6. /\ kept \in Seq(Resource) /\ Len(kept) = Len(own) + Len(call.keeps)
        /\ RankedFrom(kept, Len(cleanup))
    <2>1. call.keeps \in Seq(Resource) /\ own \in Seq(Resource)
      BY <1>3 DEF Effect, Typed
    <2>2. RankedFrom(call.keeps, Len(cleanup) + Len(own))
      BY <1>1, <1>3 DEF Effect, RankedFrom
    <2> QED
      BY <1>1, <1>2, <2>1, <2>2, RankedJoin DEF kept
  <1>7. /\ Len(call.keeps) \in Nat /\ Kept[step + 1] = Kept[step] + Len(call.keeps)
        /\ call.returns \in BOOLEAN
    BY <1>3, LenProperties DEF Effect
  <1>8. /\ own' \in Seq(Resource) /\ cleanup' \in Seq(Resource)
        /\ Ordered'
        /\ Len(cleanup') = Returned[step + 1]
        /\ Len(cleanup') + Len(own') = Kept[step + 1]
    <2>1. CASE call.returns
      <3>1. own' = <<>> /\ cleanup' = cleanup \o kept /\ Returned[step + 1] = Kept[step + 1]
        BY <1>3, <1>4, <2>1 DEF Effect
      <3>2. /\ cleanup' \in Seq(Resource) /\ Len(cleanup') = Len(cleanup) + Len(kept)
            /\ RankedFrom(cleanup', 0)
        <4>1. cleanup \in Seq(Resource) /\ 0 \in Nat /\ 0 + Len(cleanup) = Len(cleanup)
          BY <1>2 DEF Typed
        <4>2. /\ cleanup \o kept \in Seq(Resource)
              /\ Len(cleanup \o kept) = Len(cleanup) + Len(kept)
              /\ RankedFrom(cleanup \o kept, 0)
          BY <1>1, <1>6, <4>1, RankedJoin
        <4> QED
          BY <3>1, <4>2
      <3>3. own' \in Seq(Resource) /\ Len(own') = 0 /\ RankedFrom(own', Len(cleanup'))
        BY <3>1 DEF RankedFrom
      <3>4. Ordered'
        BY ONLY <3>2, <3>3 DEF Ordered, RankedFrom
      <3>5. Len(cleanup') = Kept[step + 1] /\ Len(cleanup') + Len(own') = Kept[step + 1]
        BY ONLY <1>1, <1>2, <1>6, <1>7, <3>2, <3>3
      <3> QED
        BY ONLY <3>1, <3>2, <3>3, <3>4, <3>5
    <2>2. CASE ~call.returns
      <3>1. own' = kept /\ cleanup' = cleanup /\ Returned[step + 1] = Returned[step]
        BY <1>3, <1>4, <2>2 DEF Effect
      <3>2. own' \in Seq(Resource) /\ cleanup' \in Seq(Resource)
        BY <1>6, <3>1 DEF Typed
      <3>3. Ordered'
        BY ONLY <1>1, <1>6, <3>1 DEF Ordered, RankedFrom
      <3>4. Len(cleanup') = Returned[step + 1] /\ Len(cleanup') + Len(own') = Kept[step + 1]
        BY ONLY <1>1, <1>2, <1>6, <1>7, <3>1
      <3> QED
        BY ONLY <3>2, <3>3, <3>4
    <2> QED
      BY <1>7, <2>1, <2>2
  <1>9. open' = UpTo(Kept[step + 1]) \cup Loose(step + 1)
    BY <1>1, <1>3, <1>4 DEF Effect
  <1>10. open' \subseteq Resource
    <2>1. step + 1 \in 1..22
      BY <1>1
    <2>2. Loose(step + 1) \subseteq Telemetry \cup Channel
      BY ONLY <2>1, Tables
    <2> QED
      BY <1>9, <2>2 DEF UpTo, Resource
  <1>11. Typed'
    BY <1>1, <1>4, <1>5, <1>8, <1>10 DEF Typed, signals
  <1>12. CASE step # 21
    <2>1. phase' = "starting" /\ step' \in 1..21
      BY <1>1, <1>4, <1>5, <1>12
    <2>2. Starting'
      BY <1>4, <1>8, <1>9, <2>1 DEF Starting
    <2>3. Undoing' /\ Serving' /\ Closing' /\ Ended'
      BY <2>1 DEF Undoing, Serving, Closing, Ended
    <2> QED
      BY <1>8, <1>11, <2>2, <2>3 DEF MainInv
  <1>13. CASE step = 21
    <2>1. phase' = "listening" /\ step + 1 = 22
      BY <1>4, <1>5, <1>13
    <2>2. Len(cleanup') = 10 /\ Len(cleanup') + Len(own') = 10 /\ open' = Resource
      BY <1>8, <1>9, <2>1, Tables, Ranked
    <2>3. own' = <<>>
      BY <1>8, <2>2, EmptySeq
    <2>4. Serving' /\ Starting' /\ Undoing' /\ Closing' /\ Ended'
      BY <2>1, <2>2, <2>3 DEF Starting, Undoing, Serving, Closing, Ended
    <2> QED
      BY <1>8, <1>11, <2>4 DEF MainInv
  <1> QED
    BY <1>12, <1>13

LEMMA FailStep == Typed /\ MainInv /\ Fail => Typed' /\ MainInv'
  <1> SUFFICES ASSUME Typed, MainInv, Fail PROVE Typed' /\ MainInv'
    OBVIOUS
  <1>1. /\ phase = "starting" /\ step \in 1..21
        /\ Len(cleanup) = Returned[step] /\ Len(cleanup) + Len(own) = Kept[step]
        /\ open = UpTo(Kept[step]) \cup Loose(step)
        /\ UNCHANGED <<step, own, cleanup, open, signals, down, probe, probing>>
    BY DEF Fail, MainInv, Starting
  <1>2. Len(own) \in Nat /\ Len(cleanup) \in Nat /\ (own # <<>> => Len(own) > 0)
        /\ (own = <<>> => Len(own) = 0)
    BY Lengths, EmptySeq DEF Typed
  <1>3. CASE own = <<>>
    <2>1. phase' = "exited"
      BY <1>3 DEF Fail, Exit
    <2>2. Kept[step] = Len(cleanup) /\ Kept[step] = Returned[step]
      BY <1>1, <1>2, <1>3
    <2>3. Loose(step) \subseteq Telemetry
      <3>1. step \in 1..22
        BY <1>1
      <3> QED
        BY ONLY <3>1, <2>2, Tables
    <2>4. own' = <<>> /\ open' \subseteq UpTo(Len(cleanup')) \cup Telemetry
      BY <1>1, <1>3, <2>2, <2>3
    <2> QED
      BY <1>1, <2>1, <2>4
         DEF Typed, MainInv, Ordered, Starting, Undoing, Serving, Closing, Ended, RankedFrom, signals
  <1>4. CASE own # <<>>
    <2>1. phase' = "undoing"
      BY <1>4 DEF Fail
    <2>2. Kept[step] # Returned[step] /\ Kept[step] \in Nat
      BY <1>1, <1>2, <1>4
    <2>3. /\ Len(cleanup) >= 2
          /\ Loose(step) \subseteq IF Len(cleanup) = 3 THEN Channel ELSE {}
      <3>1. step \in 1..22
        BY <1>1
      <3>2. /\ Returned[step] >= 2
            /\ Loose(step) \subseteq IF Returned[step] = 3 THEN Channel ELSE {}
        BY ONLY <3>1, <2>2, Tables
      <3> QED
        BY ONLY <1>1, <3>2
    <2>4. Telemetry \subseteq UpTo(Kept[step])
      <3>1. Kept[step] >= 2
        BY <1>1, <1>2, <2>3
      <3>2. \A r \in Telemetry : r \in Resource /\ Rank(r) \in Nat /\ Rank(r) <= 2
        BY Ranked DEF UpTo
      <3> QED
        BY <2>2, <3>1, <3>2 DEF UpTo
    <2>5. Undoing'
      BY <1>1, <1>4, <2>1, <2>3, <2>4 DEF Undoing
    <2> QED
      BY <1>1, <2>1, <2>5
         DEF Typed, MainInv, Ordered, Starting, Serving, Closing, Ended, RankedFrom, signals
  <1> QED
    BY <1>3, <1>4

\* The constructor that failed gives back what it kept, from the last to the first.
LEMMA UndoStep == Typed /\ MainInv /\ Undo => Typed' /\ MainInv'
  <1> SUFFICES ASSUME Typed, MainInv, Undo PROVE Typed' /\ MainInv'
    OBVIOUS
  <1> DEFINE k == Len(cleanup) + Len(own)
             channels == IF Len(cleanup) = 3 THEN Channel ELSE {}
  <1>1. /\ phase = "undoing" /\ own # <<>>
        /\ Len(cleanup) >= 2 /\ Telemetry \subseteq open
        /\ open \subseteq UpTo(k) \cup channels
        /\ RankedFrom(cleanup, 0) /\ RankedFrom(own, Len(cleanup))
        /\ open' = open \ Closed(Last(own)) /\ own' = Front(own)
        /\ phase' = (IF own' = <<>> THEN "exited" ELSE phase)
        /\ UNCHANGED <<step, cleanup, signals, down, probe, probing>>
    BY DEF Undo, Exit, MainInv, Undoing, Ordered
  <1>2. Len(own) \in Nat /\ Len(cleanup) \in Nat
    BY Lengths
  <1>3. /\ own' \in Seq(Resource) /\ Len(own') = Len(own) - 1
        /\ RankedFrom(own', Len(cleanup))
        /\ Last(own) \in Resource /\ Rank(Last(own)) = k
        /\ Len(own) \in Nat \ {0} /\ k <= 10
    BY <1>1, <1>2, RankedFront DEF Typed
  <1> DEFINE r == Last(own)
  <1>4. /\ UpTo(k) \ Closed(r) = UpTo(k - 1)
        /\ k = 4 => Channel \subseteq Closed(r)
        /\ Telemetry \cap Closed(r) = {}
    <2>1. k \in 1..10 /\ k > 2
      BY <1>1, <1>2, <1>3
    <2> HIDE DEF k
    <2> QED
      BY <1>3, <2>1, ClosedOne
  <1>5. Len(cleanup') + Len(own') = k - 1 /\ Len(cleanup') = Len(cleanup)
    BY <1>1, <1>2, <1>3
  <1>6. Ordered' /\ Typed'
    <2>1. Ordered'
      BY <1>1, <1>3 DEF Ordered, RankedFrom
    <2>2. open' \subseteq Resource /\ cleanup' \in Seq(Resource)
      BY <1>1 DEF Typed
    <2>3. phase' \in {"undoing", "exited"}
      BY <1>1
    <2> QED
      BY <1>1, <1>3, <2>1, <2>2, <2>3 DEF Typed, signals
  <1>7. Telemetry \subseteq open'
    BY <1>1, <1>4
  <1>8. open' \subseteq UpTo(k - 1) \cup channels
    BY <1>1, <1>4
  <1>9. CASE own' = <<>>
    <2>1. phase' = "exited"
      BY <1>1, <1>9
    <2>2. k - 1 = Len(cleanup) /\ k = Len(cleanup) + 1
      <3>1. Len(own') = 0
        BY <1>9, EmptySeq
      <3>2. Len(own) = 1
        BY ONLY <1>2, <1>3, <3>1
      <3> QED
        BY <1>2, <3>2
    <2>3. open' \subseteq UpTo(k - 1)
      <3>1. CASE Len(cleanup) = 3
        <4>1. k = 4
          BY <2>2, <3>1
        <4> QED
          BY <1>1, <1>4, <3>1, <4>1
      <3>2. CASE Len(cleanup) # 3
        BY <1>8, <3>2
      <3> QED
        BY <3>1, <3>2
    <2>4. open' \subseteq UpTo(Len(cleanup')) \cup Telemetry
      BY <1>5, <2>2, <2>3
    <2> QED
      BY <1>6, <1>9, <2>1, <2>4 DEF MainInv, Starting, Undoing, Serving, Closing, Ended
  <1>10. CASE own' # <<>>
    <2>1. phase' = "undoing"
      BY <1>1, <1>10
    <2>2. Undoing'
      BY <1>1, <1>5, <1>7, <1>8, <1>10 DEF Undoing
    <2> QED
      BY <1>6, <2>1, <2>2 DEF MainInv, Starting, Serving, Closing, Ended
  <1> QED
    BY <1>9, <1>10

\* Main closes from the last to the first, and is done when nothing is open.
LEMMA CloseStep == Typed /\ MainInv /\ CloseLast => Typed' /\ MainInv'
  <1> SUFFICES ASSUME Typed, MainInv, CloseLast PROVE Typed' /\ MainInv'
    OBVIOUS
  <1>0. PICK k \in 1..10 : k = Len(cleanup)
    BY DEF CloseLast, MainInv, Closing
  <1>1. /\ phase = "closing" /\ own = <<>> /\ open = UpTo(k)
        /\ RankedFrom(cleanup, 0)
        /\ open' = open \ Closed(Last(cleanup)) /\ cleanup' = Front(cleanup)
        /\ phase' = (IF cleanup' = <<>> THEN "stopped" ELSE phase)
        /\ UNCHANGED <<step, own, signals, down, probe, probing>>
    BY <1>0 DEF CloseLast, MainInv, Closing, Ordered
  <1>2. cleanup \in Seq(Resource) /\ cleanup # <<>> /\ 0 \in Nat /\ 0 + k = k
    <2>1. cleanup # <<>>
      <3>1. Len(<<>>) = 0
        OBVIOUS
      <3>2. Len(cleanup) # 0
        BY <1>0
      <3> QED
        BY ONLY <3>1, <3>2
    <2> QED
      BY <1>0, <2>1 DEF Typed
  <1>3. /\ cleanup' \in Seq(Resource) /\ Len(cleanup') = k - 1
        /\ RankedFrom(cleanup', 0)
        /\ Last(cleanup) \in Resource /\ Rank(Last(cleanup)) = k
    BY <1>0, <1>1, <1>2, RankedFront
  <1>4. open' = UpTo(k - 1)
    <2> DEFINE r == Last(cleanup)
    <2>1. UpTo(k) \ Closed(r) = UpTo(k - 1)
      <3> HIDE DEF r
      <3>1. r \in Resource /\ Rank(r) = k
        BY <1>3 DEF r
      <3> QED
        BY <3>1, ClosedOne
    <2> QED
      BY <1>1, <2>1
  <1>5. Len(own') = 0 /\ own' = <<>> /\ own' \in Seq(Resource)
    BY <1>1
  <1>6. Ordered' /\ Typed'
    <2>1. Ordered'
      BY <1>3, <1>5 DEF Ordered, RankedFrom
    <2>2. open' \subseteq Resource
      BY <1>4 DEF UpTo
    <2>3. phase' \in {"closing", "stopped"}
      BY <1>1
    <2> QED
      BY <1>1, <1>3, <1>5, <2>1, <2>2, <2>3 DEF Typed, signals
  <1>7. CASE cleanup' = <<>>
    <2>1. phase' = "stopped" /\ k - 1 = 0
      BY <1>1, <1>3, <1>7
    <2>2. open' = {}
      BY <1>4, <2>1, Ranked
    <2> QED
      BY <1>5, <1>6, <1>7, <2>1, <2>2 DEF MainInv, Starting, Undoing, Serving, Closing, Ended
  <1>8. CASE cleanup' # <<>>
    <2>1. phase' = "closing"
      BY <1>1, <1>8
    <2>2. Len(cleanup') \in 1..10
      <3>1. Len(cleanup') \in Nat \ {0}
        BY <1>3, <1>8, EmptySeq
      <3> QED
        <4>1. PICK m \in Nat \ {0} : m = Len(cleanup')
          BY <3>1
        <4>2. m = k - 1
          BY <1>3, <4>1
        <4> QED
          BY <4>1, <4>2
    <2>3. open' = UpTo(Len(cleanup'))
      BY <1>3, <1>4
    <2> QED
      BY <1>5, <1>6, <2>1, <2>2, <2>3 DEF MainInv, Starting, Undoing, Serving, Closing, Ended
  <1> QED
    BY <1>7, <1>8

LEMMA ServerStep ==
    Typed /\ MainInv /\ (Serve \/ ServeFails \/ ServerClosed) => Typed' /\ MainInv'
  <1> SUFFICES ASSUME Typed, MainInv, Serve \/ ServeFails \/ ServerClosed
               PROVE  Typed' /\ MainInv'
    OBVIOUS
  <1>1. /\ phase \in {"listening", "serving"} /\ phase' \in {"serving", "exited", "closing"}
        /\ UNCHANGED <<step, own, cleanup, open, signals, down, probe, probing>>
    BY DEF Serve, ServeFails, ServerClosed, Exit
  <1>2. own = <<>> /\ Len(cleanup) = 10 /\ open = Resource /\ UpTo(10) = Resource
    BY <1>1, Ranked DEF MainInv, Serving
  <1>3. Typed'
    BY <1>1 DEF Typed, signals
  <1>4. Ordered'
    BY <1>1 DEF MainInv, Ordered, RankedFrom
  <1>5. Starting' /\ Undoing' /\ Serving' /\ Closing' /\ Ended'
    BY <1>1, <1>2 DEF Starting, Undoing, Serving, Closing, Ended
  <1> QED
    BY <1>3, <1>4, <1>5 DEF MainInv

\* The signal, outages and probes leave main alone.
LEMMA OthersStep ==
    Typed /\ MainInv /\ UNCHANGED main
      /\ signalled' \in BOOLEAN /\ shutting' \in BOOLEAN
      /\ down' \subseteq Dependency /\ probing' \in BOOLEAN
         => Typed' /\ MainInv'
  BY DEF Typed, MainInv, main, Ordered, RankedFrom, Starting, Undoing, Serving, Closing, Ended

-----------------------------------------------------------------------------
(***************************************************************************)
(* The probe.                                                              *)
(***************************************************************************)
LEMMA NextCheck ==
    /\ Tail(Checks) = <<"connection", "redis">>
    /\ Tail(<<"connection", "redis">>) = <<"redis">>
    /\ Tail(<<"redis">>) = <<>> /\ Head(<<"redis">>) = "redis"
    /\ Tail(Checks) # <<>> /\ Tail(<<"connection", "redis">>) # <<>>
  BY DEF Checks

LEMMA ProbeStep == Typed /\ Probing /\ [Next]_vars => Probing'
  <1> SUFFICES ASSUME Typed, Probing, [Next]_vars PROVE Probing'
    OBVIOUS
  <1> DEFINE looking == {Checks, <<"connection", "redis">>, <<"redis">>, <<>>}
             early == {"starting", "undoing", "listening"}
  <1>1. CASE UNCHANGED <<probe, probing>>
    <2>1. phase \notin early => phase' \notin early
      <3>1. CASE UNCHANGED phase
        BY <3>1
      <3>2. CASE Main \/ Fail \/ ServeFails
        BY <3>2 DEF Main, Succeed, Undo, Serve, ServerClosed, CloseLast, Fail, ServeFails, Exit
      <3>3. CASE Signal \/ Shutdown \/ (\E d \in Dependency : Outage(d) \/ Recover(d))
                   \/ Ready \/ Check \/ AnswerReady \/ AnswerUnavailable
        BY <3>3 DEF Signal, Shutdown, Outage, Recover, Ready, Check, AnswerReady,
                    AnswerUnavailable, main
      <3> QED
        BY <3>1, <3>2, <3>3 DEF Next, vars, main
    <2> QED
      BY <1>1, <2>1, Zenon DEF Probing
  <1>2. CASE Ready
    <2>1. phase \in {"serving", "closing"} /\ phase' = phase /\ probing' = TRUE /\ probe' = Checks
      BY <1>2 DEF Ready, main
    <2>2. phase' \notin early
      BY <2>1
    <2> QED
      BY <2>1, <2>2, Zenon DEF Probing
  <1>3. CASE Check
    <2>1. probing /\ probe # <<>> /\ probe' = Tail(probe) /\ phase' = phase
          /\ probing' = probing
      BY <1>3 DEF Check, main
    <2>2. phase \notin early /\ probe \in looking
      BY <2>1 DEF Probing
    <2>3. probe' \in looking
      BY <2>1, <2>2, NextCheck
    <2> QED
      BY <2>1, <2>2, <2>3, Zenon DEF Probing
  <1>4. CASE AnswerReady \/ AnswerUnavailable
    <2>1. probing' = FALSE /\ probe' = <<>>
      BY <1>4 DEF AnswerReady, AnswerUnavailable, Answered
    <2> QED
      BY <2>1, Zenon DEF Probing
  <1>5. CASE Main \/ Fail \/ ServeFails \/ Signal \/ Shutdown
               \/ (\E d \in Dependency : Outage(d) \/ Recover(d))
    <2>1. UNCHANGED <<probe, probing>>
      BY <1>5 DEF Main, Succeed, Undo, Serve, ServerClosed, CloseLast, Fail, ServeFails,
                  Signal, Shutdown, Outage, Recover
    <2> QED
      BY <1>1, <2>1
  <1> QED
    BY <1>1, <1>2, <1>3, <1>4, <1>5 DEF Next, vars

LEMMA InvStep == Inv /\ [Next]_vars => Inv'
  <1> SUFFICES ASSUME Inv, [Next]_vars PROVE Inv'
    OBVIOUS
  <1> USE DEF Inv
  <1>1. Probing'
    BY ProbeStep
  <1>2. CASE Main
    BY <1>1, <1>2, SucceedStep, UndoStep, ServerStep, CloseStep DEF Main
  <1>3. CASE Fail
    BY <1>1, <1>3, FailStep
  <1>4. CASE ServeFails
    BY <1>1, <1>4, ServerStep
  <1>5. CASE \/ Signal \/ Shutdown
             \/ \E d \in Dependency : Outage(d) \/ Recover(d)
             \/ Ready \/ Check \/ AnswerReady \/ AnswerUnavailable
             \/ UNCHANGED vars
    <2>1. UNCHANGED main
      BY <1>5 DEF Signal, Shutdown, Outage, Recover, Ready, Check, AnswerReady,
                  AnswerUnavailable, vars
    <2>2. signalled' \in BOOLEAN /\ shutting' \in BOOLEAN
      BY <1>5 DEF Typed, Signal, Shutdown, Outage, Recover, Ready, Check, AnswerReady,
                  AnswerUnavailable, signals, vars
    <2>3. down' \subseteq Dependency
      BY <1>5 DEF Typed, Signal, Shutdown, Outage, Recover, Ready, Check, AnswerReady,
                  AnswerUnavailable, vars
    <2>4. probing' \in BOOLEAN
      BY <1>5 DEF Typed, Signal, Shutdown, Outage, Recover, Ready, Check, AnswerReady,
                  AnswerUnavailable, Answered, vars
    <2> QED
      BY <1>1, <2>1, <2>2, <2>3, <2>4, OthersStep
  <1> QED
    BY <1>2, <1>3, <1>4, <1>5 DEF Next

-----------------------------------------------------------------------------
(***************************************************************************)
(* The theorems.                                                           *)
(***************************************************************************)
\* main keeps its types: no call of the start is skipped or repeated, and only a
\* constructor that runs or undoes has anything of its own.
THEOREM ProcessTyped == Spec => []TypeOK
  <1>1. Inv => TypeOK
    <2> SUFFICES ASSUME Inv PROVE TypeOK
      OBVIOUS
    <2>1. Len(Startup) + 1 = 22
      BY StartupCalls
    <2>2. own # <<>> => phase \in {"starting", "undoing"}
      BY DEF Inv, Typed, MainInv, Serving, Closing, Ended
    <2>3. probe \in Seq(Dependency)
      <3>1. probe \in {<<>>, Checks, <<"connection", "redis">>, <<"redis">>}
        BY Zenon DEF Inv, Probing
      <3>2. /\ <<>> \in Seq(Dependency) /\ Checks \in Seq(Dependency)
            /\ <<"connection", "redis">> \in Seq(Dependency) /\ <<"redis">> \in Seq(Dependency)
        BY DEF Checks, Dependency
      <3> QED
        BY <3>1, <3>2, Zenon
    <2> QED
      BY <2>1, <2>2, <2>3 DEF Inv, Typed, TypeOK
  <1> QED
    BY InvInit, InvStep, <1>1, PTL DEF Spec

\* Whatever call of the start fails, the failed constructor closes what it opened,
\* but for the exporters of telemetry.Init.
THEOREM NothingLeftBehind == Spec => []NothingHalfBuilt
  <1>1. Inv => NothingHalfBuilt
    <2> SUFFICES ASSUME Inv, phase = "exited" PROVE open \subseteq Range(cleanup) \cup Telemetry
      BY DEF NothingHalfBuilt
    <2>1. /\ open \subseteq UpTo(Len(cleanup)) \cup Telemetry /\ RankedFrom(cleanup, 0)
          /\ cleanup \in Seq(Resource)
      BY DEF Inv, Typed, MainInv, Ordered, Ended
    <2>2. ASSUME NEW r \in UpTo(Len(cleanup)) PROVE r \in Range(cleanup)
      <3>1. Len(cleanup) \in Nat /\ DOMAIN cleanup = 1..Len(cleanup)
        BY <2>1, LenProperties
      <3>2. r \in Resource /\ Rank(r) \in 1..Len(cleanup)
        BY <2>2, <3>1, Ranked DEF UpTo
      <3>3. Rank(cleanup[Rank(r)]) = Rank(r) /\ cleanup[Rank(r)] \in Resource
        BY <2>1, <3>1, <3>2, ElementOfSeq DEF RankedFrom
      <3>4. cleanup[Rank(r)] = r
        BY <3>2, <3>3, Ranked
      <3> QED
        BY <3>1, <3>2, <3>4 DEF Range
    <2> QED
      BY <2>1, <2>2
  <1> QED
    BY InvInit, InvStep, <1>1, PTL DEF Spec

\* Telemetry is closed last, at the orderly end and after a failed start alike.
THEOREM TelemetryOutlivesTheRest == Spec => ClosedWhileTraced
  <1>1. Inv => (phase \in {"undoing", "closing"} =>
                   Telemetry \subseteq open \/ open \subseteq Telemetry)
    <2> SUFFICES ASSUME Inv, phase \in {"undoing", "closing"}
                 PROVE  Telemetry \subseteq open \/ open \subseteq Telemetry
      OBVIOUS
    <2>1. CASE phase = "undoing"
      BY <2>1 DEF Inv, MainInv, Undoing
    <2>2. CASE phase = "closing"
      <3>1. PICK k \in 1..10 : k = Len(cleanup) /\ open = UpTo(k)
        BY <2>2 DEF Inv, MainInv, Closing
      <3>2. CASE k = 1
        BY <3>1, <3>2, Ranked
      <3>3. CASE k # 1
        <4>1. \A r \in UpTo(2) : Rank(r) \in Nat /\ r \in UpTo(k)
          BY <3>3, Ranked DEF UpTo
        <4> QED
          BY <3>1, <4>1, Ranked
      <3> QED
        BY <3>2, <3>3
    <2> QED
      BY <2>1, <2>2
  <1>2. Inv /\ [Next]_vars =>
           [open' # open /\ phase \in {"undoing", "closing"} =>
               Telemetry \subseteq open \/ open \subseteq Telemetry]_vars
    BY <1>1
  <1> QED
    BY InvInit, InvStep, <1>2, PTL DEF Spec, ClosedWhileTraced

\* When the last check of a probe succeeds, nothing it looked at has been closed
\* since.
THEOREM NothingClosedBetweenChecks == Spec => CheckedWhileOpen
  <1>1. Inv /\ [Next]_vars => [LastCheckPassed => Dependency \subseteq open]_vars
    <2> SUFFICES ASSUME Inv, [Next]_vars, LastCheckPassed PROVE Dependency \subseteq open
      OBVIOUS
    <2>1. Check
      <3>1. probing /\ probe # <<>> /\ probing' = TRUE /\ probe' = <<>>
        BY DEF LastCheckPassed, Inv, Typed
      <3>2. ~UNCHANGED vars /\ ~UNCHANGED <<probe, probing>>
        BY <3>1 DEF vars
      <3>3. ~Ready /\ ~AnswerReady /\ ~AnswerUnavailable
        BY <3>1 DEF Ready, AnswerReady, AnswerUnavailable, Answered
      <3>4. ~(Main \/ Fail \/ ServeFails \/ Signal \/ Shutdown)
        BY <3>2 DEF Main, Succeed, Undo, Serve, ServerClosed, CloseLast, Fail, ServeFails,
                    Signal, Shutdown
      <3>5. ~(\E d \in Dependency : Outage(d) \/ Recover(d))
        BY <3>2 DEF Outage, Recover
      <3> QED
        BY <3>2, <3>3, <3>4, <3>5 DEF Next
    <2>2. /\ phase \notin {"starting", "undoing", "listening", "exited", "stopped"}
          /\ probe \in {Checks, <<"connection", "redis">>, <<"redis">>}
      BY <2>1 DEF Check, Over, Inv, Probing
    <2>3. "redis" \in open
      <3>1. probe' = Tail(probe) /\ probe' = <<>> /\ Head(probe) \in open
        BY <2>1 DEF Check, LastCheckPassed, Reachable
      <3> QED
        BY <2>2, <3>1, NextCheck
    <2>4. CASE phase = "serving"
      BY <2>4 DEF Inv, MainInv, Serving, Resource
    <2>5. CASE phase = "closing"
      <3>1. PICK k \in 1..10 : k = Len(cleanup) /\ open = UpTo(k)
        BY <2>5 DEF Inv, MainInv, Closing
      <3>2. k >= 9
        BY <2>3, <3>1, Ranked DEF UpTo
      <3>3. \A d \in Dependency : d \in Resource /\ Rank(d) \in Nat /\ Rank(d) <= 9
        BY Ranked DEF Resource
      <3> QED
        BY <3>1, <3>2, <3>3 DEF UpTo
    <2> QED
      BY <2>1, <2>2, <2>4, <2>5 DEF Inv, Typed
  <1> QED
    BY InvInit, InvStep, <1>1, PTL DEF Spec, CheckedWhileOpen

\* The process implements ServiceLife: it serves only while it holds every resource, and
\* an orderly end has given every one of them back.
LEMMA LifeStep == Inv /\ Inv' /\ [Next]_vars => [Life!Next]_<<life, open>>
  <1> SUFFICES ASSUME Inv, Inv', [Next]_vars PROVE [Life!Next]_<<life, open>>
    OBVIOUS
  <1>1. open \subseteq Resource /\ open' \subseteq Resource
    BY DEF Inv, Typed
  <1>2. CASE Succeed
    <2>1. /\ phase = "starting" /\ phase' \in {"starting", "listening"}
          /\ open \subseteq open'
      BY <1>2 DEF Succeed
    <2>2. CASE phase' = "starting"
      <3>1. life = "starting" /\ life' = "starting"
        BY <2>1, <2>2 DEF life
      <3> QED
        BY <1>1, <2>1, <3>1 DEF Life!Next, Life!Acquire
    <2>3. CASE phase' = "listening"
      <3>1. life = "starting" /\ life' = "serving" /\ open' = Resource
        BY <2>1, <2>3 DEF life, Inv, MainInv, Serving
      <3> QED
        BY <3>1 DEF Life!Next, Life!Serve
    <2> QED
      BY <2>1, <2>2, <2>3
  <1>3. CASE Undo \/ Fail
    <2>1. /\ phase \in {"starting", "undoing"} /\ phase' \in {"undoing", "exited"}
          /\ open' \subseteq open
      BY <1>3 DEF Undo, Fail, Exit
    <2>2. life \in {"starting", "aborting"} /\ life' \in {"aborting", "exited"}
      BY <2>1 DEF life
    <2> QED
      BY <2>1, <2>2 DEF Life!Next, Life!Abort, Life!Exit
  <1>4. CASE Serve
    <2>1. phase = "listening" /\ phase' = "serving" /\ open' = open
      BY <1>4 DEF Serve
    <2>2. life' = life
      BY <2>1 DEF life
    <2> QED
      BY <2>1, <2>2
  <1>5. CASE ServeFails \/ ServerClosed
    <2>1. /\ phase \in {"listening", "serving"} /\ phase' \in {"exited", "closing"}
          /\ open' = open
      BY <1>5 DEF ServeFails, ServerClosed, Exit
    <2>2. life = "serving" /\ life' \in {"exited", "closing"}
      BY <2>1 DEF life
    <2> QED
      BY <2>1, <2>2 DEF Life!Next, Life!Leave, Life!Exit
  <1>6. CASE CloseLast
    <2>1. phase = "closing" /\ phase' \in {"closing", "stopped"} /\ open' \subseteq open
      BY <1>6 DEF CloseLast
    <2>2. CASE phase' = "closing"
      <3>1. life = "closing" /\ life' = "closing"
        BY <2>1, <2>2 DEF life
      <3> QED
        BY <2>1, <3>1 DEF Life!Next, Life!Release
    <2>3. CASE phase' = "stopped"
      <3>1. life = "closing" /\ life' = "ended" /\ open' = {}
        BY <2>1, <2>3 DEF life, Inv, MainInv, Ended
      <3> QED
        BY <3>1 DEF Life!Next, Life!End
    <2> QED
      BY <2>1, <2>2, <2>3
  <1>7. CASE \/ Signal \/ Shutdown
             \/ \E d \in Dependency : Outage(d) \/ Recover(d)
             \/ Ready \/ Check \/ AnswerReady \/ AnswerUnavailable
             \/ UNCHANGED vars
    <2>1. phase' = phase /\ open' = open
      BY <1>7 DEF Signal, Shutdown, Outage, Recover, Ready, Check, AnswerReady,
                  AnswerUnavailable, vars, main
    <2>2. life' = life
      BY <2>1 DEF life
    <2> QED
      BY <2>1, <2>2
  <1> QED
    BY <1>2, <1>3, <1>4, <1>5, <1>6, <1>7 DEF Next, Main

THEOREM ProcessRefinesLife == Spec => LifeRefined
  <1>1. Init => Life!Init
    BY DEF Init, Life!Init, life
  <1> QED
    BY <1>1, InvInit, InvStep, LifeStep, PTL DEF Spec, LifeRefined, Life!Spec
=============================================================================
