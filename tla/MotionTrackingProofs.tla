------------------------ MODULE MotionTrackingProofs ------------------------
(***************************************************************************)
(* Theorems of MotionTracking, for any set of commands, any limit of the   *)
(* round counter and any number of failed transfers.                       *)
(*                                                                         *)
(* The labels on the stack of a thread say which mutexes it needs: those   *)
(* that protect the code it is in, and the code its callers are in.  The   *)
(* proof connects these to what the kernel has: a thread owns what it      *)
(* needs, but for one mutex it may be waiting for.                         *)
(***************************************************************************)
EXTENDS MotionTracking, ChKernelProofs, TLAPS

-----------------------------------------------------------------------------
(* Stacks of labels *)

Printing == {"p_lock", "p_write", "p_unlock"}
Driving  == {"x_acquire", "x_start", "x_done", "x_release"}
Ranging  == {"r_txbuf", "r_lock", "r_scale", "r_check", "r_unlock"}

\* The labels a thread can be at, or return to.
Labels(t) ==
    IF t = "main"
    THEN Printing \cup Driving \cup Ranging \cup
         {"f_write", "b_init", "b_reset", "b_power", "b_width", "b_range", "b_who",
          "b_whoami", "b_serial", "b_mpu", "b_loop"}
    ELSE IF t = "serial"
    THEN Printing \cup Driving \cup Ranging \cup
         {"f_write", "s_start", "s_read", "s_take", "s_got", "s_check", "c_set",
          "c_enable", "c_unset", "c_own", "c_option", "c_range", "c_flag", "c_format",
          "c_call", "c_unlock", "s_out", "s_test", "d_lock", "d_read", "d_unlock",
          "g_read", "s_count", "s_unlock", "s_sleep"}
    ELSE IF t = "mpu"
    THEN Driving \cup
         {"m_start", "m_lock", "m_test", "a_high", "a_low", "a_value", "m_check",
          "m_x", "m_y", "m_z", "m_center", "m_unlock", "m_sleep"}
    ELSE {"idle"}

Label == UNION {Labels(t) : t \in Thread}

\* The labels that may be below l: where its callers go on.
Beneath(t, l) ==
    IF l \in Printing
    THEN {"p_lock", "b_init", "b_width", "b_range", "b_who", "b_serial", "b_mpu",
          "b_loop", "c_set", "s_out"}
    ELSE IF l = "f_write" THEN {"f_write", "s_count", "b_serial"}
    ELSE IF l \in Driving
    THEN {"p_lock", "b_power", "b_width", "b_range", "b_who", "b_whoami", "r_check",
          "c_unlock", "a_low", "a_value"}
    ELSE IF l \in Ranging THEN IF t = "main" THEN {"p_lock", "b_who"} ELSE {"c_unlock"}
    ELSE {}

\* s is a stack of t: its last label is one that does not return.
Stack(t, s) ==
    /\ s \in Seq(Labels(t)) /\ s # <<>>
    /\ \A i, j \in 1 .. Len(s) : i < j => s[j] \in Beneath(t, s[i])
    /\ Beneath(t, s[Len(s)]) = {}

\* The code that m protects.
Under(m) ==
    IF m = "print" THEN {"p_write", "p_unlock", "s_take", "s_got"}
    ELSE IF m = "ser"
    THEN {"c_flag", "c_format", "c_call", "c_unlock", "s_test", "d_lock", "d_read",
          "d_unlock", "g_read", "s_count", "s_unlock"}
    ELSE IF m = "acc"
    THEN {"r_scale", "r_check", "r_unlock", "m_test", "a_high", "a_low", "a_value",
          "m_check", "m_x", "m_y", "m_z", "m_center", "m_unlock", "c_enable", "c_unset",
          "d_read", "d_unlock"}
    ELSE {"x_start", "x_done", "x_release"}

\* Where a thread is once it has asked for m.
Behind(m) ==
    IF m = "print" THEN {"p_write", "s_take"}
    ELSE IF m = "ser" THEN {"c_flag", "c_format", "c_call", "s_test"}
    ELSE IF m = "acc" THEN {"r_scale", "m_test", "c_enable", "d_read"}
    ELSE {"x_start"}

\* A label of the stack s is in L.
Has(s, L) == \E i \in 1 .. Len(s) : s[i] \in L

\* The mutexes that protect the labels of a stack.
Needs(s) == {m \in Mutex : Has(s, Under(m))}

\* The order the program takes its mutexes in; that of mtprint.c is not taken
\* together with others.
Rank(m) == IF m = "ser" THEN 1 ELSE IF m = "acc" THEN 2 ELSE IF m = "bus" THEN 3 ELSE 4

Waits(t, m) == t \in ToSet(k.wq[m])
Holds(t, m) == m \in ToSet(k.held[t])
-----------------------------------------------------------------------------
(* The invariant *)

Prios == IdlePrio .. HighPrio

Typed == /\ k \in KernelType(Prios) /\ Settled(k, {}) /\ Able(k, "idle")
         /\ pc \in [Thread -> Seq(Label)] /\ faults \in 0 .. MaxFaults

Stacked == \A t \in Thread : Stack(t, pc[t])

\* A thread that waits has asked for the mutex, and holds what its callers need.
Asked == \A t \in Thread, m \in Mutex : Waits(t, m) => Head(pc[t]) \in Behind(m)
Owned == \A t \in Thread : \A m \in Needs(pc[t]) : Waits(t, m) \/ Holds(t, m)

\* A mutex in the list of a thread is its own, and was taken after those of a
\* lower rank.
Falling(s) == \A i, j \in 1 .. Len(s) : i < j => Rank(s[i]) > Rank(s[j])
Listed == /\ \A t \in Thread, m \in Mutex : Holds(t, m) => k.own[m] = t
          /\ \A t \in Thread : Falling(k.held[t])

\* No thread holds more than it needs, but for the mutex of mpu.c after a
\* failed transfer in mpu_acc_range: main keeps it, and the serial thread until
\* it unlocks its own.
Leaks(t) == faults > 0 /\ (t = "main" \/ At(t, "c_unlock"))
Spare == \A t \in Thread, m \in Mutex :
             Holds(t, m) => m \in Needs(pc[t]) \/ (m = "acc" /\ Leaks(t))

\* With no failed transfer an owner has its mutex in its list, and does not wait
\* for it.
Sound == faults = 0 =>
    \A t \in Thread, m \in Mutex : k.own[m] = t => Holds(t, m) /\ ~Waits(t, m)

Locking == Typed /\ Stacked /\ Asked /\ Owned /\ Listed /\ Spare /\ Sound

\* The thread the controller works for sleeps at the end of its transfer, and
\* the threads main has not created yet wait for it.
Driven == i2c.thread # NoThread =>
    /\ i2c.thread \in Thread /\ k.st[i2c.thread] = "SUSPENDED"
    /\ At(i2c.thread, "x_done")
BeforeSerial == {"b_init", "b_reset", "b_power", "b_width", "b_range", "b_who",
                 "b_whoami", "b_serial"}
BeforeMpu == BeforeSerial \cup {"b_mpu"}
Booting == /\ Has(pc["main"], BeforeSerial) => k.st["serial"] = "WTSTART"
           /\ Has(pc["main"], BeforeMpu) => k.st["mpu"] = "WTSTART"

\* Once started the two threads have the highest priority of all.
Raised == /\ \A t \in Thread : k.real[t] <= k.prio[t]
          /\ ~At("serial", "s_start") => k.real["serial"] = HighPrio
          /\ ~At("mpu", "m_start") => k.real["mpu"] = HighPrio

\* The data of the program, and the command that changes the range.
Value == Int \X Int
Kept == /\ res \in [Thread -> {MSG_OK, MSG_TIMEOUT, MSG_RESET}]
        /\ i2c \in [state : {"STOP", "READY", "ACTIVE", "LOCKED"},
                    thread : Thread \cup {NoThread}, wire : Seq(Int)]
        /\ Len(i2c.wire) <= 2 /\ txbuf \in Int \X Int
        /\ mpu \in [enable : BOOLEAN, scale : Ranges, axis : 1 .. 3,
                    got : [1 .. 3 -> Int], gen : Int, row : [1 .. 3 -> Int],
                    x : Value, y : Value, z : Value]
        /\ ser \in [enable : BOOLEAN, option : Int, count : 0 .. CounterLimit + 1,
                    cmd : Commands \cup {NoCommand}, shown : Seq(Value)]
Ordering == Head(pc["serial"]) \in {"c_range", "c_call", "r_txbuf", "r_lock", "r_scale"}
                => ser.cmd \in DOMAIN RangeOf
NoError == faults = 0 => \A t \in Thread : res[t] = MSG_OK

\* Between its test and the end of an update the MPU thread reads with the flag
\* set; the copies of the flag agree but in the middle of a command.
Enabled == Head(pc["mpu"]) \in Driving \cup {"a_high", "a_low", "a_value", "m_check",
                                           "m_x", "m_y", "m_z", "m_center"}
               => mpu.enable
Agreed == IF Head(pc["serial"]) \in {"c_unset", "c_own", "c_flag"}
          THEN mpu.enable = (ser.cmd = "str")
          ELSE mpu.enable = ser.enable

\* The values are of one conversion but while the MPU thread is in it, which no
\* thread can interrupt.
Converting == {"m_y", "m_z", "m_center"}
Whole == IF Head(pc["mpu"]) \in Converting
         THEN /\ k.cur = "mpu" /\ mpu.x[1] = mpu.gen
              /\ ~At("mpu", "m_y") => mpu.y[1] = mpu.gen
         ELSE mpu.x[1] = mpu.y[1] /\ mpu.y[1] = mpu.z[1]

\* The copies are of the values as they are while more are taken.
Copying == {"g_read", "d_read"}
Copied == /\ \A i \in 1 .. Len(ser.shown) : ser.shown[i][1] = ser.shown[1][1]
          /\ ser.shown # <<>> => Head(pc["serial"]) \in
                 Copying \cup {"d_unlock", "f_write", "s_count"}
          /\ Head(pc["serial"]) \in Copying /\ ser.shown # <<>>
                 => k.cur = "serial" /\ ser.shown[1][1] = mpu.x[1]
          /\ At("serial", "g_read") => Len(ser.shown) < 3
          /\ At("serial", "d_read") => Len(ser.shown) < 2

\* With no failed transfer the rows of the axes that are done are of the update
\* under way, and a value is of the update its row is of.
Fits(v)  == v[1] = v[2]
Received == {"m_check", "m_x"} \cup Converting
Rows  == IF Head(pc["mpu"]) \in Received
         THEN mpu.axis = 1 /\ \A i \in 1 .. 3 : mpu.row[i] = mpu.gen
         ELSE \A i \in 1 .. mpu.axis - 1 : mpu.row[i] = mpu.gen
Fresh == faults = 0 =>
    /\ Rows
    /\ Fits(mpu.x) /\ Fits(mpu.y) /\ (Fits(mpu.z) \/ At("mpu", "m_center"))
    /\ \A i \in 1 .. Len(ser.shown) : Fits(ser.shown[i])
-----------------------------------------------------------------------------
(* How stacks change *)

\* The first label of a stack and what is below it.
LEMMA StackIs ==
    ASSUME NEW t, NEW s, Stack(t, s)
    PROVE  /\ Head(s) \in Labels(t) /\ Tail(s) \in Seq(Labels(t))
           /\ Len(Tail(s)) = Len(s) - 1 /\ \A i \in 1 .. Len(Tail(s)) : Tail(s)[i] = s[i + 1]
           /\ \A i \in 1 .. Len(Tail(s)) : Tail(s)[i] \in Beneath(t, Head(s))
           /\ Beneath(t, Head(s)) = {} => Tail(s) = <<>>
           /\ Beneath(t, Head(s)) # {} => Stack(t, Tail(s))
           /\ \A L : Has(s, L) <=> Head(s) \in L \/ Has(Tail(s), L)
           /\ \A L : Has(Tail(s), L) => Beneath(t, Head(s)) \cap L # {}
<1>1. s \in Seq(Labels(t)) /\ s # <<>> /\ Len(s) \in Nat \ {0} /\ Head(s) = s[1]
  BY DEF Stack
<1>2. /\ Head(s) \in Labels(t) /\ Tail(s) \in Seq(Labels(t))
      /\ Len(Tail(s)) = Len(s) - 1 /\ \A i \in 1 .. Len(Tail(s)) : Tail(s)[i] = s[i + 1]
  BY <1>1
<1>3. \A i \in 1 .. Len(Tail(s)) : Tail(s)[i] \in Beneath(t, Head(s))
  BY <1>1, <1>2 DEF Stack
<1>4. Beneath(t, Head(s)) = {} => Tail(s) = <<>>
  <2> SUFFICES ASSUME Beneath(t, Head(s)) = {} PROVE Tail(s) = <<>>
    OBVIOUS
  <2>1. Len(Tail(s)) \in Nat /\ (Len(Tail(s)) # 0 => 1 \in 1 .. Len(Tail(s)))
    BY <1>1, <1>2
  <2>2. Len(Tail(s)) = 0
    BY <1>3, <2>1
  <2> QED BY <1>2, <2>2, EmptySeq
<1>5. Beneath(t, Head(s)) # {} => Stack(t, Tail(s))
  <2> SUFFICES ASSUME Beneath(t, Head(s)) # {} PROVE Stack(t, Tail(s))
    OBVIOUS
  <2>1. Len(s) # 1
    BY <1>1 DEF Stack
  <2>2. Len(Tail(s)) \in 1 .. Len(Tail(s)) /\ Len(Tail(s)) + 1 = Len(s)
    BY <1>1, <1>2, <2>1
  <2>3. Tail(s) # <<>> /\ Tail(s)[Len(Tail(s))] = s[Len(s)]
    BY <1>2, <2>2
  <2>4. ASSUME NEW i \in 1 .. Len(Tail(s)), NEW j \in 1 .. Len(Tail(s)), i < j
        PROVE  Tail(s)[j] \in Beneath(t, Tail(s)[i])
    <3>1. i + 1 \in 1 .. Len(s) /\ j + 1 \in 1 .. Len(s) /\ i + 1 < j + 1
      BY <1>1, <1>2, <2>4
    <3> QED BY <1>2, <3>1 DEF Stack
  <2> QED BY <1>2, <2>3, <2>4 DEF Stack
<1>6. ASSUME NEW L PROVE Has(s, L) <=> Head(s) \in L \/ Has(Tail(s), L)
  <2>1. ASSUME NEW i \in 1 .. Len(s), s[i] \in L PROVE Head(s) \in L \/ Has(Tail(s), L)
    <3>1. CASE i = 1
      BY <1>1, <2>1, <3>1
    <3>2. CASE i # 1
      <4>1. i - 1 \in 1 .. Len(Tail(s)) /\ Tail(s)[i - 1] = s[i]
        BY <1>1, <1>2, <3>2
      <4> QED BY <2>1, <4>1 DEF Has
    <3> QED BY <3>1, <3>2
  <2>2. Head(s) \in L => Has(s, L)
    BY <1>1 DEF Has
  <2>3. ASSUME NEW i \in 1 .. Len(Tail(s)), Tail(s)[i] \in L PROVE Has(s, L)
    <3>1. i + 1 \in 1 .. Len(s) /\ s[i + 1] \in L
      BY <1>1, <1>2, <2>3
    <3> QED BY <3>1 DEF Has
  <2> QED BY <2>1, <2>2, <2>3 DEF Has
<1>7. ASSUME NEW L, Has(Tail(s), L) PROVE Beneath(t, Head(s)) \cap L # {}
  BY <1>3, <1>7 DEF Has
<1> QED BY <1>2, <1>3, <1>4, <1>5, <1>6, <1>7

\* A call: a new label on top of a stack or of nothing.
LEMMA StackPush ==
    ASSUME NEW t, NEW a \in Labels(t), NEW r \in Seq(Labels(t)),
           Beneath(t, a) = {} => r = <<>>, Beneath(t, a) # {} => Stack(t, r),
           \A i \in 1 .. Len(r) : r[i] \in Beneath(t, a), NEW s, s = <<a>> \o r
    PROVE  /\ Stack(t, s) /\ Head(s) = a /\ Tail(s) = r
           /\ \A L : Has(s, L) <=> a \in L \/ Has(r, L)
<1>1. /\ s \in Seq(Labels(t)) /\ s # <<>> /\ Len(s) = Len(r) + 1 /\ Len(r) \in Nat /\ s[1] = a
      /\ \A i \in 1 .. Len(r) : s[i + 1] = r[i]
  OBVIOUS
<1>2. Head(s) = a
  BY <1>1
<1>3. Tail(s) = r
  BY <1>1
<1>4. ASSUME NEW i \in 1 .. Len(s), NEW j \in 1 .. Len(s), i < j PROVE s[j] \in Beneath(t, s[i])
  <2>1. j - 1 \in 1 .. Len(r) /\ s[j] = r[j - 1]
    <3>1. j - 1 \in 1 .. Len(r) /\ (j - 1) + 1 = j
      BY <1>1, <1>4
    <3> QED BY <1>1, <3>1
  <2>2. CASE i = 1
    BY <1>1, <2>1, <2>2
  <2>3. CASE i # 1
    <3>1. i - 1 \in 1 .. Len(r) /\ (i - 1) + 1 = i /\ i - 1 < j - 1
      BY <1>1, <1>4, <2>3
    <3>2. s[i] = r[i - 1]
      BY <1>1, <3>1
    <3>3. Stack(t, r)
      BY <1>1, <2>1
    <3> QED BY <2>1, <3>1, <3>2, <3>3 DEF Stack
  <2> QED BY <2>2, <2>3
<1>5. Beneath(t, s[Len(s)]) = {}
  <2>1. CASE r = <<>>
    BY <1>1, <2>1 DEF Stack
  <2>2. CASE r # <<>>
    <3>1. Stack(t, r) /\ Len(r) \in 1 .. Len(r) /\ s[Len(s)] = r[Len(r)]
      BY <1>1, <2>2
    <3> QED BY <3>1 DEF Stack
  <2> QED BY <2>1, <2>2
<1>6. Stack(t, s)
  <2>1. \A i, j \in 1 .. Len(s) : i < j => s[j] \in Beneath(t, s[i])
    BY <1>4
  <2> QED BY <1>1, <1>5, <2>1 DEF Stack
<1>7. ASSUME NEW L PROVE Has(s, L) <=> a \in L \/ Has(r, L)
  <2>1. Has(s, L) <=> Head(s) \in L \/ Has(Tail(s), L)
    BY <1>6, StackIs
  <2> QED BY <1>2, <1>3, <2>1
<1> QED BY <1>2, <1>3, <1>6, <1>7

LEMMA PairIs == ASSUME NEW S, NEW a \in S, NEW b \in S PROVE <<a, b>> = <<a>> \o <<b>>
<1>1. PICK c, d : c = <<a, b>> /\ d = <<a>> \o <<b>>
  OBVIOUS
<1>2. /\ c \in Seq(S) /\ Len(c) = 2 /\ c[1] = a /\ c[2] = b
      /\ d \in Seq(S) /\ Len(d) = 2 /\ d[1] = a /\ d[2] = b
  BY <1>1
<1>3. \A i \in 1 .. Len(c) : c[i] = d[i]
  BY <1>2
<1>4. c = d
  BY <1>2, <1>3, SeqEqual
<1> QED BY <1>1, <1>4

\* The stacks a label that does not return leaves.
LEMMA StackOfOne ==
    ASSUME NEW t, NEW a \in Labels(t), Beneath(t, a) = {}
    PROVE  Stack(t, <<a>>) /\ Head(<<a>>) = a /\ \A L : Has(<<a>>, L) <=> a \in L
<1>1. Stack(t, <<a>>) /\ Head(<<a>>) = a
  BY DEF Stack
<1>2. \A L : Has(<<a>>, L) <=> a \in L
  BY DEF Has
<1> QED BY <1>1, <1>2

LEMMA StackOfTwo ==
    ASSUME NEW t, NEW a \in Labels(t), NEW b \in Labels(t), Beneath(t, b) = {}, b \in Beneath(t, a)
    PROVE  /\ Stack(t, <<a, b>>) /\ Head(<<a, b>>) = a
           /\ \A L : Has(<<a, b>>, L) <=> a \in L \/ b \in L
<1>1. <<a, b>> = <<a>> \o <<b>> /\ <<b>> \in Seq(Labels(t))
      /\ \A i \in 1 .. Len(<<b>>) : <<b>>[i] \in Beneath(t, a)
  <2>1. <<a, b>> = <<a>> \o <<b>>
    BY PairIs
  <2>2. <<b>> \in Seq(Labels(t)) /\ Len(<<b>>) = 1 /\ <<b>>[1] = b
    OBVIOUS
  <2> QED BY <2>1, <2>2
<1>2. Stack(t, <<b>>) /\ \A L : Has(<<b>>, L) <=> b \in L
  BY StackOfOne
<1>3. /\ Stack(t, <<a, b>>) /\ Head(<<a, b>>) = a
      /\ \A L : Has(<<a, b>>, L) <=> a \in L \/ Has(<<b>>, L)
  BY <1>1, <1>2, StackPush
<1>4. \A L : Has(<<a, b>>, L) <=> a \in L \/ b \in L
  BY <1>2, <1>3
<1> QED BY <1>3, <1>4

LEMMA StackOfThree ==
    ASSUME NEW t, NEW a \in Labels(t), NEW b \in Labels(t), NEW c \in Labels(t),
           Beneath(t, c) = {}, c \in Beneath(t, b), b \in Beneath(t, a), c \in Beneath(t, a)
    PROVE  /\ Stack(t, <<a, b, c>>) /\ Head(<<a, b, c>>) = a
           /\ \A L : Has(<<a, b, c>>, L) <=> a \in L \/ b \in L \/ c \in L
<1>1. <<a, b, c>> = <<a>> \o <<b, c>> /\ <<b, c>> \in Seq(Labels(t))
      /\ \A i \in 1 .. Len(<<b, c>>) : <<b, c>>[i] \in Beneath(t, a)
  OBVIOUS
<1>2. Stack(t, <<b, c>>) /\ \A L : Has(<<b, c>>, L) <=> b \in L \/ c \in L
  BY StackOfTwo
<1>3. /\ Stack(t, <<a, b, c>>) /\ Head(<<a, b, c>>) = a
      /\ \A L : Has(<<a, b, c>>, L) <=> a \in L \/ Has(<<b, c>>, L)
  BY <1>1, <1>2, StackPush
<1>4. \A L : Has(<<a, b, c>>, L) <=> a \in L \/ b \in L \/ c \in L
  BY <1>2, <1>3
<1> QED BY <1>3, <1>4

LEMMA StackOfFour ==
    ASSUME NEW t, NEW a \in Labels(t), NEW b \in Labels(t), NEW c \in Labels(t),
           NEW d \in Labels(t), Beneath(t, d) = {}, d \in Beneath(t, c),
           c \in Beneath(t, b), d \in Beneath(t, b), {b, c, d} \subseteq Beneath(t, a)
    PROVE  /\ Stack(t, <<a, b, c, d>>) /\ Head(<<a, b, c, d>>) = a
           /\ \A L : Has(<<a, b, c, d>>, L) <=> a \in L \/ b \in L \/ c \in L \/ d \in L
<1>1. <<a, b, c, d>> = <<a>> \o <<b, c, d>> /\ <<b, c, d>> \in Seq(Labels(t))
      /\ \A i \in 1 .. Len(<<b, c, d>>) : <<b, c, d>>[i] \in Beneath(t, a)
  OBVIOUS
<1>2. Stack(t, <<b, c, d>>) /\ \A L : Has(<<b, c, d>>, L) <=> b \in L \/ c \in L \/ d \in L
  BY StackOfThree
<1>3. /\ Stack(t, <<a, b, c, d>>) /\ Head(<<a, b, c, d>>) = a
      /\ \A L : Has(<<a, b, c, d>>, L) <=> a \in L \/ Has(<<b, c, d>>, L)
  BY <1>1, <1>2, StackPush
<1>4. \A L : Has(<<a, b, c, d>>, L) <=> a \in L \/ b \in L \/ c \in L \/ d \in L
  BY <1>2, <1>3
<1> QED BY <1>3, <1>4
-----------------------------------------------------------------------------
(* How the program goes on *)

\* Thread t has gone on, and no other.
Moved(t) == /\ pc' \in [Thread -> Seq(Label)] /\ Stack(t, pc'[t])
            /\ \A u \in Thread : u # t => pc'[u] = pc[u]

LEMMA MovedIs ==
    ASSUME Typed, NEW t \in Thread, NEW s, Stack(t, s), pc' = [pc EXCEPT ![t] = s]
    PROVE  Moved(t) /\ pc'[t] = s
<1>1. s \in Seq(Label)
  <2>1. Labels(t) \subseteq Label
    BY DEF Label
  <2> QED BY <2>1 DEF Stack
<1> QED BY <1>1 DEF Moved, Typed

\* t goes on at a, under the same callers.
LEMMA GoOn ==
    ASSUME Typed, Stacked, NEW t \in Thread, NEW h, At(t, h), NEW a \in Labels(t),
           Goto(t, <<a>>), Beneath(t, a) = Beneath(t, h)
    PROVE  /\ Moved(t) /\ At(t, a)'
           /\ \A L : Has(pc'[t], L) <=> a \in L \/ Has(Tail(pc[t]), L)
<1>1. Stack(t, pc[t]) /\ Head(pc[t]) = h
  BY DEF Stacked, At
<1>2. PICK s : s = <<a>> \o Tail(pc[t])
  OBVIOUS
<1>3. Stack(t, s) /\ Head(s) = a /\ \A L : Has(s, L) <=> a \in L \/ Has(Tail(pc[t]), L)
  <2>1. PICK r : r = Tail(pc[t])
    OBVIOUS
  <2>2. /\ r \in Seq(Labels(t)) /\ \A i \in 1 .. Len(r) : r[i] \in Beneath(t, a)
        /\ Beneath(t, a) = {} => r = <<>>
        /\ Beneath(t, a) # {} => Stack(t, r)
        /\ s = <<a>> \o r
    BY <1>1, <1>2, <2>1, StackIs
  <2>3. Stack(t, s) /\ Head(s) = a /\ \A L : Has(s, L) <=> a \in L \/ Has(r, L)
    BY <2>2, StackPush
  <2> QED BY <2>1, <2>3
<1>4. pc' = [pc EXCEPT ![t] = s]
  BY <1>2 DEF Goto
<1>5. Moved(t) /\ pc'[t] = s
  BY <1>3, <1>4, MovedIs
<1> QED BY <1>3, <1>5 DEF At

\* t goes back to its caller.
LEMMA GoBack ==
    ASSUME Typed, Stacked, NEW t \in Thread, NEW h, At(t, h), Beneath(t, h) # {}, Return(t)
    PROVE  /\ Moved(t) /\ Head(pc'[t]) \in Beneath(t, h)
           /\ \A L : Has(pc'[t], L) <=> Has(Tail(pc[t]), L)
<1>1. Stack(t, pc[t]) /\ Head(pc[t]) = h
  BY DEF Stacked, At
<1>2. PICK s : s = Tail(pc[t])
  OBVIOUS
<1>3. Stack(t, s) /\ s \in Seq(Labels(t)) /\ \A i \in 1 .. Len(s) : s[i] \in Beneath(t, h)
  BY <1>1, <1>2, StackIs
<1>4. pc' = [pc EXCEPT ![t] = s]
  <2>1. <<>> \o s = s
    BY <1>3
  <2> QED BY <1>2, <2>1 DEF Return, Goto
<1>5. Moved(t) /\ pc'[t] = s
  BY <1>3, <1>4, MovedIs
<1>6. Head(s) \in Beneath(t, h)
  <2>1. s # <<>> /\ 1 \in 1 .. Len(s) /\ Head(s) = s[1]
    BY <1>3 DEF Stack
  <2> QED BY <1>3, <2>1
<1> QED BY <1>2, <1>5, <1>6

\* t calls a function that returns to b.
LEMMA GoInto ==
    ASSUME Typed, Stacked, NEW t \in Thread, NEW h, At(t, h),
           NEW a \in Labels(t), NEW b \in Labels(t), Goto(t, <<a, b>>),
           Beneath(t, b) = Beneath(t, h), b \in Beneath(t, a),
           Beneath(t, h) \subseteq Beneath(t, a)
    PROVE  /\ Moved(t) /\ At(t, a)'
           /\ \A L : Has(pc'[t], L) <=> a \in L \/ b \in L \/ Has(Tail(pc[t]), L)
<1>1. Stack(t, pc[t]) /\ Head(pc[t]) = h
  BY DEF Stacked, At
<1>2. PICK r : r = Tail(pc[t])
  OBVIOUS
<1>3. PICK q : q = <<b>> \o r
  OBVIOUS
<1>4. PICK s : s = <<a>> \o q
  OBVIOUS
<1>5. /\ r \in Seq(Labels(t)) /\ \A i \in 1 .. Len(r) : r[i] \in Beneath(t, b)
      /\ Beneath(t, b) = {} => r = <<>>
      /\ Beneath(t, b) # {} => Stack(t, r)
  BY <1>1, <1>2, StackIs
<1>6. Stack(t, q) /\ \A L : Has(q, L) <=> b \in L \/ Has(r, L)
  BY <1>3, <1>5, StackPush
<1>7. q \in Seq(Labels(t)) /\ \A i \in 1 .. Len(q) : q[i] \in Beneath(t, a)
  <2>1. q \in Seq(Labels(t)) /\ Len(q) = Len(r) + 1
        /\ \A i \in 1 .. Len(r) + 1 : q[i] = IF i = 1 THEN b ELSE r[i - 1]
    BY <1>3, <1>5, ConsIs
  <2>2. ASSUME NEW i \in 1 .. Len(q) PROVE q[i] \in Beneath(t, a)
    <3>1. i # 1 => i - 1 \in 1 .. Len(r)
      BY <1>5, <2>1
    <3> QED BY <1>5, <2>1, <3>1
  <2> QED BY <2>1, <2>2
<1>8. Stack(t, s) /\ Head(s) = a /\ \A L : Has(s, L) <=> a \in L \/ Has(q, L)
  BY <1>4, <1>6, <1>7, StackPush
<1>9. pc' = [pc EXCEPT ![t] = s]
  <2>1. <<a, b>> \o r = s
    <3>1. <<a>> \in Seq(Labels(t)) /\ <<b>> \in Seq(Labels(t)) /\ r \in Seq(Labels(t))
      BY <1>5
    <3>2. (<<a>> \o <<b>>) \o r = <<a>> \o (<<b>> \o r)
      BY <3>1, ConcatAssociative
    <3>3. <<a, b>> = <<a>> \o <<b>>
      BY PairIs
    <3> QED BY <1>3, <1>4, <3>2, <3>3
  <2> QED BY <1>2, <2>1 DEF Goto
<1>10. Moved(t) /\ pc'[t] = s
  BY <1>8, <1>9, MovedIs
<1>11. \A L : Has(s, L) <=> a \in L \/ b \in L \/ Has(r, L)
  BY <1>6, <1>8
<1> QED BY <1>2, <1>8, <1>10, <1>11 DEF At

\* t, in code that does not return, goes on with the stack s.
LEMMA GoDown ==
    ASSUME Typed, Stacked, NEW t \in Thread, NEW h, At(t, h), Beneath(t, h) = {},
           NEW s, Stack(t, s), Goto(t, s)
    PROVE  Moved(t) /\ pc'[t] = s /\ \A L : ~Has(Tail(pc[t]), L)
<1>1. Stack(t, pc[t]) /\ Head(pc[t]) = h
  BY DEF Stacked, At
<1>2. Tail(pc[t]) = <<>> /\ \A L : ~Has(Tail(pc[t]), L)
  <2>1. Tail(pc[t]) = <<>>
    BY <1>1, StackIs
  <2> QED BY <2>1 DEF Has
<1>3. s \o <<>> = s
  BY DEF Stack
<1>4. pc' = [pc EXCEPT ![t] = s]
  BY <1>2, <1>3 DEF Goto
<1> QED BY <1>2, <1>4, MovedIs
-----------------------------------------------------------------------------
(* Lists of mutexes *)

LEMMA RankIs == \A m : Rank(m) \in 1 .. 4
  BY DEF Rank

\* Different mutexes have different ranks.
LEMMA RankTells == \A m, x \in Mutex : Rank(m) = Rank(x) => m = x
  BY MutexesAssumption DEF Rank

\* Taking a mutex that comes after those in the list.
LEMMA FallingCons ==
    ASSUME NEW s \in Seq(Mutex), Falling(s), NEW m \in Mutex, \A x \in ToSet(s) : Rank(x) < Rank(m)
    PROVE  Falling(<<m>> \o s)
<1>1. PICK r : r = <<m>> \o s
  OBVIOUS
<1>2. /\ Len(r) = Len(s) + 1 /\ Len(s) \in Nat
      /\ \A j \in 1 .. Len(s) + 1 : r[j] = IF j = 1 THEN m ELSE s[j - 1]
  BY <1>1, ConsIs
<1>3. \A j \in 1 .. Len(s) : s[j] \in ToSet(s)
  <2>1. DOMAIN s = 1 .. Len(s)
    OBVIOUS
  <2> QED BY <2>1 DEF ToSet
<1>4. SUFFICES ASSUME NEW i \in 1 .. Len(s) + 1, NEW j \in 1 .. Len(s) + 1, i < j
               PROVE  Rank(r[i]) > Rank(r[j])
  BY <1>1, <1>2 DEF Falling
<1>5. j - 1 \in 1 .. Len(s) /\ r[j] = s[j - 1]
  BY <1>2, <1>4
<1>6. CASE i = 1
  <2>1. r[i] = m /\ Rank(s[j - 1]) < Rank(m)
    BY <1>2, <1>3, <1>5, <1>6
  <2> QED BY <1>5, <2>1, RankIs
<1>7. CASE i # 1
  <2>1. i - 1 \in 1 .. Len(s) /\ r[i] = s[i - 1] /\ i - 1 < j - 1
    BY <1>2, <1>4, <1>7
  <2> QED BY <1>5, <2>1 DEF Falling
<1> QED BY <1>6, <1>7

\* What is behind m in the list is what has a lower rank.
LEMMA BehindIs ==
    ASSUME NEW s \in Seq(Mutex), Falling(s), NEW m \in ToSet(s)
    PROVE  /\ HeldBefore(s, m) \in Seq(Mutex) /\ Falling(HeldBefore(s, m))
           /\ \A x : x \in ToSet(HeldBefore(s, m)) <=> x \in ToSet(s) /\ Rank(x) < Rank(m)
<1>1. DOMAIN s = 1 .. Len(s) /\ Len(s) \in Nat
  OBVIOUS
<1>2. PICK i : i = CHOOSE j \in 1 .. Len(s) : s[j] = m
  OBVIOUS
<1>3. i \in 1 .. Len(s) /\ s[i] = m
  <2>1. \E j \in 1 .. Len(s) : s[j] = m
    BY <1>1 DEF ToSet
  <2> QED BY <1>2, <2>1
<1>4. PICK r : r = SubSeq(s, i + 1, Len(s))
  OBVIOUS
<1>5. HeldBefore(s, m) = r
  <2>1. HeldBefore(s, m) = SubSeq(s, 1 + i, Len(s)) /\ 1 + i = i + 1
    BY <1>2, <1>3 DEF HeldBefore
  <2> QED BY <1>4, <2>1
<1>6. /\ r \in Seq(Mutex) /\ Len(r) = Len(s) - i /\ DOMAIN r = 1 .. Len(s) - i
      /\ \A j \in 1 .. Len(s) - i : r[j] = s[j + i]
  <2>1. /\ r \in Seq(Mutex) /\ Len(r) = Len(s) - i
        /\ \A j \in 1 .. Len(s) - i : r[j] = s[j + i]
    <3>1. i \in 1 .. Len(s)
      BY <1>3
    <3> QED BY <1>4, <3>1
  <2>2. DOMAIN r = 1 .. Len(r)
    BY <2>1
  <2> QED BY <2>1, <2>2
<1>7. Falling(r)
  <2> SUFFICES ASSUME NEW a \in 1 .. Len(s) - i, NEW b \in 1 .. Len(s) - i, a < b
               PROVE  Rank(r[a]) > Rank(r[b])
    BY <1>6 DEF Falling
  <2>1. a + i \in 1 .. Len(s) /\ b + i \in 1 .. Len(s) /\ a + i < b + i
    BY <1>1, <1>3
  <2> QED BY <1>6, <2>1 DEF Falling
<1>8. ASSUME NEW x \in ToSet(r) PROVE x \in ToSet(s) /\ Rank(x) < Rank(m)
  <2>1. PICK j \in 1 .. Len(s) - i : x = r[j]
    BY <1>6 DEF ToSet
  <2>2. j + i \in 1 .. Len(s) /\ i < j + i /\ x = s[j + i]
    BY <1>1, <1>3, <1>6, <2>1
  <2>3. Rank(s[i]) > Rank(s[j + i])
    BY <1>3, <2>2 DEF Falling
  <2> QED BY <1>1, <1>3, <2>2, <2>3, RankIs DEF ToSet
<1>9. ASSUME NEW x \in ToSet(s), Rank(x) < Rank(m) PROVE x \in ToSet(r)
  <2>1. PICK j \in 1 .. Len(s) : x = s[j]
    BY <1>1 DEF ToSet
  <2>2. j > i
    <3>1. j < i => Rank(s[j]) > Rank(s[i])
      BY <1>3 DEF Falling
    <3>2. j # i /\ ~(j < i)
      BY <1>3, <1>9, <2>1, <3>1, RankIs
    <3> QED BY <1>3, <3>2
  <2>3. j - i \in 1 .. Len(s) - i /\ (j - i) + i = j
    BY <1>1, <1>3, <2>2
  <2>4. r[j - i] = x
    BY <1>6, <2>1, <2>3
  <2> QED BY <1>6, <2>3, <2>4 DEF ToSet
<1> QED BY <1>5, <1>6, <1>7, <1>8, <1>9
-----------------------------------------------------------------------------
(* Threads and mutexes *)

LEMMA PriosAre == Prios \in SUBSET Nat /\ Prios \in SUBSET Int
  BY DEF Prios, IdlePrio, HighPrio

LEMMA KernelIs ==
    ASSUME Typed
    PROVE  /\ k.cur \in Thread /\ k.st[k.cur] = "CURRENT" /\ k.held \in [Thread -> Seq(Mutex)]
           /\ k.own \in [Mutex -> Thread \cup {NoThread}] /\ k.wq \in [Mutex -> Seq(Thread)]
           /\ k.st \in [Thread -> States]
           /\ \A m \in Mutex : k.cur \notin ToSet(k.wq[m])
           /\ \A t \in Thread, m \in Mutex : t \in ToSet(k.wq[m]) => k.st[t] = "WTMTX"
           /\ \A t \in Thread, m, x \in Mutex :
                  t \in ToSet(k.wq[m]) /\ t \in ToSet(k.wq[x]) => m = x
<1>1. k \in KernelType(Prios) /\ Settled(k, {})
  BY DEF Typed
<1>2. /\ k.cur \in Thread /\ k.held \in [Thread -> Seq(Mutex)]
      /\ k.own \in [Mutex -> Thread \cup {NoThread}] /\ k.wq \in [Mutex -> Seq(Thread)]
      /\ k.st \in [Thread -> States]
  BY <1>1, KernelFields
<1>3. \A t \in Thread : InPlace(k, t)
  BY <1>1 DEF Settled
<1>4. /\ k.st[k.cur] = "CURRENT" /\ \A m \in Mutex : k.cur \notin ToSet(k.wq[m])
      /\ \A t \in Thread, m \in Mutex : t \in ToSet(k.wq[m]) => k.st[t] = "WTMTX"
  BY <1>2, <1>3 DEF InPlace
<1> QED BY <1>1, <1>2, <1>4 DEF Settled

\* While another thread runs, idle is ready.
LEMMA IdleReady == ASSUME Typed, k.cur # "idle" PROVE k.ready # <<>>
<1>1. InPlace(k, "idle") /\ "idle" \in Thread /\ k.st["idle"] \in {"CURRENT", "READY"}
  BY ThreadsAssumption DEF Typed, Settled, Able
<1>2. "idle" \in ToSet(k.ready)
  BY <1>1 DEF InPlace
<1> QED BY <1>2 DEF ToSet
-----------------------------------------------------------------------------
(* What locks, unlocks and other steps do to the invariant *)

\* The lists and queues are as they were; a mutex nobody holds may lose its owner.
Calm == /\ k' \in KernelType(Prios) /\ Settled(k', {}) /\ Able(k', "idle")
        /\ k'.held = k.held /\ k'.wq = k.wq
        /\ \A m \in Mutex : \/ k'.own[m] = k.own[m]
                            \/ k'.own[m] = NoThread /\ \A t \in Thread : ~Holds(t, m)

\* No thread but the running one has moved.
Placid == /\ pc' \in [Thread -> Seq(Label)] /\ \A u \in Thread : Stack(u, pc'[u])
          /\ \A u \in Thread : u # k.cur => pc'[u] = pc[u]
          /\ faults' \in 0 .. MaxFaults /\ faults' >= faults

\* The serial thread has not left the place it leaks a mutex at.
Stays == \A u \in Thread : At(u, "c_unlock") => At(u, "c_unlock")'

\* Steps that neither lock nor unlock: a thread needs what it needed, or leaves
\* the mutex of mpu.c behind.
LEMMA CalmKeeps ==
    ASSUME Locking, Calm, Placid, Stays,
           \A u \in Thread : \/ Needs(pc'[u]) = Needs(pc[u])
                            \/ (Needs(pc'[u]) = Needs(pc[u]) \ {"acc"} /\ Leaks(u)')
    PROVE  Locking'
<1>1. Typed' /\ Stacked'
  BY DEF Calm, Placid, Typed, Stacked
<1>2. \A t \in Thread, m \in Mutex : (Waits(t, m)' <=> Waits(t, m)) /\ (Holds(t, m)' <=> Holds(t, m))
  BY DEF Calm, Waits, Holds
<1>3. Asked'
  <2> SUFFICES ASSUME NEW t \in Thread, NEW m \in Mutex, Waits(t, m)
               PROVE  Head(pc'[t]) \in Behind(m)
    BY <1>2 DEF Asked
  <2>1. t # k.cur
    BY KernelIs DEF Locking, Waits
  <2> QED BY <2>1 DEF Locking, Asked, Placid
<1>4. Owned'
  <2> SUFFICES ASSUME NEW t \in Thread, NEW m \in Needs(pc'[t]) PROVE Waits(t, m) \/ Holds(t, m)
    <3>1. \A t \in Thread : \A m \in Needs(pc'[t]) : m \in Mutex
      BY DEF Needs
    <3> QED BY <1>2, <3>1 DEF Owned
  <2>1. m \in Needs(pc[t])
    OBVIOUS
  <2> QED BY <2>1 DEF Locking, Owned
<1>5. Listed'
  BY <1>2 DEF Locking, Listed, Calm
<1>6. Spare'
  <2> SUFFICES ASSUME NEW t \in Thread, NEW m \in Mutex, Holds(t, m)
               PROVE  m \in Needs(pc'[t]) \/ (m = "acc" /\ Leaks(t)')
    BY <1>2 DEF Spare
  <2>1. m \in Needs(pc[t]) \/ (m = "acc" /\ Leaks(t))
    BY DEF Locking, Spare
  <2>2. Leaks(t) => Leaks(t)'
    BY DEF Leaks, Placid, Stays, Locking, Typed
  <2> QED BY <2>1, <2>2
<1>7. Sound'
  <2>1. faults' = 0 => faults = 0
    BY DEF Placid, Locking, Typed
  <2>2. \A t \in Thread, m \in Mutex : k'.own[m] = t => k.own[m] = t
    BY NoThreadAssumption DEF Calm
  <2> QED BY <1>2, <2>1, <2>2 DEF Locking, Sound
<1> QED BY <1>1, <1>3, <1>4, <1>5, <1>6, <1>7 DEF Locking

\* What a thread holds when it asks for m ranks lower.
LEMMA HeldLower ==
    ASSUME Locking, NEW t \in Thread, NEW m \in Mutex, ~Holds(t, m),
           \A x \in Needs(pc[t]) : Rank(x) < Rank(m) \/ x = m,
           ~At(t, "c_unlock"), t = "main" => m # "ser"
    PROVE  \A x \in ToSet(k.held[t]) : Rank(x) < Rank(m)
<1> SUFFICES ASSUME NEW x \in ToSet(k.held[t]) PROVE Rank(x) < Rank(m)
  OBVIOUS
<1>1. x \in Mutex /\ Holds(t, x)
  BY KernelIs DEF Locking, Holds, ToSet
<1>2. x # m
  BY <1>1
<1>3. CASE x \in Needs(pc[t])
  BY <1>2, <1>3
<1>4. CASE x \notin Needs(pc[t])
  <2>1. x = "acc" /\ t = "main"
    BY <1>1, <1>4 DEF Locking, Spare, Leaks
  <2> QED BY <1>2, <2>1, MutexesAssumption DEF Rank
<1> QED BY <1>3, <1>4

\* The thread that runs asks for m, is behind it in its code, and holds the mutexes
\* of lower rank that its callers need.
Locks(m) ==
    /\ k' = Lock(k, m) /\ Placid /\ Stays /\ faults' = faults /\ k.cur # "idle"
    /\ Head(pc'[k.cur]) \in Behind(m) /\ Needs(pc'[k.cur]) = Needs(pc[k.cur]) \cup {m}
    /\ \A x \in Needs(pc[k.cur]) : Rank(x) < Rank(m)
    /\ ~At(k.cur, "c_unlock") /\ (k.cur = "main" => m # "ser")

LEMMA LockFreeKeeps ==
    ASSUME Locking, NEW m \in Mutex, Locks(m), k.own[m] = NoThread
    PROVE  Locking'
<1>0. PICK t : t = k.cur
  OBVIOUS
<1>1. /\ t \in Thread /\ k.held \in [Thread -> Seq(Mutex)]
      /\ k.own \in [Mutex -> Thread \cup {NoThread}] /\ \A x \in Mutex : ~Waits(t, x)
  BY <1>0, KernelIs DEF Locking, Waits
<1>2. /\ k' \in KernelType(Prios) /\ Settled(k', {})
      /\ k'.st = k.st /\ k'.wq = k.wq /\ k'.own = [k.own EXCEPT ![m] = t]
      /\ k'.held = [k.held EXCEPT ![t] = <<m>> \o @]
  <2>1. k \in KernelType(Prios) /\ Settled(k, {}) /\ k' = Lock(k, m)
    BY DEF Locks, Locking, Typed
  <2>2. /\ k' \in KernelType(Prios) /\ Settled(k', {})
        /\ k'.st = k.st /\ k'.wq = k.wq /\ k'.own = [k.own EXCEPT ![m] = k.cur]
        /\ k'.held = [k.held EXCEPT ![k.cur] = <<m>> \o @]
    <3>1. Prios \in SUBSET Int /\ k.own[m] = NoThread
      BY PriosAre
    <3>2. PICK r : r = k'
      OBVIOUS
    <3>3. r = Lock(k, m)
      BY <2>1, <3>2
    <3>4. /\ r \in KernelType(Prios) /\ Settled(r, {})
          /\ r.st = k.st /\ r.wq = k.wq /\ r.own = [k.own EXCEPT ![m] = k.cur]
          /\ r.held = [k.held EXCEPT ![k.cur] = <<m>> \o @]
      BY <2>1, <3>1, <3>3, LockFreeIs
    <3> QED BY <3>2, <3>4
  <2> QED BY <1>0, <2>2
<1>3. \A u \in Thread : ~Holds(u, m)
  BY NoThreadAssumption DEF Locking, Listed
<1>4. k.held[t] \in Seq(Mutex) /\ Falling(k.held[t]) /\ \A x \in ToSet(k.held[t]) : Rank(x) < Rank(m)
  <2>1. \A x \in ToSet(k.held[t]) : Rank(x) < Rank(m)
    BY <1>0, <1>1, <1>3, HeldLower DEF Locks
  <2> QED BY <1>1, <2>1 DEF Locking, Listed
<1>5. ToSet(<<m>> \o k.held[t]) = ToSet(k.held[t]) \cup {m} /\ Falling(<<m>> \o k.held[t])
  BY <1>4, ConsIs, FallingCons
<1>6. /\ k'.held[t] = <<m>> \o k.held[t] /\ \A u \in Thread \ {t} : k'.held[u] = k.held[u]
      /\ k'.own[m] = t /\ \A x \in Mutex \ {m} : k'.own[x] = k.own[x]
  BY <1>1, <1>2
<1>7. /\ \A u \in Thread, x \in Mutex : Waits(u, x)' <=> Waits(u, x)
      /\ \A u \in Thread, x \in Mutex : Holds(u, x)' <=> Holds(u, x) \/ (u = t /\ x = m)
  <2>1. \A u \in Thread, x \in Mutex : Waits(u, x)' <=> Waits(u, x)
    BY <1>2 DEF Waits
  <2>2. ASSUME NEW u \in Thread, NEW x \in Mutex
        PROVE  Holds(u, x)' <=> Holds(u, x) \/ (u = t /\ x = m)
    BY <1>5, <1>6 DEF Holds
  <2> QED BY <2>1, <2>2
<1>8. /\ \A u \in Thread \ {t} : pc'[u] = pc[u]
      /\ Needs(pc'[t]) = Needs(pc[t]) \cup {m}
  BY <1>0 DEF Locks, Placid
<1>9. Typed' /\ Stacked'
  BY <1>2 DEF Locks, Placid, Locking, Typed, Stacked, Able
<1>10. Asked'
  BY <1>1, <1>7, <1>8 DEF Locking, Asked
<1>11. Owned'
  <2> SUFFICES ASSUME NEW u \in Thread, NEW x \in Needs(pc'[u]) PROVE Waits(u, x)' \/ Holds(u, x)'
    BY DEF Owned
  <2>1. x \in Mutex
    BY DEF Needs
  <2>2. (u = t /\ x = m) \/ x \in Needs(pc[u])
    BY <1>8
  <2> QED BY <1>7, <2>1, <2>2 DEF Locking, Owned
<1>12. Listed'
  <2>1. ASSUME NEW u \in Thread, NEW x \in Mutex, Holds(u, x)' PROVE k'.own[x] = u
    BY <1>3, <1>6, <1>7, <2>1 DEF Locking, Listed
  <2>2. \A u \in Thread : Falling(k'.held[u])
    BY <1>5, <1>6 DEF Locking, Listed
  <2> QED BY <2>1, <2>2 DEF Listed
<1>13. Spare'
  <2> SUFFICES ASSUME NEW u \in Thread, NEW x \in Mutex, Holds(u, x)'
               PROVE  x \in Needs(pc'[u]) \/ (x = "acc" /\ Leaks(u)')
    BY DEF Spare
  <2>1. (u = t /\ x = m) \/ x \in Needs(pc[u]) \/ (x = "acc" /\ Leaks(u))
    BY <1>7 DEF Locking, Spare
  <2>2. Leaks(u) => Leaks(u)'
    BY DEF Leaks, Locks, Stays
  <2> QED BY <1>8, <2>1, <2>2
<1>14. Sound'
  <2> SUFFICES ASSUME faults = 0, NEW u \in Thread, NEW x \in Mutex, k'.own[x] = u
               PROVE  Holds(u, x)' /\ ~Waits(u, x)'
    BY DEF Sound, Locks
  <2> QED BY <1>1, <1>6, <1>7 DEF Locking, Sound
<1> QED BY <1>9, <1>10, <1>11, <1>12, <1>13, <1>14 DEF Locking

LEMMA LockWaitKeeps ==
    ASSUME Locking, NEW m \in Mutex, Locks(m), k.own[m] # NoThread
    PROVE  Locking'
<1>0. PICK t, B : t = k.cur /\ B = Boosted(k, m, k.prio[k.cur])
  OBVIOUS
<1>1. t \in Thread /\ t # "idle" /\ \A x \in Mutex : ~Waits(t, x)
  BY <1>0, KernelIs DEF Locking, Waits, Locks
<1>2. GoneToWait(Prios, k, m, B, k')
  <2>1. /\ k \in KernelType(Prios) /\ Settled(k, {}) /\ k' = Lock(k, m)
        /\ k.ready # <<>>
    BY IdleReady DEF Locks, Locking, Typed
  <2> QED BY <1>0, <2>1, PriosAre, LockWaitIs
<1>3. /\ k' \in KernelType(Prios) /\ Settled(k', {})
      /\ k'.held = k.held /\ k'.own = k.own
      /\ \A u \in Thread \ {t} : Able(k', u) <=> Able(k, u)
      /\ \A x \in Mutex :
           ToSet(k'.wq[x]) = IF x = m THEN ToSet(k.wq[x]) \cup {t} ELSE ToSet(k.wq[x])
  BY <1>0, <1>2 DEF GoneToWait
<1>4. /\ \A u \in Thread, x \in Mutex : Waits(u, x)' <=> Waits(u, x) \/ (u = t /\ x = m)
      /\ \A u \in Thread, x \in Mutex : Holds(u, x)' <=> Holds(u, x)
  BY <1>3 DEF Waits, Holds
<1>5. /\ \A u \in Thread \ {t} : pc'[u] = pc[u]
      /\ Needs(pc'[t]) = Needs(pc[t]) \cup {m} /\ Head(pc'[t]) \in Behind(m)
  BY <1>0 DEF Locks, Placid
<1>6. Typed' /\ Stacked'
  <2>1. Able(k', "idle")
    BY <1>1, <1>3, ThreadsAssumption DEF Locking, Typed
  <2> QED BY <1>3, <2>1 DEF Locks, Placid, Typed, Stacked
<1>7. Asked'
  BY <1>1, <1>4, <1>5 DEF Locking, Asked
<1>8. Owned'
  <2> SUFFICES ASSUME NEW u \in Thread, NEW x \in Needs(pc'[u]) PROVE Waits(u, x)' \/ Holds(u, x)'
    BY DEF Owned
  <2>1. x \in Mutex
    BY DEF Needs
  <2>2. (u = t /\ x = m) \/ x \in Needs(pc[u])
    BY <1>5
  <2> QED BY <1>4, <2>1, <2>2 DEF Locking, Owned
<1>9. Listed'
  BY <1>3, <1>4 DEF Locking, Listed
<1>10. Spare'
  <2> SUFFICES ASSUME NEW u \in Thread, NEW x \in Mutex, Holds(u, x)
               PROVE  x \in Needs(pc'[u]) \/ (x = "acc" /\ Leaks(u)')
    BY <1>4 DEF Spare
  <2>1. x \in Needs(pc[u]) \/ (x = "acc" /\ Leaks(u))
    BY DEF Locking, Spare
  <2>2. Leaks(u) => Leaks(u)'
    BY DEF Leaks, Locks, Stays
  <2> QED BY <1>5, <2>1, <2>2
<1>11. Sound'
  <2>1. faults = 0 => k.own[m] # t
    <3>1. SUFFICES ASSUME faults = 0, k.own[m] = t PROVE FALSE
      OBVIOUS
    <3>2. m \in Needs(pc[t])
      BY <1>1, <3>1 DEF Locking, Sound, Spare, Leaks
    <3>3. Rank(m) < Rank(m)
      BY <1>0, <3>2 DEF Locks
    <3> QED BY <3>3, RankIs
  <2> QED BY <1>3, <1>4, <2>1 DEF Locking, Sound, Locks
<1> QED BY <1>6, <1>7, <1>8, <1>9, <1>10, <1>11 DEF Locking

\* A thread that waits for m holds mutexes of lower rank only.
LEMMA WaiterLower ==
    ASSUME Locking, NEW u \in Thread, NEW m \in Mutex, Waits(u, m), ~Holds(u, m)
    PROVE  \A x \in ToSet(k.held[u]) : Rank(x) < Rank(m)
<1>1. Stack(u, pc[u]) /\ Head(pc[u]) \in Behind(m)
  BY DEF Locking, Stacked, Asked
<1>2. PICK l : l = Head(pc[u])
  OBVIOUS
<1>3. l \in Behind(m) /\ l \in Labels(u)
  BY <1>1, <1>2, StackIs
<1>4. ASSUME NEW x \in Needs(pc[u]) PROVE Rank(x) < Rank(m) \/ x = m
  <2>1. x \in Mutex /\ (l \in Under(x) \/ Beneath(u, l) \cap Under(x) # {})
    BY <1>1, <1>2, StackIs DEF Needs
  <2> QED BY <1>3, <2>1, MutexesAssumption
          DEF Behind, Under, Beneath, Printing, Driving, Ranging, Rank
<1>5. ~At(u, "c_unlock") /\ (u = "main" => m # "ser")
  BY <1>2, <1>3 DEF At, Behind, Labels, Printing, Driving, Ranging
<1> QED BY <1>4, <1>5, HeldLower

\* The thread that runs gives back m, the last it has taken.
Unlocks(m) ==
    /\ k' = Unlock(k, m) /\ Placid /\ faults' = faults
    /\ m \in Needs(pc[k.cur]) /\ Needs(pc'[k.cur]) = Needs(pc[k.cur]) \ {m}
    /\ \A x \in Needs(pc[k.cur]) \ {m} : Rank(x) < Rank(m)
    /\ At(k.cur, "c_unlock") => m = "ser"

\* What it holds then.
LEMMA UnlockLeaves ==
    ASSUME Locking, NEW m \in Mutex, Unlocks(m), NEW t, t = k.cur,
           NEW s, s = HeldBefore(k.held[t], m)
    PROVE  /\ t \in Thread /\ Holds(t, m) /\ k.own[m] = t /\ s \in Seq(Mutex) /\ Falling(s)
           /\ \A x \in Mutex : x \in ToSet(s) <=> Holds(t, x) /\ Rank(x) < Rank(m)
           /\ \A x \in Needs(pc'[t]) : x \in ToSet(s)
           /\ \A x \in Mutex : x \in ToSet(s) =>
                  x \in Needs(pc'[t]) \/ (x = "acc" /\ Leaks(t)')
           /\ faults = 0 => \A x \in Mutex : Holds(t, x) => x = m \/ x \in ToSet(s)
<1>1. t \in Thread /\ k.held[t] \in Seq(Mutex) /\ \A x \in Mutex : ~Waits(t, x)
  BY KernelIs DEF Locking, Waits
<1>2. \A x \in Needs(pc[t]) : Holds(t, x) /\ x \in Mutex
  BY <1>1 DEF Locking, Owned, Needs
<1>3. Holds(t, m) /\ k.own[m] = t
  BY <1>1, <1>2 DEF Unlocks, Locking, Listed
<1>4. /\ s \in Seq(Mutex) /\ Falling(s)
      /\ \A x : x \in ToSet(s) <=> x \in ToSet(k.held[t]) /\ Rank(x) < Rank(m)
  <2>1. Falling(k.held[t]) /\ m \in ToSet(k.held[t])
    BY <1>1, <1>3 DEF Locking, Listed, Holds
  <2> QED BY <1>1, <2>1, BehindIs
<1>5. \A x \in Mutex : x \in ToSet(s) <=> Holds(t, x) /\ Rank(x) < Rank(m)
  BY <1>4 DEF Holds
<1>6. \A x \in Needs(pc'[t]) : x \in ToSet(s)
  <2>1. \A x \in Needs(pc'[t]) : x \in Needs(pc[t]) /\ Rank(x) < Rank(m)
    BY DEF Unlocks
  <2> QED BY <1>2, <1>5, <2>1
<1>7. ASSUME NEW x \in Mutex, x \in ToSet(s)
      PROVE  x \in Needs(pc'[t]) \/ (x = "acc" /\ Leaks(t)')
  <2>1. Holds(t, x) /\ Rank(x) < Rank(m)
    BY <1>5, <1>7
  <2>2. CASE x \in Needs(pc[t])
    <3>1. x # m
      BY <2>1, RankIs
    <3> QED BY <2>2, <3>1 DEF Unlocks
  <2>3. CASE x = "acc" /\ Leaks(t)
    <3>1. ~At(t, "c_unlock")
      BY <2>1, <2>3 DEF Unlocks, Rank
    <3>2. t = "main" /\ faults' > 0
      BY <2>3, <3>1 DEF Leaks, Unlocks
    <3> QED BY <2>3, <3>2 DEF Leaks
  <2> QED BY <1>1, <2>1, <2>2, <2>3 DEF Locking, Spare
<1>8. ASSUME faults = 0, NEW x \in Mutex, Holds(t, x) PROVE x = m \/ x \in ToSet(s)
  <2>1. x \in Needs(pc[t])
    BY <1>1, <1>8 DEF Locking, Spare, Leaks
  <2> QED BY <1>5, <1>8, <2>1 DEF Unlocks
<1> QED BY <1>1, <1>3, <1>4, <1>5, <1>6, <1>7, <1>8

LEMMA UnlockFreeKeeps ==
    ASSUME Locking, NEW m \in Mutex, Unlocks(m), k.wq[m] = <<>>
    PROVE  Locking'
<1>0. PICK t, s : t = k.cur /\ s = HeldBefore(k.held[t], m)
  OBVIOUS
<1>1. /\ t \in Thread /\ Holds(t, m) /\ k.own[m] = t /\ s \in Seq(Mutex) /\ Falling(s)
      /\ \A x \in Mutex : x \in ToSet(s) <=> Holds(t, x) /\ Rank(x) < Rank(m)
      /\ \A x \in Needs(pc'[t]) : x \in ToSet(s)
      /\ \A x \in Mutex : x \in ToSet(s) =>
             x \in Needs(pc'[t]) \/ (x = "acc" /\ Leaks(t)')
      /\ faults = 0 => \A x \in Mutex : Holds(t, x) => x = m \/ x \in ToSet(s)
  BY <1>0, UnlockLeaves
<1>2. k.held \in [Thread -> Seq(Mutex)] /\ k.own \in [Mutex -> Thread \cup {NoThread}]
      /\ \A x \in Mutex : ~Waits(t, x)
  BY <1>0, KernelIs DEF Locking, Waits
<1>3. /\ k' \in KernelType(Prios) /\ Settled(k', {})
      /\ k'.st = k.st /\ k'.wq = k.wq /\ k'.own = [k.own EXCEPT ![m] = NoThread]
      /\ k'.held = [k.held EXCEPT ![t] = s]
  <2>1. /\ k \in KernelType(Prios) /\ Settled(k, {}) /\ k' = Unlock(k, m)
        /\ m \in ToSet(k.held[k.cur]) /\ k.wq[m] = <<>>
    BY <1>0, <1>1 DEF Unlocks, Locking, Typed, Holds
  <2>2. /\ k' \in KernelType(Prios) /\ Settled(k', {})
        /\ k'.st = k.st /\ k'.wq = k.wq /\ k'.own = [k.own EXCEPT ![m] = NoThread]
        /\ k'.held = [k.held EXCEPT ![k.cur] = HeldBefore(@, m)]
    BY <2>1, PriosAre, UnlockFreeIs
  <2> QED BY <1>0, <2>2
<1>4. /\ k'.held[t] = s /\ \A u \in Thread \ {t} : k'.held[u] = k.held[u]
      /\ k'.own[m] = NoThread /\ \A x \in Mutex \ {m} : k'.own[x] = k.own[x]
  BY <1>1, <1>2, <1>3
<1>5. /\ \A u \in Thread, x \in Mutex : Waits(u, x)' <=> Waits(u, x)
      /\ \A u \in Thread \ {t}, x \in Mutex : Holds(u, x)' <=> Holds(u, x)
      /\ \A x \in Mutex : Holds(t, x)' <=> x \in ToSet(s)
  BY <1>3, <1>4 DEF Waits, Holds
<1>6. \A u \in Thread \ {t} : pc'[u] = pc[u]
  BY <1>0 DEF Unlocks, Placid
<1>7. Typed' /\ Stacked'
  BY <1>3 DEF Unlocks, Placid, Locking, Typed, Stacked, Able
<1>8. Asked'
  BY <1>2, <1>5, <1>6 DEF Locking, Asked
<1>9. Owned'
  <2> SUFFICES ASSUME NEW u \in Thread, NEW x \in Needs(pc'[u]) PROVE Waits(u, x)' \/ Holds(u, x)'
    BY DEF Owned
  <2>1. x \in Mutex
    BY DEF Needs
  <2>2. CASE u = t
    BY <1>1, <1>5, <2>1, <2>2
  <2>3. CASE u # t
    BY <1>5, <1>6, <2>1, <2>3 DEF Locking, Owned
  <2> QED BY <2>2, <2>3
<1>10. Listed'
  <2>1. ASSUME NEW u \in Thread, NEW x \in Mutex, Holds(u, x)' PROVE k'.own[x] = u
    <3>1. Holds(u, x)
      BY <1>1, <1>5, <2>1
    <3>2. x # m
      BY <1>1, <1>5, <2>1, <3>1, RankIs DEF Locking, Listed
    <3> QED BY <1>4, <3>1, <3>2 DEF Locking, Listed
  <2>2. \A u \in Thread : Falling(k'.held[u])
    BY <1>1, <1>4 DEF Locking, Listed
  <2> QED BY <2>1, <2>2 DEF Listed
<1>11. Spare'
  <2> SUFFICES ASSUME NEW u \in Thread, NEW x \in Mutex, Holds(u, x)'
               PROVE  x \in Needs(pc'[u]) \/ (x = "acc" /\ Leaks(u)')
    BY DEF Spare
  <2>1. CASE u = t
    BY <1>1, <1>5, <2>1
  <2>2. CASE u # t
    <3>1. x \in Needs(pc[u]) \/ (x = "acc" /\ Leaks(u))
      BY <1>5, <2>2 DEF Locking, Spare
    <3>2. Leaks(u) => Leaks(u)'
      BY <1>6, <2>2 DEF Leaks, Unlocks, At
    <3> QED BY <1>6, <2>2, <3>1, <3>2
  <2> QED BY <2>1, <2>2
<1>12. Sound'
  <2> SUFFICES ASSUME faults = 0, NEW u \in Thread, NEW x \in Mutex, k'.own[x] = u
               PROVE  Holds(u, x)' /\ ~Waits(u, x)'
    BY DEF Sound, Unlocks
  <2>1. x # m /\ k.own[x] = u
    BY <1>4, NoThreadAssumption
  <2>2. Holds(u, x) /\ ~Waits(u, x)
    BY <2>1 DEF Locking, Sound
  <2> QED BY <1>1, <1>5, <2>1, <2>2
<1> QED BY <1>7, <1>8, <1>9, <1>10, <1>11, <1>12 DEF Locking

\* The first waiter has m then, and all it needs.
LEMMA UnlockHandKeeps ==
    ASSUME Locking, NEW m \in Mutex, Unlocks(m), k.wq[m] # <<>>
    PROVE  Locking'
<1>0. PICK t, s, u : t = k.cur /\ s = HeldBefore(k.held[t], m) /\ u = Head(k.wq[m])
  OBVIOUS
<1>1. /\ t \in Thread /\ Holds(t, m) /\ k.own[m] = t /\ s \in Seq(Mutex) /\ Falling(s)
      /\ \A x \in Mutex : x \in ToSet(s) <=> Holds(t, x) /\ Rank(x) < Rank(m)
      /\ \A x \in Needs(pc'[t]) : x \in ToSet(s)
      /\ \A x \in Mutex : x \in ToSet(s) =>
             x \in Needs(pc'[t]) \/ (x = "acc" /\ Leaks(t)')
      /\ faults = 0 => \A x \in Mutex : Holds(t, x) => x = m \/ x \in ToSet(s)
  BY <1>0, UnlockLeaves
<1>2. /\ k.held \in [Thread -> Seq(Mutex)] /\ k.own \in [Mutex -> Thread \cup {NoThread}]
      /\ k.wq \in [Mutex -> Seq(Thread)]
      /\ \A x \in Mutex : ~Waits(t, x)
      /\ \A v \in Thread, x, y \in Mutex : Waits(v, x) /\ Waits(v, y) => x = y
  BY <1>0, KernelIs DEF Locking, Waits
<1>3. PICK p : p = NewPrio(k, k.cur, ToSet(HeldBefore(k.held[k.cur], m)))
  OBVIOUS
<1>4. HandedOver(Prios, k, m, u, p, k')
  <2>1. /\ k \in KernelType(Prios) /\ Settled(k, {}) /\ k' = Unlock(k, m)
        /\ m \in ToSet(k.held[k.cur]) /\ k.wq[m] # <<>>
    BY <1>0, <1>1 DEF Unlocks, Locking, Typed, Holds
  <2>2. p \in Prios
    <3>1. k.real \in [Thread -> Prios] /\ k.prio \in [Thread -> Prios] /\ k.cur \in Thread
          /\ \A x \in Mutex : k.wq[x] # <<>> => Head(k.wq[x]) \in Thread
      BY <1>2, <2>1, KernelFields
    <3>2. ToSet(HeldBefore(k.held[k.cur], m)) \in SUBSET Mutex
      BY <1>0, <1>1 DEF ToSet
    <3>3. HighPrio \in Nat /\ \A x \in Prios : x <= HighPrio
      BY DEF Prios, HighPrio, IdlePrio
    <3>4. /\ k.real[k.cur] <= HighPrio
          /\ \A x \in ToSet(HeldBefore(k.held[k.cur], m)) :
                k.wq[x] # <<>> => k.prio[Head(k.wq[x])] <= HighPrio
      BY <3>1, <3>2, <3>3
    <3> QED BY <1>3, <2>1, <3>1, <3>2, <3>3, <3>4, PriosAre, NewPrioIs
  <2> QED BY <1>0, <1>3, <2>1, <2>2, PriosAre, UnlockHandIs
<1>5. /\ k' \in KernelType(Prios) /\ Settled(k', {}) /\ u \in Thread /\ u # t
      /\ k'.own = [k.own EXCEPT ![m] = u]
      /\ k'.held = [k.held EXCEPT ![t] = s, ![u] = <<m>> \o @]
      /\ k'.wq = [k.wq EXCEPT ![m] = Tail(@)] /\ Able(k', u)
      /\ \A v \in Thread \ {u} : Able(k', v) <=> Able(k, v)
  BY <1>0, <1>4 DEF HandedOver
<1>6. Waits(u, m) /\ ~Holds(u, m) /\ \A v \in Thread : Waits(v, m) => v = u \/ v \in ToSet(Tail(k.wq[m]))
  <2>1. IsInjective(k.wq[m]) /\ k.wq[m] \in Seq(Thread)
    BY <1>2 DEF Locking, Typed, Settled
  <2>2. ToSet(k.wq[m]) = ToSet(Tail(k.wq[m])) \cup {u}
    BY <1>0, <2>1, HeadTail
  <2> QED BY <1>1, <1>5, <2>2 DEF Waits, Locking, Listed
<1>7. /\ \A v \in Thread, x \in Mutex : Waits(v, x)' => Waits(v, x)
      /\ \A v \in Thread, x \in Mutex : Waits(v, x) => Waits(v, x)' \/ (v = u /\ x = m)
  <2>1. /\ k'.wq[m] = Tail(k.wq[m]) /\ \A x \in Mutex \ {m} : k'.wq[x] = k.wq[x]
        /\ ToSet(Tail(k.wq[m])) \subseteq ToSet(k.wq[m])
    <3>1. IsInjective(k.wq[m]) /\ k.wq[m] \in Seq(Thread)
      BY <1>2 DEF Locking, Typed, Settled
    <3>2. ToSet(k.wq[m]) = ToSet(Tail(k.wq[m])) \cup {u}
      BY <1>0, <3>1, HeadTail
    <3> QED BY <1>2, <1>5, <3>2
  <2> QED BY <1>6, <2>1 DEF Waits
<1>8. /\ k'.held[t] = s /\ k'.held[u] = <<m>> \o k.held[u]
      /\ \A v \in Thread \ {t, u} : k'.held[v] = k.held[v]
      /\ k'.own[m] = u /\ \A x \in Mutex \ {m} : k'.own[x] = k.own[x]
  BY <1>1, <1>2, <1>5
<1>9. ToSet(<<m>> \o k.held[u]) = ToSet(k.held[u]) \cup {m} /\ Falling(<<m>> \o k.held[u])
  <2>1. k.held[u] \in Seq(Mutex) /\ Falling(k.held[u])
        /\ \A x \in ToSet(k.held[u]) : Rank(x) < Rank(m)
    BY <1>2, <1>5, <1>6, WaiterLower DEF Locking, Listed
  <2> QED BY <2>1, ConsIs, FallingCons
<1>10. /\ \A v \in Thread \ {t}, x \in Mutex : Holds(v, x)' <=> Holds(v, x) \/ (v = u /\ x = m)
       /\ \A x \in Mutex : Holds(t, x)' <=> x \in ToSet(s)
  BY <1>8, <1>9 DEF Holds
<1>11. \A v \in Thread \ {t} : pc'[v] = pc[v]
  BY <1>0 DEF Unlocks, Placid
<1>12. Typed' /\ Stacked'
  <2>1. Able(k', "idle")
    BY <1>5, ThreadsAssumption DEF Locking, Typed
  <2> QED BY <1>5, <2>1 DEF Unlocks, Placid, Typed, Stacked
<1>13. Asked'
  BY <1>2, <1>7, <1>11 DEF Locking, Asked
<1>14. Owned'
  <2> SUFFICES ASSUME NEW v \in Thread, NEW x \in Needs(pc'[v]) PROVE Waits(v, x)' \/ Holds(v, x)'
    BY DEF Owned
  <2>1. x \in Mutex
    BY DEF Needs
  <2>2. CASE v = t
    BY <1>1, <1>10, <2>1, <2>2
  <2>3. CASE v # t
    <3>1. Waits(v, x) \/ Holds(v, x)
      BY <1>11, <2>3 DEF Locking, Owned
    <3> QED BY <1>7, <1>10, <2>1, <2>3, <3>1
  <2> QED BY <2>2, <2>3
<1>15. Listed'
  <2>1. ASSUME NEW v \in Thread, NEW x \in Mutex, Holds(v, x)' PROVE k'.own[x] = v
    <3>1. CASE v = u /\ x = m
      BY <1>8, <3>1
    <3>2. CASE ~(v = u /\ x = m)
      <4>1. Holds(v, x) /\ (v = t => Rank(x) < Rank(m))
        BY <1>1, <1>10, <2>1, <3>2
      <4>2. x # m
        BY <1>1, <4>1, RankIs DEF Locking, Listed
      <4> QED BY <1>8, <4>1, <4>2 DEF Locking, Listed
    <3> QED BY <3>1, <3>2
  <2>2. \A v \in Thread : Falling(k'.held[v])
    BY <1>1, <1>8, <1>9 DEF Locking, Listed
  <2> QED BY <2>1, <2>2 DEF Listed
<1>16. Spare'
  <2> SUFFICES ASSUME NEW v \in Thread, NEW x \in Mutex, Holds(v, x)'
               PROVE  x \in Needs(pc'[v]) \/ (x = "acc" /\ Leaks(v)')
    BY DEF Spare
  <2>1. CASE v = t
    BY <1>1, <1>10, <2>1
  <2>2. CASE v # t /\ v = u /\ x = m
    <3>1. Stack(u, pc[u]) /\ Head(pc[u]) \in Behind(m)
      BY <1>5, <1>6 DEF Locking, Stacked, Asked
    <3>2. Behind(m) \subseteq Under(m)
      BY MutexesAssumption DEF Behind, Under
    <3>3. Has(pc[u], Under(m))
      BY <3>1, <3>2, StackIs
    <3> QED BY <1>11, <2>2, <3>3 DEF Needs
  <2>3. CASE v # t /\ Holds(v, x)
    <3>1. x \in Needs(pc[v]) \/ (x = "acc" /\ Leaks(v))
      BY <2>3 DEF Locking, Spare
    <3>2. Leaks(v) => Leaks(v)'
      BY <1>11, <2>3 DEF Leaks, Unlocks, At
    <3> QED BY <1>11, <2>3, <3>1, <3>2
  <2> QED BY <1>10, <2>1, <2>2, <2>3
<1>17. Sound'
  <2> SUFFICES ASSUME faults = 0, NEW v \in Thread, NEW x \in Mutex, k'.own[x] = v
               PROVE  Holds(v, x)' /\ ~Waits(v, x)'
    BY DEF Sound, Unlocks
  <2>1. CASE x = m
    <3>1. k'.wq[m] = Tail(k.wq[m]) /\ k.wq[m] \in Seq(Thread) /\ IsInjective(k.wq[m])
      BY <1>2, <1>5 DEF Locking, Typed, Settled
    <3>2. u \notin ToSet(k'.wq[m])
      BY <1>0, <3>1, HeadTail
    <3> QED BY <1>5, <1>8, <1>10, <2>1, <3>2 DEF Waits
  <2>2. CASE x # m
    <3>1. Holds(v, x) /\ ~Waits(v, x)
      BY <1>8, <2>2 DEF Locking, Sound
    <3> QED BY <1>1, <1>7, <1>10, <2>2, <3>1
  <2> QED BY <2>1, <2>2
<1> QED BY <1>12, <1>13, <1>14, <1>15, <1>16, <1>17 DEF Locking

LEMMA LocksKeep == ASSUME Locking, NEW m \in Mutex, Locks(m) PROVE Locking'
BY LockFreeKeeps, LockWaitKeeps

LEMMA UnlocksKeep == ASSUME Locking, NEW m \in Mutex, Unlocks(m) PROVE Locking'
BY UnlockFreeKeeps, UnlockHandKeeps
-----------------------------------------------------------------------------
(* Steps of a thread *)

\* The mutexes that protect a label.
Guards(l) == {m \in Mutex : l \in Under(m)}

\* The labels t may be at after l.
Succ(t, l) ==
    CASE l = "p_lock"    -> {"p_write"}
      [] l = "p_write"   -> {"p_unlock"}
      [] l = "x_acquire" -> {"x_start"}
      [] l = "x_start"   -> {"x_done"}
      [] l = "x_done"    -> {"x_release"}
      [] l = "r_txbuf"   -> {"r_lock"}
      [] l = "r_lock"    -> {"r_scale"}
      [] l = "r_scale"   -> {"x_acquire"}
      [] l = "r_check"   -> {"r_unlock"} \cup Beneath(t, l)
      [] l = "b_init"    -> {"b_reset"}
      [] l \in {"b_reset", "b_power", "b_width", "b_who"} -> {"x_acquire"}
      [] l = "b_range"   -> {"r_txbuf"}
      [] l = "b_whoami"  -> {"f_write", "p_lock"}
      [] l \in {"b_serial", "b_mpu"} -> {"p_lock"}
      [] l = "b_loop"    -> {"b_loop"}
      [] l = "m_start"   -> {"m_lock"}
      [] l = "m_lock"    -> {"m_test"}
      [] l = "m_test"    -> {"a_high", "m_unlock"}
      [] l = "a_high"    -> {"x_acquire"}
      [] l = "a_low"     -> {"x_acquire", "a_high", "m_check"}
      [] l = "a_value"   -> {"a_high", "m_check"}
      [] l = "m_check"   -> {"m_unlock", "m_x"}
      [] l = "m_x"       -> {"m_y"}
      [] l = "m_y"       -> {"m_z"}
      [] l = "m_z"       -> {"m_center"}
      [] l = "m_center"  -> {"m_unlock"}
      [] l = "m_unlock"  -> {"m_sleep"}
      [] l = "m_sleep"   -> {"m_lock"}
      [] l = "s_start"   -> {"s_read"}
      [] l = "s_read"    -> {"s_take"}
      [] l = "s_take"    -> {"s_got"}
      [] l = "s_got"     -> {"s_check"}
      [] l = "s_check"   -> {"s_out", "p_lock", "c_option", "c_range"}
      [] l = "c_set"     -> {"c_enable"}
      [] l = "c_enable"  -> {"c_unset"}
      [] l = "c_unset"   -> {"c_own"}
      [] l = "c_own"     -> {"c_flag"}
      [] l = "c_option"  -> {"c_format"}
      [] l = "c_range"   -> {"c_call"}
      [] l \in {"c_flag", "c_format"} -> {"c_unlock"}
      [] l = "c_call"    -> {"r_txbuf"}
      [] l = "c_unlock"  -> {"s_out"}
      [] l = "s_out"     -> {"s_test"}
      [] l = "s_test"    -> {"s_unlock", "d_lock", "g_read"}
      [] l = "d_lock"    -> {"d_read"}
      [] l = "d_read"    -> {"d_read", "d_unlock"}
      [] l = "d_unlock"  -> {"f_write"}
      [] l = "g_read"    -> {"g_read", "f_write"}
      [] l = "s_count"   -> {"s_unlock"}
      [] l = "s_unlock"  -> {"s_sleep"}
      [] l = "s_sleep"   -> {"s_read"}
      [] OTHER           -> Beneath(t, l)

\* The running thread has gone on from l, with the labels of A on its stack, the
\* first of them being one that comes after l.
Steps(t, l, A) ==
    /\ k.cur = t /\ t # "idle" /\ At(t, l) /\ Moved(t)
    /\ Head(pc'[t]) \in Succ(t, l)
    /\ \A L : Has(pc'[t], L) <=> (A \cap L # {}) \/ Has(Tail(pc[t]), L)
    /\ \A b \in A : (b \in BeforeSerial => l \in BeforeSerial)
                    /\ (b \in BeforeMpu => l \in BeforeMpu)

LEMMA StepsOn ==
    ASSUME Typed, Stacked, NEW t \in Thread, NEW l, NEW a \in Labels(t), Runs(t, l),
           Goto(t, <<a>>), Beneath(t, a) = Beneath(t, l), a \in Succ(t, l), t # "idle",
           a \in BeforeSerial => l \in BeforeSerial, a \in BeforeMpu => l \in BeforeMpu
    PROVE  Steps(t, l, {a})
<1>1. At(t, l) /\ k.cur = t
  BY DEF Runs
<1>2. /\ Moved(t) /\ At(t, a)'
      /\ \A L : Has(pc'[t], L) <=> a \in L \/ Has(Tail(pc[t]), L)
  BY <1>1, GoOn
<1>3. Head(pc'[t]) \in Succ(t, l)
  BY <1>2 DEF At
<1>4. \A L : Has(pc'[t], L) <=> ({a} \cap L # {}) \/ Has(Tail(pc[t]), L)
  <2> SUFFICES ASSUME NEW L PROVE Has(pc'[t], L) <=> ({a} \cap L # {}) \/ Has(Tail(pc[t]), L)
    OBVIOUS
  <2>1. a \in L <=> {a} \cap L # {}
    OBVIOUS
  <2> QED BY <1>2, <2>1
<1> QED BY <1>1, <1>2, <1>3, <1>4 DEF Steps

LEMMA StepsBack ==
    ASSUME Typed, Stacked, NEW t \in Thread, NEW l, Runs(t, l), Return(t),
           Beneath(t, l) # {}, Beneath(t, l) \subseteq Succ(t, l), t # "idle"
    PROVE  Steps(t, l, {})
<1>1. At(t, l) /\ k.cur = t
  BY DEF Runs
<1>2. /\ Moved(t) /\ Head(pc'[t]) \in Succ(t, l)
      /\ \A L : Has(pc'[t], L) <=> Has(Tail(pc[t]), L)
  BY <1>1, GoBack
<1> QED BY <1>1, <1>2 DEF Steps

LEMMA StepsInto ==
    ASSUME Typed, Stacked, NEW t \in Thread, NEW l, NEW a \in Labels(t), NEW b \in Labels(t),
           Runs(t, l), Goto(t, <<a, b>>), Beneath(t, b) = Beneath(t, l), b \in Beneath(t, a),
           Beneath(t, l) \subseteq Beneath(t, a), a \in Succ(t, l), t # "idle",
           {a, b} \cap BeforeMpu = {}
    PROVE  Steps(t, l, {a, b})
<1>1. At(t, l) /\ k.cur = t
  BY DEF Runs
<1>2. /\ Moved(t) /\ At(t, a)'
      /\ \A L : Has(pc'[t], L) <=> a \in L \/ b \in L \/ Has(Tail(pc[t]), L)
  BY <1>1, GoInto
<1>3. Head(pc'[t]) \in Succ(t, l)
  BY <1>2 DEF At
<1>4. \A L : Has(pc'[t], L) <=> ({a, b} \cap L # {}) \/ Has(Tail(pc[t]), L)
  <2> SUFFICES ASSUME NEW L
               PROVE  Has(pc'[t], L) <=> ({a, b} \cap L # {}) \/ Has(Tail(pc[t]), L)
    OBVIOUS
  <2>1. (a \in L \/ b \in L) <=> {a, b} \cap L # {}
    OBVIOUS
  <2> QED BY <1>2, <2>1
<1> QED BY <1>1, <1>2, <1>3, <1>4 DEF Steps, BeforeMpu

LEMMA StepsDown ==
    ASSUME Typed, Stacked, NEW t \in Thread, NEW l, Runs(t, l), Beneath(t, l) = {},
           NEW s, Stack(t, s), Goto(t, s), NEW A, \A L : Has(s, L) <=> A \cap L # {},
           Head(s) \in Succ(t, l), t # "idle",
           \A b \in A : (b \in BeforeSerial => l \in BeforeSerial)
                        /\ (b \in BeforeMpu => l \in BeforeMpu)
    PROVE  Steps(t, l, A)
<1>1. At(t, l) /\ k.cur = t
  BY DEF Runs
<1>2. Moved(t) /\ pc'[t] = s /\ \A L : ~Has(Tail(pc[t]), L)
  BY <1>1, GoDown
<1> QED BY <1>1, <1>2 DEF Steps

\* What the thread needs before and after.
LEMMA NeedsAre ==
    ASSUME Stacked, NEW t \in Thread, NEW l, NEW A, Steps(t, l, A)
    PROVE  /\ Needs(pc[t]) = Guards(l) \cup Needs(Tail(pc[t]))
           /\ Needs(pc'[t]) = (UNION {Guards(a) : a \in A}) \cup Needs(Tail(pc[t]))
           /\ \A x \in Needs(Tail(pc[t])) : \E b \in Beneath(t, l) : x \in Guards(b)
<1>1. Stack(t, pc[t]) /\ Head(pc[t]) = l
  BY DEF Stacked, Steps, At
<1>2. ASSUME NEW m \in Mutex
      PROVE  /\ Has(pc[t], Under(m)) <=> l \in Under(m) \/ Has(Tail(pc[t]), Under(m))
             /\ Has(Tail(pc[t]), Under(m)) => Beneath(t, l) \cap Under(m) # {}
  BY <1>1, StackIs
<1>3. ASSUME NEW m \in Mutex
      PROVE  Has(pc'[t], Under(m)) <=> (A \cap Under(m) # {}) \/ Has(Tail(pc[t]), Under(m))
  BY DEF Steps
<1>4. Needs(pc[t]) = Guards(l) \cup Needs(Tail(pc[t]))
  BY <1>2 DEF Needs, Guards
<1>5. Needs(pc'[t]) = (UNION {Guards(a) : a \in A}) \cup Needs(Tail(pc[t]))
  <2>1. ASSUME NEW m \in Mutex
        PROVE  m \in UNION {Guards(a) : a \in A} <=> A \cap Under(m) # {}
    BY DEF Guards
  <2>2. ASSUME NEW m \in Mutex
        PROVE  m \in Needs(pc'[t]) <=>
                   m \in UNION {Guards(a) : a \in A} \/ m \in Needs(Tail(pc[t]))
    BY <1>3, <2>1 DEF Needs
  <2>3. Needs(pc'[t]) \subseteq Mutex /\ Needs(Tail(pc[t])) \subseteq Mutex
    BY DEF Needs
  <2>4. UNION {Guards(a) : a \in A} \subseteq Mutex
    BY DEF Guards
  <2> QED BY <2>2, <2>3, <2>4
<1>6. \A x \in Needs(Tail(pc[t])) : \E b \in Beneath(t, l) : x \in Guards(b)
  BY <1>2 DEF Needs, Guards
<1> QED BY <1>4, <1>5, <1>6
-----------------------------------------------------------------------------
(* What the calls of the kernel leave alone *)

\* No thread but those of W leaves the sleep it is in, but for one that ends by
\* a mutex or a timer; priorities stay at or above what the threads have set.
Gentle(W) ==
    /\ k'.real = k.real
    /\ (\A u \in Thread : k.real[u] <= k.prio[u]) => \A u \in Thread : k'.real[u] <= k'.prio[u]
    /\ \A u \in Thread \ W : k.st[u] \in {"SUSPENDED", "WTSTART"} => k'.st[u] = k.st[u]

LEMMA LocksGently == ASSUME Locking, NEW m \in Mutex, Locks(m) PROVE Gentle({})
<1>1. /\ k \in KernelType(Prios) /\ Settled(k, {}) /\ k' = Lock(k, m)
      /\ k.ready # <<>> /\ k.cur \in Thread /\ k.st[k.cur] = "CURRENT"
  BY KernelIs, IdleReady DEF Locks, Locking, Typed
<1>2. CASE k.own[m] = NoThread
  <2>1. /\ k \in KernelType(Prios) /\ Settled(k, {}) /\ k' = Lock(k, m)
        /\ k.own[m] = NoThread
    BY <1>1, <1>2
  <2>2. /\ k' \in KernelType(Prios) /\ Settled(k', {})
        /\ k'.cur = k.cur /\ k'.ready = k.ready /\ k'.st = k.st /\ k'.prio = k.prio
        /\ k'.real = k.real /\ k'.wq = k.wq /\ k'.own = [k.own EXCEPT ![m] = k.cur]
        /\ k'.held = [k.held EXCEPT ![k.cur] = <<m>> \o @]
    BY <2>1, PriosAre, LockFreeIs
  <2> QED BY <2>2 DEF Gentle
<1>3. CASE k.own[m] # NoThread
  <2>1. PICK B : B = Boosted(k, m, k.prio[k.cur])
    OBVIOUS
  <2>2. GoneToWait(Prios, k, m, B, k')
    BY <1>1, <1>3, <2>1, PriosAre, LockWaitIs
  <2>3. \A u \in B : k.prio[u] < k.prio[k.cur]
    <3>1. B \subseteq {u \in Thread : k.prio[u] < k.prio[k.cur]}
      BY <2>1, ChainIs DEF Boosted
    <3> QED BY <3>1
  <2>4. k.prio \in [Thread -> Prios] /\ k.real \in [Thread -> Prios]
    BY <1>1, KernelFields
  <2>5. ASSUME NEW u \in Thread, k.real[u] <= k.prio[u] PROVE k'.real[u] <= k'.prio[u]
    <3>1. /\ k'.real[u] = k.real[u] /\ k'.prio[u] = IF u \in B THEN k.prio[k.cur] ELSE k.prio[u]
      BY <2>2 DEF GoneToWait
    <3>2. k.real[u] \in Int /\ k.prio[u] \in Int /\ k.prio[k.cur] \in Int
      BY <1>1, <2>4, PriosAre
    <3> QED BY <2>3, <2>5, <3>1, <3>2
  <2>6. \A u \in Thread : k.st[u] \in {"SUSPENDED", "WTSTART"} => k'.st[u] = k.st[u]
    BY <1>1, <2>2 DEF GoneToWait, Able
  <2> QED BY <2>2, <2>5, <2>6 DEF Gentle, GoneToWait
<1> QED BY <1>2, <1>3

LEMMA UnlocksGently == ASSUME Locking, NEW m \in Mutex, Unlocks(m) PROVE Gentle({})
<1>1. /\ k \in KernelType(Prios) /\ Settled(k, {}) /\ k' = Unlock(k, m)
      /\ k.cur \in Thread /\ m \in ToSet(k.held[k.cur])
      /\ HeldBefore(k.held[k.cur], m) \in Seq(Mutex)
  BY UnlockLeaves DEF Unlocks, Locking, Typed, Holds
<1>2. CASE k.wq[m] = <<>>
  <2>1. /\ k \in KernelType(Prios) /\ Settled(k, {}) /\ k' = Unlock(k, m)
        /\ m \in ToSet(k.held[k.cur]) /\ k.wq[m] = <<>>
    BY <1>1, <1>2
  <2>2. /\ k' \in KernelType(Prios) /\ Settled(k', {})
        /\ k'.cur = k.cur /\ k'.ready = k.ready /\ k'.st = k.st /\ k'.prio = k.prio
        /\ k'.real = k.real /\ k'.wq = k.wq /\ k'.own = [k.own EXCEPT ![m] = NoThread]
        /\ k'.held = [k.held EXCEPT ![k.cur] = HeldBefore(@, m)]
    BY <2>1, PriosAre, UnlockFreeIs, SMTT(30)
  <2> QED BY <2>2 DEF Gentle
<1>3. CASE k.wq[m] # <<>>
  <2>1. PICK u, p : u = Head(k.wq[m])
                    /\ p = NewPrio(k, k.cur, ToSet(HeldBefore(k.held[k.cur], m)))
    OBVIOUS
  <2>2. /\ k.real \in [Thread -> Prios] /\ k.prio \in [Thread -> Prios]
        /\ \A x \in Mutex : k.wq[x] # <<>> => Head(k.wq[x]) \in Thread
    BY <1>1, KernelFields
  <2>3. p \in Prios /\ k.real[k.cur] <= p
    <3>1. ToSet(HeldBefore(k.held[k.cur], m)) \in SUBSET Mutex
      BY <1>1 DEF ToSet
    <3>2. HighPrio \in Nat /\ \A x \in Prios : x <= HighPrio
      BY DEF Prios, HighPrio, IdlePrio
    <3>3. /\ k.real[k.cur] <= HighPrio
          /\ \A x \in ToSet(HeldBefore(k.held[k.cur], m)) :
                k.wq[x] # <<>> => k.prio[Head(k.wq[x])] <= HighPrio
      BY <1>1, <2>2, <3>1, <3>2
    <3> QED BY <1>1, <2>1, <3>1, <3>2, <3>3, PriosAre, NewPrioIs
  <2>4. HandedOver(Prios, k, m, u, p, k')
    BY <1>1, <1>3, <2>1, <2>3, PriosAre, UnlockHandIs
  <2>5. ASSUME NEW v \in Thread, k.real[v] <= k.prio[v] PROVE k'.real[v] <= k'.prio[v]
    <3>1. k'.real[v] = k.real[v] /\ k'.prio[v] = IF v = k.cur THEN p ELSE k.prio[v]
      BY <2>2, <2>4 DEF HandedOver
    <3> QED BY <2>3, <2>5, <3>1
  <2>6. \A v \in Thread : k.st[v] \in {"SUSPENDED", "WTSTART"} => k'.st[v] = k.st[v]
    BY <2>4 DEF HandedOver, Able
  <2> QED BY <2>4, <2>5, <2>6 DEF Gentle, HandedOver
<1> QED BY <1>2, <1>3
-----------------------------------------------------------------------------
(* Steps that lock, that unlock, and others *)

LEMMA StepsPlacid ==
    ASSUME Locking, NEW t \in Thread, NEW l, NEW A, Steps(t, l, A), faults' \in 0 .. MaxFaults,
           faults' >= faults
    PROVE  Placid /\ (l # "c_unlock" => Stays)
<1>1. k.cur = t /\ At(t, l) /\ Moved(t)
  BY DEF Steps
<1>2. Placid
  BY <1>1 DEF Moved, Placid, Locking, Stacked
<1>3. l # "c_unlock" => Stays
  BY <1>1 DEF Moved, Stays, At
<1> QED BY <1>2, <1>3

LEMMA LockStep ==
    ASSUME Locking, NEW t \in Thread, NEW l, NEW m \in Mutex, NEW a, Steps(t, l, {a}),
           Head(pc'[t]) = a, k' = Lock(k, m), faults' = faults,
           l # "c_unlock", t = "main" => m # "ser",
           a \in Behind(m), Guards(a) = Guards(l) \cup {m},
           \A b \in Beneath(t, l) \cup {l} : \A x \in Guards(b) : Rank(x) < Rank(m)
    PROVE  Locking' /\ Gentle({})
<1>1. /\ Needs(pc[t]) = Guards(l) \cup Needs(Tail(pc[t]))
      /\ Needs(pc'[t]) = (UNION {Guards(b) : b \in {a}}) \cup Needs(Tail(pc[t]))
      /\ \A x \in Needs(Tail(pc[t])) : \E b \in Beneath(t, l) : x \in Guards(b)
  BY NeedsAre DEF Locking
<1>2. Needs(pc'[t]) = Needs(pc[t]) \cup {m}
  BY <1>1
<1>3. \A x \in Needs(pc[t]) : Rank(x) < Rank(m)
  BY <1>1
<1>4. k.cur = t /\ At(t, l) /\ t # "idle"
  BY DEF Steps
<1>5. Placid /\ Stays
  BY StepsPlacid DEF Locking, Typed
<1>6. Locks(m)
  BY <1>2, <1>3, <1>4, <1>5 DEF Locks, At
<1> QED BY <1>6, LocksKeep, LocksGently

LEMMA UnlockStep ==
    ASSUME Locking, NEW t \in Thread, NEW l, NEW m \in Mutex, NEW A, Steps(t, l, A),
           k' = Unlock(k, m), faults' = faults, l = "c_unlock" => m = "ser",
           m \in Guards(l), UNION {Guards(a) : a \in A} = Guards(l) \ {m},
           \A x \in Guards(l) \ {m} : Rank(x) < Rank(m),
           \A b \in Beneath(t, l) : \A x \in Guards(b) : Rank(x) < Rank(m)
    PROVE  Locking' /\ Gentle({})
<1>1. /\ Needs(pc[t]) = Guards(l) \cup Needs(Tail(pc[t]))
      /\ Needs(pc'[t]) = (UNION {Guards(b) : b \in A}) \cup Needs(Tail(pc[t]))
      /\ \A x \in Needs(Tail(pc[t])) : \E b \in Beneath(t, l) : x \in Guards(b)
  BY NeedsAre DEF Locking
<1>2. \A x \in Needs(Tail(pc[t])) : Rank(x) < Rank(m)
  BY <1>1
<1>3. m \notin Needs(Tail(pc[t]))
  BY <1>2, RankIs
<1>4. /\ m \in Needs(pc[t]) /\ Needs(pc'[t]) = Needs(pc[t]) \ {m}
      /\ \A x \in Needs(pc[t]) \ {m} : Rank(x) < Rank(m)
  BY <1>1, <1>2, <1>3
<1>5. k.cur = t /\ At(t, l)
  BY DEF Steps
<1>6. Placid
  BY StepsPlacid DEF Locking, Typed
<1>7. Unlocks(m)
  BY <1>4, <1>5, <1>6 DEF Unlocks, At
<1> QED BY <1>7, UnlocksKeep, UnlocksGently

\* A step with the same mutexes before and after.
LEMMA QuietStep ==
    ASSUME Locking, NEW t \in Thread, NEW l, NEW A, Steps(t, l, A), Calm,
           faults' \in 0 .. MaxFaults, faults' >= faults, l # "c_unlock",
           UNION {Guards(a) : a \in A} = Guards(l)
    PROVE  Locking'
<1>1. Needs(pc'[t]) = Needs(pc[t])
  BY NeedsAre DEF Locking
<1>2. \A u \in Thread : Needs(pc'[u]) = Needs(pc[u])
  BY <1>1 DEF Steps, Moved
<1>3. Placid /\ Stays
  BY StepsPlacid
<1> QED BY <1>2, <1>3, CalmKeeps

\* A step of no thread.
LEMMA StillStep == ASSUME Locking, Calm, UNCHANGED pc, faults' \in 0 .. MaxFaults, faults' >= faults
                   PROVE  Locking'
<1>1. \A u \in Thread : pc'[u] = pc[u] /\ Needs(pc'[u]) = Needs(pc[u])
  OBVIOUS
<1>2. Placid
  BY <1>1 DEF Placid, Locking, Typed, Stacked
<1>3. Stays
  BY <1>1 DEF Stays, At
<1> QED BY <1>1, <1>2, <1>3, CalmKeeps

LEMMA SameCalm == ASSUME Locking, UNCHANGED k PROVE Calm /\ Gentle({})
BY DEF Locking, Typed, Calm, Gentle

LEMMA SleepCalm ==
    ASSUME Locking, k.cur # "idle", NEW s \in {"SUSPENDED", "QUEUED", "SLEEPING"},
           k' = GoSleepS(k, s)
    PROVE  Calm /\ Gentle({}) /\ k'.st[k.cur] = s
<1>1. /\ k \in KernelType(Prios) /\ Settled(k, {}) /\ k.ready # <<>>
      /\ k.cur \in Thread /\ k.st[k.cur] = "CURRENT"
  BY KernelIs, IdleReady DEF Locking, Typed
<1>2. /\ k' \in KernelType(Prios) /\ Settled(k', {}) /\ SameMutexes(k, k')
      /\ k'.st[k.cur] = s
      /\ \A t \in Thread \ {k.cur} : Able(k', t) <=> Able(k, t)
      /\ \A t \in Thread \ {k.cur} : ~Able(k, t) => k'.st[t] = k.st[t]
  BY <1>1, PriosAre, GoSleepIs
<1>3. Calm
  BY <1>2, ThreadsAssumption DEF Calm, SameMutexes, Locking, Typed
<1>4. \A u \in Thread : k.st[u] \in {"SUSPENDED", "WTSTART"} => k'.st[u] = k.st[u]
  BY <1>1, <1>2 DEF Able
<1>5. Gentle({})
  BY <1>2, <1>4 DEF Gentle, SameMutexes
<1> QED BY <1>2, <1>3, <1>5

\* The running thread goes on unless the one that is woken has a higher priority.
LEMMA WakeCalm ==
    ASSUME Locking, NEW t \in Thread, k.st[t] \notin {"CURRENT", "READY", "WTMTX"},
           k' = WakeupS(k, t)
    PROVE  Calm /\ Gentle({t}) /\ (k.prio[k.cur] = HighPrio => k'.cur = k.cur)
<1>1. /\ k \in KernelType(Prios) /\ Settled(k, {}) /\ k.cur \in Thread
  BY KernelIs DEF Locking, Typed
<1>2. /\ k' \in KernelType(Prios) /\ Settled(k', {}) /\ SameMutexes(k, k')
      /\ Able(k', t)
      /\ \A u \in Thread \ {t} : Able(k', u) <=> Able(k, u)
      /\ \A u \in Thread \ {t} : ~Able(k, u) => k'.st[u] = k.st[u]
  BY <1>1, PriosAre, WakeupIs
<1>3. Calm
  BY <1>2, ThreadsAssumption DEF Calm, SameMutexes, Locking, Typed
<1>4. \A u \in Thread \ {t} : k.st[u] \in {"SUSPENDED", "WTSTART"} => k'.st[u] = k.st[u]
  BY <1>2 DEF Able
<1>5. Gentle({t})
  BY <1>2, <1>4 DEF Gentle, SameMutexes
<1>6. ASSUME k.prio[k.cur] = HighPrio PROVE k'.cur = k.cur
  <2>1. PICK r : r = ReadyI(k, t)
    OBVIOUS
  <2>2. Readied(Prios, k, t, r)
    <3>1. t # k.cur /\ t \notin ToSet(k.ready) /\ (\A m \in Mutex : t \notin ToSet(k.wq[m]))
      <4>1. InPlace(k, t)
        BY <1>1 DEF Settled
      <4> QED BY <4>1 DEF InPlace
    <3>2. Settled(k, {t})
      BY <1>1 DEF Settled
    <3> QED BY <1>1, <2>1, <3>1, <3>2, PriosAre, ReadyIIs
  <2>3. /\ r \in KernelType(Prios) /\ r.cur = k.cur /\ r.prio = k.prio
    BY <2>2 DEF Readied, SameMutexes
  <2>4. r.ready \in Seq(Thread) /\ r.prio \in [Thread -> Prios]
    BY <2>3, KernelFields
  <2>5. r.ready # <<>> => ~(r.prio[Head(r.ready)] > r.prio[r.cur])
    <3>1. \A p \in Prios : ~(p > HighPrio)
      BY DEF Prios, HighPrio, IdlePrio
    <3>2. r.ready # <<>> => Head(r.ready) \in Thread
      BY <2>4
    <3> QED BY <1>6, <2>3, <2>4, <3>1, <3>2
  <2>6. RescheduleS(r) = r
    BY <2>5 DEF RescheduleS
  <2>7. k' = RescheduleS(r)
    BY <2>1 DEF WakeupS
  <2> QED BY <2>3, <2>6, <2>7
<1> QED BY <1>3, <1>5, <1>6
-----------------------------------------------------------------------------
(* The steps of the program, one by one *)

\* The running thread has gone on; main is no further back in its start.
Went(t) == /\ k.cur = t /\ t # "idle" /\ Moved(t) /\ Head(pc'[t]) \in Succ(t, Head(pc[t]))
           /\ Has(pc'[t], BeforeSerial) => Has(pc[t], BeforeSerial)
           /\ Has(pc'[t], BeforeMpu) => Has(pc[t], BeforeMpu)

LEMMA StepsWent ==
    ASSUME Locking, NEW t \in Thread, NEW l, NEW A, Steps(t, l, A)
    PROVE  Went(t)
<1>1. Stack(t, pc[t]) /\ Head(pc[t]) = l
  BY DEF Locking, Stacked, Steps, At
<1>2. ASSUME NEW L, \A b \in A : b \in L => l \in L, Has(pc'[t], L) PROVE Has(pc[t], L)
  <2>1. Has(pc[t], L) <=> Head(pc[t]) \in L \/ Has(Tail(pc[t]), L)
    BY <1>1, StackIs
  <2>2. A \cap L # {} \/ Has(Tail(pc[t]), L)
    BY <1>2 DEF Steps
  <2> QED BY <1>1, <1>2, <2>1, <2>2
<1>3. /\ Has(pc'[t], BeforeSerial) => Has(pc[t], BeforeSerial)
      /\ Has(pc'[t], BeforeMpu) => Has(pc[t], BeforeMpu)
  BY <1>2 DEF Steps
<1> QED BY <1>1, <1>3 DEF Went, Steps

LEMMA LabelIs ==
    ASSUME Locking, NEW t \in Thread, NEW l, Runs(t, l)
    PROVE  l \in Labels(t) /\ k.cur = t /\ At(t, l)
<1>1. Stack(t, pc[t]) /\ Head(pc[t]) = l
  BY DEF Locking, Stacked, Runs, At
<1> QED BY <1>1, StackIs DEF Runs

\* a is a place to go on at after l.
Onto(t, l, a) ==
    /\ a \in Labels(t) /\ Beneath(t, a) = Beneath(t, l) /\ a \in Succ(t, l) /\ t # "idle"
    /\ a \in BeforeSerial => l \in BeforeSerial
    /\ a \in BeforeMpu => l \in BeforeMpu

\* m is asked for between l and a, and may be.
Asks(t, l, m, a) ==
    /\ Onto(t, l, a) /\ l # "c_unlock" /\ (t = "main" => m # "ser")
    /\ a \in Behind(m) /\ Guards(a) = Guards(l) \cup {m}
    /\ \A b \in Beneath(t, l) \cup {l} : \A x \in Guards(b) : Rank(x) < Rank(m)

LEMMA LockGoes ==
    ASSUME Locking, NEW t \in Thread, NEW l, NEW m \in Mutex, NEW a, Asks(t, l, m, a),
           LockAt(t, l, m, <<a>>)
    PROVE  Locking' /\ Went(t) /\ Gentle({})
<1>1. Runs(t, l) /\ k' = Lock(k, m) /\ Goto(t, <<a>>) /\ faults' = faults
  BY DEF LockAt, data, bus
<1>2. Typed /\ Stacked /\ Onto(t, l, a) /\ a \in Labels(t)
  BY DEF Locking, Asks, Onto
<1>3. Steps(t, l, {a})
  BY <1>1, <1>2, StepsOn DEF Onto
<1>4. Head(pc'[t]) = a
  BY <1>1, <1>2, GoOn DEF Onto, Runs, At
<1>5. Locking' /\ Gentle({})
  BY <1>1, <1>3, <1>4, LockStep DEF Asks
<1> QED BY <1>3, <1>5, StepsWent

\* m is given back after l, on the way to a or to the caller.
Gives(t, l, m) ==
    /\ m \in Guards(l) /\ (l = "c_unlock" => m = "ser")
    /\ \A x \in Guards(l) \ {m} : Rank(x) < Rank(m)
    /\ \A b \in Beneath(t, l) : \A x \in Guards(b) : Rank(x) < Rank(m)

LEMMA UnlockGoes ==
    ASSUME Locking, NEW t \in Thread, NEW l, NEW m \in Mutex, NEW a, Gives(t, l, m),
           Onto(t, l, a), Guards(a) = Guards(l) \ {m}, UnlockAt(t, l, m, <<a>>)
    PROVE  Locking' /\ Went(t) /\ Gentle({})
<1>1. Runs(t, l) /\ k' = Unlock(k, m) /\ Goto(t, <<a>>) /\ faults' = faults
  BY DEF UnlockAt, data, bus
<1>2. Typed /\ Stacked /\ a \in Labels(t)
  BY DEF Locking, Onto
<1>3. Steps(t, l, {a})
  BY <1>1, <1>2, StepsOn DEF Onto
<1>4. UNION {Guards(b) : b \in {a}} = Guards(l) \ {m}
  OBVIOUS
<1>5. Locking' /\ Gentle({})
  BY <1>1, <1>3, <1>4, UnlockStep DEF Gives
<1> QED BY <1>3, <1>5, StepsWent

LEMMA UnlockReturns ==
    ASSUME Locking, NEW t \in Thread, NEW l, NEW m \in Mutex, Gives(t, l, m), t # "idle",
           Beneath(t, l) # {}, Beneath(t, l) \subseteq Succ(t, l), Guards(l) = {m},
           UnlockAt(t, l, m, <<>>)
    PROVE  Locking' /\ Went(t) /\ Gentle({})
<1>1. Runs(t, l) /\ k' = Unlock(k, m) /\ Return(t) /\ faults' = faults
  BY DEF UnlockAt, data, bus, Return
<1>2. Typed /\ Stacked
  BY DEF Locking
<1>3. Steps(t, l, {})
  BY <1>1, <1>2, StepsBack
<1>4. UNION {Guards(b) : b \in {}} = Guards(l) \ {m}
  OBVIOUS
<1>5. Locking' /\ Gentle({})
  BY <1>1, <1>3, <1>4, UnlockStep DEF Gives
<1> QED BY <1>3, <1>5, StepsWent

\* Steps that leave the mutexes alone.
LEMMA QuietGoes ==
    ASSUME Locking, NEW t \in Thread, NEW l, NEW a, Onto(t, l, a), Guards(a) = Guards(l),
           l # "c_unlock", Runs(t, l), Goto(t, <<a>>), Calm,
           faults' \in 0 .. MaxFaults, faults' >= faults
    PROVE  Locking' /\ Went(t)
<1>1. Typed /\ Stacked /\ a \in Labels(t)
  BY DEF Locking, Onto
<1>2. Steps(t, l, {a})
  BY <1>1, StepsOn DEF Onto
<1>3. UNION {Guards(b) : b \in {a}} = Guards(l)
  OBVIOUS
<1> QED BY <1>2, <1>3, QuietStep, StepsWent

LEMMA QuietReturns ==
    ASSUME Locking, NEW t \in Thread, NEW l, Guards(l) = {}, l # "c_unlock", t # "idle",
           Beneath(t, l) # {}, Beneath(t, l) \subseteq Succ(t, l), Runs(t, l), Return(t), Calm,
           faults' \in 0 .. MaxFaults, faults' >= faults
    PROVE  Locking' /\ Went(t)
<1>1. Typed /\ Stacked
  BY DEF Locking
<1>2. Steps(t, l, {})
  BY <1>1, StepsBack
<1>3. UNION {Guards(b) : b \in {}} = Guards(l)
  OBVIOUS
<1> QED BY <1>2, <1>3, QuietStep, StepsWent

\* The data of the invariant that a step without transfers leaves alone.
LEMMA SameFaults == ASSUME Locking, faults' = faults
                    PROVE  faults' \in 0 .. MaxFaults /\ faults' >= faults
BY FaultsAssumption DEF Locking, Typed

-----------------------------------------------------------------------------
(* The procedures of mtprint.c, mti2c1.c and mpu.c that all threads call *)

LEMMA PrintLockGoes ==
    ASSUME Locking, NEW t \in Thread, PrintLock(t) PROVE Locking' /\ Went(t) /\ Gentle({})
<1>1. "p_lock" \in Labels(t)
  BY LabelIs DEF PrintLock, LockAt
<1>2. Asks(t, "p_lock", "print", "p_write")
  BY <1>1, MutexesAssumption
     DEF Asks, Onto, Labels, Beneath, Succ, Printing, Driving, Ranging, Behind, Guards, Under,
         Rank, BeforeSerial, BeforeMpu
<1> QED BY <1>2, MutexesAssumption, LockGoes DEF PrintLock

LEMMA PrintUnlockGoes ==
    ASSUME Locking, NEW t \in Thread, PrintUnlock(t) PROVE Locking' /\ Went(t) /\ Gentle({})
<1>1. "p_unlock" \in Labels(t)
  BY LabelIs DEF PrintUnlock, UnlockAt
<1>2. /\ Gives(t, "p_unlock", "print") /\ t # "idle" /\ Beneath(t, "p_unlock") # {}
      /\ Beneath(t, "p_unlock") \subseteq Succ(t, "p_unlock") /\ Guards("p_unlock") = {"print"}
  BY <1>1, MutexesAssumption
     DEF Gives, Labels, Beneath, Succ, Printing, Driving, Ranging, Guards, Under, Rank
<1> QED BY <1>2, MutexesAssumption, UnlockReturns DEF PrintUnlock

LEMMA WriteGoes ==
    ASSUME Locking, NEW t \in Thread, Write(t) PROVE Locking' /\ Went(t) /\ Gentle({})
<1>1. /\ faults' = faults
      /\ UNCHANGED k \/ k' = GoSleepS(k, "QUEUED")
      /\ \/ Runs(t, "p_write") /\ Goto(t, <<"p_unlock">>)
         \/ Runs(t, "f_write") /\ Return(t)
  BY DEF Write, data, bus
<1>2. k.cur = t /\ t # "idle"
  BY <1>1, LabelIs DEF Labels
<1>3. Calm /\ Gentle({})
  <2>1. CASE UNCHANGED k
    BY <2>1, SameCalm
  <2>2. CASE k' = GoSleepS(k, "QUEUED")
    BY <1>2, <2>2, SleepCalm
  <2> QED BY <1>1, <2>1, <2>2
<1>4. faults' \in 0 .. MaxFaults /\ faults' >= faults
  BY <1>1, SameFaults
<1>5. CASE Runs(t, "p_write") /\ Goto(t, <<"p_unlock">>)
  <2>1. "p_write" \in Labels(t)
    BY <1>5, LabelIs
  <2>2. Onto(t, "p_write", "p_unlock") /\ Guards("p_unlock") = Guards("p_write")
    BY <2>1, MutexesAssumption
       DEF Onto, Labels, Beneath, Succ, Printing, Driving, Ranging, Guards, Under,
           BeforeSerial, BeforeMpu
  <2> QED BY <1>3, <1>4, <1>5, <2>2, QuietGoes
<1>6. CASE Runs(t, "f_write") /\ Return(t)
  <2>1. /\ Guards("f_write") = {} /\ Beneath(t, "f_write") # {}
        /\ Beneath(t, "f_write") \subseteq Succ(t, "f_write")
    BY DEF Beneath, Succ, Printing, Guards, Under
  <2> QED BY <1>2, <1>3, <1>4, <1>6, <2>1, QuietReturns
<1> QED BY <1>1, <1>3, <1>5, <1>6

LEMMA AcquireBusGoes ==
    ASSUME Locking, NEW t \in Thread, AcquireBus(t) PROVE Locking' /\ Went(t) /\ Gentle({})
<1>1. "x_acquire" \in Labels(t)
  BY LabelIs DEF AcquireBus, LockAt
<1>2. Asks(t, "x_acquire", "bus", "x_start")
  BY <1>1, MutexesAssumption
     DEF Asks, Onto, Labels, Beneath, Succ, Printing, Driving, Ranging, Behind, Guards, Under,
         Rank, BeforeSerial, BeforeMpu
<1> QED BY <1>2, MutexesAssumption, LockGoes DEF AcquireBus

LEMMA StartTransferGoes ==
    ASSUME Locking, NEW t \in Thread, StartTransfer(t)
    PROVE  Locking' /\ Went(t) /\ Gentle({}) /\ k'.st[t] = "SUSPENDED" /\ At(t, "x_done")'
<1>1. /\ faults' = faults /\ k' = GoSleepS(k, "SUSPENDED")
      /\ Runs(t, "x_start") /\ Goto(t, <<"x_done">>)
  BY DEF StartTransfer
<1>2. k.cur = t /\ "x_start" \in Labels(t) /\ t # "idle"
  BY <1>1, LabelIs DEF Labels
<1>3. Calm /\ Gentle({}) /\ k'.st[t] = "SUSPENDED"
  BY <1>1, <1>2, SleepCalm
<1>4. Onto(t, "x_start", "x_done") /\ Guards("x_done") = Guards("x_start")
  BY <1>2, MutexesAssumption
     DEF Onto, Labels, Beneath, Succ, Printing, Driving, Ranging, Guards, Under,
         BeforeSerial, BeforeMpu
<1>5. Locking' /\ Went(t)
  BY <1>1, <1>3, <1>4, SameFaults, QuietGoes
<1>6. Head(pc'[t]) \in Succ(t, "x_start")
  BY <1>1, <1>5 DEF Went, Runs, At
<1> QED BY <1>3, <1>5, <1>6 DEF At, Succ

LEMMA BusyTimeoutGoes ==
    ASSUME Locking, NEW t \in Thread, BusyTimeout(t) PROVE Locking' /\ Went(t) /\ Gentle({})
<1>1. /\ faults < MaxFaults /\ faults' = faults + 1 /\ UNCHANGED k
      /\ Runs(t, "x_start") /\ Goto(t, <<"x_done">>)
  BY DEF BusyTimeout
<1>2. "x_start" \in Labels(t)
  BY <1>1, LabelIs
<1>3. Onto(t, "x_start", "x_done") /\ Guards("x_done") = Guards("x_start")
  BY <1>2, MutexesAssumption
     DEF Onto, Labels, Beneath, Succ, Printing, Driving, Ranging, Guards, Under,
         BeforeSerial, BeforeMpu
<1>4. faults' \in 0 .. MaxFaults /\ faults' >= faults
  BY <1>1, FaultsAssumption DEF Locking, Typed
<1> QED BY <1>1, <1>3, <1>4, SameCalm, QuietGoes

LEMMA EndTransferGoes ==
    ASSUME Locking, NEW t \in Thread, EndTransfer(t) PROVE Locking' /\ Went(t) /\ Gentle({})
<1>1. /\ faults' = faults /\ UNCHANGED k /\ Runs(t, "x_done") /\ Goto(t, <<"x_release">>)
  BY DEF EndTransfer
<1>2. "x_done" \in Labels(t)
  BY <1>1, LabelIs
<1>3. Onto(t, "x_done", "x_release") /\ Guards("x_release") = Guards("x_done")
  BY <1>2, MutexesAssumption
     DEF Onto, Labels, Beneath, Succ, Printing, Driving, Ranging, Guards, Under,
         BeforeSerial, BeforeMpu
<1> QED BY <1>1, <1>3, SameFaults, SameCalm, QuietGoes

LEMMA ReleaseBusGoes ==
    ASSUME Locking, NEW t \in Thread, ReleaseBus(t) PROVE Locking' /\ Went(t) /\ Gentle({})
<1>1. "x_release" \in Labels(t)
  BY LabelIs DEF ReleaseBus, UnlockAt
<1>2. /\ Gives(t, "x_release", "bus") /\ t # "idle" /\ Beneath(t, "x_release") # {}
      /\ Beneath(t, "x_release") \subseteq Succ(t, "x_release") /\ Guards("x_release") = {"bus"}
  BY <1>1, MutexesAssumption
     DEF Gives, Labels, Beneath, Succ, Printing, Driving, Ranging, Guards, Under, Rank
<1> QED BY <1>2, MutexesAssumption, UnlockReturns DEF ReleaseBus

LEMMA RangeFillGoes ==
    ASSUME Locking, NEW t \in Thread, RangeFill(t) PROVE Locking' /\ Went(t) /\ Gentle({})
<1>1. /\ faults' = faults /\ UNCHANGED k /\ Runs(t, "r_txbuf") /\ Goto(t, <<"r_lock">>)
  BY DEF RangeFill, bus
<1>2. "r_txbuf" \in Labels(t)
  BY <1>1, LabelIs
<1>3. Onto(t, "r_txbuf", "r_lock") /\ Guards("r_lock") = Guards("r_txbuf")
  BY <1>2, MutexesAssumption
     DEF Onto, Labels, Beneath, Succ, Printing, Driving, Ranging, Guards, Under,
         BeforeSerial, BeforeMpu
<1> QED BY <1>1, <1>3, SameFaults, SameCalm, QuietGoes

LEMMA RangeLockGoes ==
    ASSUME Locking, NEW t \in Thread, RangeLock(t) PROVE Locking' /\ Went(t) /\ Gentle({})
<1>1. "r_lock" \in Labels(t)
  BY LabelIs DEF RangeLock, LockAt
<1>2. Asks(t, "r_lock", "acc", "r_scale")
  BY <1>1, MutexesAssumption
     DEF Asks, Onto, Labels, Beneath, Succ, Printing, Driving, Ranging, Behind, Guards, Under,
         Rank, BeforeSerial, BeforeMpu
<1> QED BY <1>2, MutexesAssumption, LockGoes DEF RangeLock

LEMMA RangeScaleGoes ==
    ASSUME Locking, NEW t \in Thread, RangeScale(t) PROVE Locking' /\ Went(t) /\ Gentle({})
<1>1. /\ faults' = faults /\ UNCHANGED k /\ Runs(t, "r_scale")
      /\ Goto(t, <<"x_acquire", "r_check">>)
  BY DEF RangeScale, bus
<1>2. "r_scale" \in Labels(t)
  BY <1>1, LabelIs
<1>3. /\ "x_acquire" \in Labels(t) /\ "r_check" \in Labels(t) /\ t # "idle"
      /\ Beneath(t, "r_check") = Beneath(t, "r_scale") /\ "r_check" \in Beneath(t, "x_acquire")
      /\ Beneath(t, "r_scale") \subseteq Beneath(t, "x_acquire")
      /\ "x_acquire" \in Succ(t, "r_scale") /\ {"x_acquire", "r_check"} \cap BeforeMpu = {}
  BY <1>2 DEF Labels, Beneath, Succ, Printing, Driving, Ranging, BeforeSerial, BeforeMpu
<1>4. Steps(t, "r_scale", {"x_acquire", "r_check"})
  BY <1>1, <1>3, StepsInto DEF Locking
<1>5. UNION {Guards(a) : a \in {"x_acquire", "r_check"}} = Guards("r_scale")
  BY MutexesAssumption DEF Guards, Under
<1>6. Calm /\ Gentle({}) /\ faults' \in 0 .. MaxFaults /\ faults' >= faults
  BY <1>1, SameCalm, SameFaults
<1> QED BY <1>4, <1>5, <1>6, QuietStep, StepsWent

\* After a failed transfer the mutex of mpu.c stays with the caller.
LEMMA RangeCheckGoes ==
    ASSUME Locking, NoError, NEW t \in Thread, RangeCheck(t)
    PROVE  Locking' /\ Went(t) /\ Gentle({})
<1>1. /\ faults' = faults /\ UNCHANGED k /\ Runs(t, "r_check")
      /\ IF res[t] # MSG_OK THEN Return(t) ELSE Goto(t, <<"r_unlock">>)
  BY DEF RangeCheck, data, bus
<1>2. "r_check" \in Labels(t) /\ t \in {"main", "serial"} /\ k.cur = t
  BY <1>1, LabelIs, ThreadsAssumption DEF Labels, Driving
<1>3. Calm /\ Gentle({}) /\ faults' \in 0 .. MaxFaults /\ faults' >= faults
  BY <1>1, SameCalm, SameFaults
<1>4. CASE res[t] = MSG_OK
  <2>1. Onto(t, "r_check", "r_unlock") /\ Guards("r_unlock") = Guards("r_check")
    BY <1>2, MutexesAssumption
       DEF Onto, Labels, Beneath, Succ, Printing, Driving, Ranging, Guards, Under,
           BeforeSerial, BeforeMpu
  <2> QED BY <1>1, <1>3, <1>4, <2>1, QuietGoes
<1>5. CASE res[t] # MSG_OK
  <2>1. /\ Beneath(t, "r_check") # {} /\ Beneath(t, "r_check") \subseteq Succ(t, "r_check")
        /\ t = "serial" => Beneath(t, "r_check") = {"c_unlock"}
        /\ Guards("r_check") = {"acc"}
        /\ \A b \in Beneath(t, "r_check") : "acc" \notin Guards(b)
    BY <1>2, MutexesAssumption DEF Beneath, Succ, Printing, Driving, Ranging, Guards, Under
  <2>2. Steps(t, "r_check", {}) /\ Went(t)
    BY <1>1, <1>2, <1>5, <2>1, StepsBack, StepsWent DEF Locking
  <2>3. Needs(pc'[t]) = Needs(pc[t]) \ {"acc"}
    <3>1. /\ Needs(pc[t]) = Guards("r_check") \cup Needs(Tail(pc[t]))
          /\ Needs(pc'[t]) = (UNION {Guards(a) : a \in {}}) \cup Needs(Tail(pc[t]))
          /\ \A x \in Needs(Tail(pc[t])) : \E b \in Beneath(t, "r_check") : x \in Guards(b)
      BY <2>2, NeedsAre DEF Locking
    <3>2. "acc" \notin Needs(Tail(pc[t]))
      BY <2>1, <3>1
    <3> QED BY <2>1, <3>1, <3>2
  <2>4. Leaks(t)'
    <3>1. faults > 0
      BY <1>5 DEF NoError, Locking, Typed
    <3>2. t = "serial" => Head(pc'[t]) = "c_unlock"
      <4>1. Head(pc'[t]) \in Beneath(t, "r_check")
        BY <1>1, <1>2, <1>5, <2>1, GoBack DEF Locking, Runs
      <4> QED BY <2>1, <4>1
    <3> QED BY <1>1, <1>2, <3>1, <3>2 DEF Leaks, At
  <2>5. Placid /\ Stays
    BY <1>3, <2>2, StepsPlacid
  <2>6. \A u \in Thread : u # t => Needs(pc'[u]) = Needs(pc[u])
    BY <2>2 DEF Steps, Moved
  <2>7. Locking'
    BY <1>3, <2>3, <2>4, <2>5, <2>6, CalmKeeps
  <2> QED BY <1>3, <2>2, <2>7
<1> QED BY <1>4, <1>5

LEMMA RangeUnlockGoes ==
    ASSUME Locking, NEW t \in Thread, RangeUnlock(t) PROVE Locking' /\ Went(t) /\ Gentle({})
<1>1. "r_unlock" \in Labels(t)
  BY LabelIs DEF RangeUnlock, UnlockAt
<1>2. /\ Gives(t, "r_unlock", "acc") /\ t # "idle" /\ Beneath(t, "r_unlock") # {}
      /\ Beneath(t, "r_unlock") \subseteq Succ(t, "r_unlock") /\ Guards("r_unlock") = {"acc"}
  BY <1>1, MutexesAssumption
     DEF Gives, Labels, Beneath, Succ, Printing, Driving, Ranging, Guards, Under, Rank
<1> QED BY <1>2, MutexesAssumption, UnlockReturns DEF RangeUnlock

LEMMA ProceduresGo ==
    ASSUME Locking, NoError, NEW t \in Thread, Procedures(t)
    PROVE  Locking' /\ Went(t) /\ Gentle({})
BY PrintLockGoes, PrintUnlockGoes, WriteGoes, AcquireBusGoes, StartTransferGoes,
   BusyTimeoutGoes, EndTransferGoes, ReleaseBusGoes, RangeFillGoes, RangeLockGoes,
   RangeScaleGoes, RangeCheckGoes, RangeUnlockGoes DEF Procedures
-----------------------------------------------------------------------------
(* Calls from code that does not return *)

\* The stack s holds the labels of A and may come after l, at which the same
\* mutexes protect the thread.
Down(t, l, s, A) ==
    /\ Beneath(t, l) = {} /\ Stack(t, s) /\ Head(s) \in Succ(t, l) /\ t # "idle"
    /\ \A L : Has(s, L) <=> A \cap L # {}
    /\ UNION {Guards(a) : a \in A} = Guards(l)
    /\ \A b \in A : (b \in BeforeSerial => l \in BeforeSerial)
                    /\ (b \in BeforeMpu => l \in BeforeMpu)

LEMMA QuietDown ==
    ASSUME Locking, NEW t \in Thread, NEW l, NEW s, NEW A, Down(t, l, s, A), l # "c_unlock",
           Runs(t, l), Goto(t, s), Calm, faults' \in 0 .. MaxFaults, faults' >= faults
    PROVE  Locking' /\ Went(t) /\ pc'[t] = s
<1>1. Typed /\ Stacked
  BY DEF Locking
<1>2. Steps(t, l, A)
  BY <1>1, StepsDown DEF Down
<1>3. pc'[t] = s
  BY <1>1, GoDown DEF Down, Runs
<1> QED BY <1>2, <1>3, QuietStep, StepsWent DEF Down

LEMMA DownTwo ==
    ASSUME NEW t \in Thread, NEW l, NEW a \in Labels(t), NEW b \in Labels(t),
           Beneath(t, l) = {}, Beneath(t, b) = {}, b \in Beneath(t, a), a \in Succ(t, l),
           t # "idle", Guards(a) \cup Guards(b) = Guards(l), a \notin BeforeMpu,
           b \in BeforeSerial => l \in BeforeSerial, b \in BeforeMpu => l \in BeforeMpu
    PROVE  Down(t, l, <<a, b>>, {a, b}) /\ <<a>> \o <<b>> = <<a, b>>
<1>1. /\ Stack(t, <<a, b>>) /\ Head(<<a, b>>) = a
      /\ \A L : Has(<<a, b>>, L) <=> a \in L \/ b \in L
  BY StackOfTwo
<1>2. \A L : Has(<<a, b>>, L) <=> {a, b} \cap L # {}
  <2> SUFFICES ASSUME NEW L PROVE Has(<<a, b>>, L) <=> {a, b} \cap L # {}
    OBVIOUS
  <2>1. (a \in L \/ b \in L) <=> {a, b} \cap L # {}
    OBVIOUS
  <2> QED BY <1>1, <2>1
<1>3. UNION {Guards(x) : x \in {a, b}} = Guards(l)
  OBVIOUS
<1> QED BY <1>1, <1>2, <1>3, PairIs DEF Down, BeforeMpu

LEMMA DownThree ==
    ASSUME NEW t \in Thread, NEW l, NEW a \in Labels(t), NEW b \in Labels(t), NEW c \in Labels(t),
           Beneath(t, l) = {}, Beneath(t, c) = {}, c \in Beneath(t, b),
           {b, c} \subseteq Beneath(t, a), a \in Succ(t, l), t # "idle",
           Guards(a) \cup Guards(b) \cup Guards(c) = Guards(l), {a, b} \cap BeforeMpu = {},
           c \in BeforeSerial => l \in BeforeSerial, c \in BeforeMpu => l \in BeforeMpu
    PROVE  Down(t, l, <<a, b, c>>, {a, b, c}) /\ <<a>> \o <<b, c>> = <<a, b, c>>
<1>1. /\ Stack(t, <<a, b, c>>) /\ Head(<<a, b, c>>) = a
      /\ \A L : Has(<<a, b, c>>, L) <=> a \in L \/ b \in L \/ c \in L
  BY StackOfThree
<1>2. \A L : Has(<<a, b, c>>, L) <=> {a, b, c} \cap L # {}
  <2> SUFFICES ASSUME NEW L PROVE Has(<<a, b, c>>, L) <=> {a, b, c} \cap L # {}
    OBVIOUS
  <2>1. (a \in L \/ b \in L \/ c \in L) <=> {a, b, c} \cap L # {}
    OBVIOUS
  <2> QED BY <1>1, <2>1
<1>3. UNION {Guards(x) : x \in {a, b, c}} = Guards(l)
  OBVIOUS
<1>4. <<a, b, c>> = <<a>> \o <<b, c>> /\ <<b, c>> \in Seq(Labels(t))
  OBVIOUS
<1> QED BY <1>1, <1>2, <1>3, <1>4 DEF Down, BeforeMpu

LEMMA DownFour ==
    ASSUME NEW t \in Thread, NEW l, NEW a \in Labels(t), NEW c \in Labels(t),
           Beneath(t, l) = {}, Beneath(t, c) = {}, {a, c} \subseteq Beneath(t, a),
           a \in Succ(t, l), t # "idle",
           Guards(a) \cup Guards(c) = Guards(l), {a, c} \cap BeforeMpu = {}
    PROVE  Down(t, l, <<a, a, a, c>>, {a, c})
<1>1. /\ Stack(t, <<a, a, a, c>>) /\ Head(<<a, a, a, c>>) = a
      /\ \A L : Has(<<a, a, a, c>>, L) <=> a \in L \/ a \in L \/ a \in L \/ c \in L
  BY StackOfFour
<1>2. \A L : Has(<<a, a, a, c>>, L) <=> {a, c} \cap L # {}
  <2> SUFFICES ASSUME NEW L PROVE Has(<<a, a, a, c>>, L) <=> {a, c} \cap L # {}
    OBVIOUS
  <2>1. (a \in L \/ c \in L) <=> {a, c} \cap L # {}
    OBVIOUS
  <2> QED BY <1>1, <2>1
<1>3. UNION {Guards(x) : x \in {a, c}} = Guards(l)
  OBVIOUS
<1> QED BY <1>1, <1>2, <1>3 DEF Down, BeforeMpu
-----------------------------------------------------------------------------
(* main.c *)

LEMMA InitBusGoes ==
    ASSUME Locking, InitBus PROVE Locking' /\ Went("main") /\ Gentle({})
<1>1. /\ faults' = faults /\ UNCHANGED k /\ Runs("main", "b_init") /\ Goto("main", <<"b_reset">>)
  BY DEF InitBus
<1>2. "main" \in Thread /\ Onto("main", "b_init", "b_reset") /\ Guards("b_reset") = Guards("b_init")
  BY ThreadsAssumption, MutexesAssumption
     DEF Onto, Labels, Beneath, Succ, Printing, Driving, Ranging, Guards, Under,
         BeforeSerial, BeforeMpu
<1> QED BY <1>1, <1>2, SameFaults, SameCalm, QuietGoes

LEMMA ConfigureGoes ==
    ASSUME Locking, Reset \/ Power \/ Bandwidth PROVE Locking' /\ Went("main") /\ Gentle({})
<1>0. "main" \in Thread
  BY ThreadsAssumption
<1>1. faults' = faults /\ UNCHANGED k
  BY DEF Reset, Power, Bandwidth, Configure, bus
<1>2. Calm /\ Gentle({}) /\ faults' \in 0 .. MaxFaults /\ faults' >= faults
  BY <1>1, SameCalm, SameFaults
<1>3. CASE Reset
  <2>1. Down("main", "b_reset", <<"x_acquire", "b_power">>, {"x_acquire", "b_power"})
        /\ <<"x_acquire">> \o <<"b_power">> = <<"x_acquire", "b_power">>
    <3>1. /\ {"x_acquire", "b_power"} \subseteq Labels("main")
          /\ Beneath("main", "b_reset") = {} /\ Beneath("main", "b_power") = {}
          /\ "b_power" \in Beneath("main", "x_acquire")
          /\ "x_acquire" \in Succ("main", "b_reset")
      BY DEF Labels, Beneath, Succ, Printing, Driving, Ranging
    <3>2. /\ Guards("x_acquire") \cup Guards("b_power") = Guards("b_reset")
          /\ "x_acquire" \notin BeforeMpu /\ "b_reset" \in BeforeSerial /\ "b_reset" \in BeforeMpu
      BY MutexesAssumption DEF Guards, Under, BeforeSerial, BeforeMpu
    <3> QED BY <1>0, <3>1, <3>2, DownTwo
  <2> QED BY <1>0, <1>2, <1>3, <2>1, QuietDown DEF Reset, Configure
<1>4. CASE Power
  <2>1. Down("main", "b_power", <<"x_acquire", "p_lock", "b_width">>,
             {"x_acquire", "p_lock", "b_width"})
        /\ <<"x_acquire">> \o <<"p_lock", "b_width">> = <<"x_acquire", "p_lock", "b_width">>
    <3>1. /\ {"x_acquire", "p_lock", "b_width"} \subseteq Labels("main")
          /\ Beneath("main", "b_power") = {} /\ Beneath("main", "b_width") = {}
          /\ "b_width" \in Beneath("main", "p_lock")
          /\ {"p_lock", "b_width"} \subseteq Beneath("main", "x_acquire")
          /\ "x_acquire" \in Succ("main", "b_power")
      BY DEF Labels, Beneath, Succ, Printing, Driving, Ranging
    <3>2. /\ Guards("x_acquire") \cup Guards("p_lock") \cup Guards("b_width") = Guards("b_power")
          /\ {"x_acquire", "p_lock"} \cap BeforeMpu = {}
          /\ "b_power" \in BeforeSerial /\ "b_power" \in BeforeMpu
      BY MutexesAssumption DEF Guards, Under, BeforeSerial, BeforeMpu
    <3> QED BY <1>0, <3>1, <3>2, DownThree
  <2> QED BY <1>0, <1>2, <1>4, <2>1, QuietDown DEF Power, Configure
<1>5. CASE Bandwidth
  <2>1. Down("main", "b_width", <<"x_acquire", "p_lock", "b_range">>,
             {"x_acquire", "p_lock", "b_range"})
        /\ <<"x_acquire">> \o <<"p_lock", "b_range">> = <<"x_acquire", "p_lock", "b_range">>
    <3>1. /\ {"x_acquire", "p_lock", "b_range"} \subseteq Labels("main")
          /\ Beneath("main", "b_width") = {} /\ Beneath("main", "b_range") = {}
          /\ "b_range" \in Beneath("main", "p_lock")
          /\ {"p_lock", "b_range"} \subseteq Beneath("main", "x_acquire")
          /\ "x_acquire" \in Succ("main", "b_width")
      BY DEF Labels, Beneath, Succ, Printing, Driving, Ranging
    <3>2. /\ Guards("x_acquire") \cup Guards("p_lock") \cup Guards("b_range") = Guards("b_width")
          /\ {"x_acquire", "p_lock"} \cap BeforeMpu = {}
          /\ "b_width" \in BeforeSerial /\ "b_width" \in BeforeMpu
      BY MutexesAssumption DEF Guards, Under, BeforeSerial, BeforeMpu
    <3> QED BY <1>0, <3>1, <3>2, DownThree
  <2> QED BY <1>0, <1>2, <1>5, <2>1, QuietDown DEF Bandwidth, Configure
<1> QED BY <1>3, <1>4, <1>5

LEMMA WhoAmIGoes ==
    ASSUME Locking, BootRange \/ WhoAmI \/ WhoAmIPrint
    PROVE  Locking' /\ Went("main") /\ Gentle({})
<1>0. "main" \in Thread
  BY ThreadsAssumption
<1>1. faults' = faults /\ UNCHANGED k
  BY DEF BootRange, WhoAmI, WhoAmIPrint, data, bus
<1>2. Calm /\ Gentle({}) /\ faults' \in 0 .. MaxFaults /\ faults' >= faults
  BY <1>1, SameCalm, SameFaults
<1>3. CASE BootRange
  <2>1. Down("main", "b_range", <<"r_txbuf", "p_lock", "b_who">>, {"r_txbuf", "p_lock", "b_who"})
    BY <1>0, DownThree, MutexesAssumption
       DEF Labels, Beneath, Succ, Printing, Driving, Ranging, Guards, Under,
           BeforeSerial, BeforeMpu
  <2> QED BY <1>0, <1>2, <1>3, <2>1, QuietDown DEF BootRange
<1>4. CASE WhoAmI
  <2>1. Down("main", "b_who", <<"x_acquire", "b_whoami">>, {"x_acquire", "b_whoami"})
    BY <1>0, DownTwo, MutexesAssumption
       DEF Labels, Beneath, Succ, Printing, Driving, Ranging, Guards, Under,
           BeforeSerial, BeforeMpu
  <2> QED BY <1>0, <1>2, <1>4, <2>1, QuietDown DEF WhoAmI
<1>5. CASE WhoAmIPrint
  <2>1. PICK a : a = IF res["main"] = MSG_OK THEN "f_write" ELSE "p_lock"
    OBVIOUS
  <2>2. a \in {"f_write", "p_lock"}
    BY <2>1
  <2>3. /\ a \in Labels("main") /\ "b_serial" \in Labels("main") /\ Beneath("main", "b_whoami") = {}
        /\ Beneath("main", "b_serial") = {} /\ "b_serial" \in Beneath("main", a)
        /\ a \in Succ("main", "b_whoami")
        /\ Guards(a) \cup Guards("b_serial") = Guards("b_whoami") /\ a \notin BeforeMpu
        /\ "b_whoami" \in BeforeSerial /\ "b_whoami" \in BeforeMpu
    BY <2>2, MutexesAssumption
       DEF Labels, Beneath, Succ, Printing, Driving, Ranging, Guards, Under,
           BeforeSerial, BeforeMpu
  <2>4. Down("main", "b_whoami", <<a, "b_serial">>, {a, "b_serial"})
    BY <1>0, <2>3, DownTwo
  <2>5. Runs("main", "b_whoami") /\ Goto("main", <<a, "b_serial">>)
    BY <1>5, <2>1 DEF WhoAmIPrint
  <2> QED BY <1>0, <1>2, <2>4, <2>5, QuietDown
<1> QED BY <1>3, <1>4, <1>5

\* The thread main creates waits for it.
LEMMA CreateGoes ==
    ASSUME Locking, Booting,
           NEW l, NEW t, NEW n, <<l, t, n>> \in {<<"b_serial", "serial", "b_mpu">>,
                                                 <<"b_mpu", "mpu", "b_loop">>},
           Create(l, t, n)
    PROVE  /\ Locking' /\ Went("main") /\ Gentle({t}) /\ k.st[t] = "WTSTART"
           /\ ~Has(pc'["main"], BeforeSerial) /\ (t = "mpu" => ~Has(pc'["main"], BeforeMpu))
<1>0. "main" \in Thread /\ t \in Thread
  BY ThreadsAssumption
<1>1. /\ Runs("main", l) /\ k' = WakeupS(k, t) /\ Goto("main", <<"p_lock", n>>)
      /\ faults' = faults
  BY DEF Create, data, bus
<1>2. k.st[t] = "WTSTART"
  <2>1. Stack("main", pc["main"]) /\ Head(pc["main"]) = l
    BY <1>0, <1>1 DEF Locking, Stacked, Runs, At
  <2>2. \A L : l \in L => Has(pc["main"], L)
    BY <2>1, StackIs
  <2>3. CASE t = "serial"
    BY <2>2, <2>3 DEF Booting, BeforeSerial
  <2>4. CASE t = "mpu"
    BY <2>2, <2>4 DEF Booting, BeforeMpu
  <2> QED BY <2>3, <2>4
<1>3. Calm /\ Gentle({t})
  BY <1>0, <1>1, <1>2, WakeCalm
<1>4. /\ "p_lock" \in Labels("main") /\ n \in Labels("main") /\ Beneath("main", l) = {}
      /\ Beneath("main", n) = {} /\ n \in Beneath("main", "p_lock")
      /\ "p_lock" \in Succ("main", l)
      /\ Guards("p_lock") \cup Guards(n) = Guards(l) /\ "p_lock" \notin BeforeMpu
      /\ n \notin BeforeSerial /\ (n \in BeforeMpu => l \in BeforeMpu)
      /\ (t = "mpu" => n \notin BeforeMpu) /\ l # "c_unlock"
  BY MutexesAssumption
     DEF Labels, Beneath, Succ, Printing, Driving, Ranging, Guards, Under,
         BeforeSerial, BeforeMpu
<1>5. Down("main", l, <<"p_lock", n>>, {"p_lock", n})
  BY <1>0, <1>4, DownTwo
<1>6. Locking' /\ Went("main") /\ pc'["main"] = <<"p_lock", n>>
  BY <1>0, <1>1, <1>3, <1>5, <1>4, SameFaults, QuietDown
<1>7. \A L : Has(pc'["main"], L) <=> {"p_lock", n} \cap L # {}
  BY <1>5, <1>6 DEF Down
<1>8. {"p_lock", n} \cap BeforeSerial = {} /\ (t = "mpu" => {"p_lock", n} \cap BeforeMpu = {})
  BY <1>4 DEF BeforeMpu
<1> QED BY <1>2, <1>3, <1>6, <1>7, <1>8

LEMMA MainSleepGoes ==
    ASSUME Locking, MainSleep PROVE Locking' /\ Went("main") /\ Gentle({})
<1>1. /\ faults' = faults /\ k' = GoSleepS(k, "SLEEPING") /\ Runs("main", "b_loop")
      /\ Goto("main", <<"b_loop">>)
  BY DEF MainSleep, SleepAt, data, bus
<1>2. "main" \in Thread /\ Onto("main", "b_loop", "b_loop") /\ k.cur # "idle"
  BY <1>1, ThreadsAssumption
     DEF Onto, Labels, Beneath, Succ, Printing, Driving, Ranging, Runs
<1> QED BY <1>1, <1>2, SameFaults, SleepCalm, QuietGoes
-----------------------------------------------------------------------------
(* mpu.c *)

\* A thread that has started has the highest priority.
Starts(t) == /\ k'.real = [k.real EXCEPT ![t] = HighPrio]
             /\ k'.prio = [k.prio EXCEPT ![t] = HighPrio]
             /\ \A u \in Thread \ {t} :
                    k.st[u] \in {"SUSPENDED", "WTSTART"} => k'.st[u] = k.st[u]

LEMMA HighestPrio == HighPrio \in Prios /\ \A x \in Prios : x <= HighPrio
BY DEF Prios, HighPrio, IdlePrio

LEMMA MpuStartGoes ==
    ASSUME Locking, MpuStart PROVE Locking' /\ Went("mpu") /\ Starts("mpu")
<1>1. /\ faults' = faults /\ k' = SetPriority(k, HighPrio) /\ Runs("mpu", "m_start")
      /\ Goto("mpu", <<"m_lock">>)
  BY DEF MpuStart, data, bus
<1>2. k.cur = "mpu" /\ k \in KernelType(Prios) /\ Settled(k, {})
  BY <1>1 DEF Runs, Locking, Typed
<1>3. /\ k' \in KernelType(Prios) /\ Settled(k', {})
      /\ k'.cur = k.cur /\ k'.ready = k.ready /\ k'.st = k.st
      /\ k'.held = k.held /\ k'.own = k.own /\ k'.wq = k.wq
      /\ k'.real = [k.real EXCEPT ![k.cur] = HighPrio]
      /\ k'.prio = [k.prio EXCEPT ![k.cur] = HighPrio]
  BY <1>1, <1>2, PriosAre, HighestPrio, SetHighestIs
<1>4. Calm
  BY <1>3 DEF Calm, Locking, Typed, Able
<1>5. Starts("mpu")
  BY <1>2, <1>3 DEF Starts
<1>6. "mpu" \in Thread /\ Onto("mpu", "m_start", "m_lock") /\ Guards("m_lock") = Guards("m_start")
  BY ThreadsAssumption, MutexesAssumption
     DEF Onto, Labels, Beneath, Succ, Printing, Driving, Ranging, Guards, Under,
         BeforeSerial, BeforeMpu
<1> QED BY <1>1, <1>4, <1>5, <1>6, SameFaults, QuietGoes

LEMMA MpuLockGoes == ASSUME Locking, MpuLock PROVE Locking' /\ Went("mpu") /\ Gentle({})
<1>1. "mpu" \in Thread /\ "acc" \in Mutex /\ Asks("mpu", "m_lock", "acc", "m_test")
  BY ThreadsAssumption, MutexesAssumption
     DEF Asks, Onto, Labels, Beneath, Succ, Printing, Driving, Ranging, Behind, Guards, Under,
         Rank, BeforeSerial, BeforeMpu
<1> QED BY <1>1, LockGoes DEF MpuLock

LEMMA MpuUnlockGoes == ASSUME Locking, MpuUnlock PROVE Locking' /\ Went("mpu") /\ Gentle({})
<1>1. /\ "mpu" \in Thread /\ "acc" \in Mutex /\ Gives("mpu", "m_unlock", "acc")
      /\ Onto("mpu", "m_unlock", "m_sleep") /\ Guards("m_sleep") = Guards("m_unlock") \ {"acc"}
  BY ThreadsAssumption, MutexesAssumption
     DEF Gives, Onto, Labels, Beneath, Succ, Printing, Driving, Ranging, Guards, Under,
         Rank, BeforeSerial, BeforeMpu
<1> QED BY <1>1, UnlockGoes DEF MpuUnlock

LEMMA MpuSleepGoes == ASSUME Locking, MpuSleep PROVE Locking' /\ Went("mpu") /\ Gentle({})
<1>1. /\ faults' = faults /\ k' = GoSleepS(k, "SLEEPING") /\ Runs("mpu", "m_sleep")
      /\ Goto("mpu", <<"m_lock">>)
  BY DEF MpuSleep, SleepAt, data, bus
<1>2. /\ "mpu" \in Thread /\ Onto("mpu", "m_sleep", "m_lock") /\ k.cur # "idle"
      /\ Guards("m_lock") = Guards("m_sleep")
  BY <1>1, ThreadsAssumption, MutexesAssumption
     DEF Onto, Labels, Beneath, Succ, Printing, Driving, Ranging, Runs, Guards, Under,
         BeforeSerial, BeforeMpu
<1> QED BY <1>1, <1>2, SameFaults, SleepCalm, QuietGoes

\* The transfers of an axis.
LEMMA ReadGoes ==
    ASSUME Locking, ReadHigh \/ ReadLow PROVE Locking' /\ Went("mpu") /\ Gentle({})
<1>1. faults' = faults /\ UNCHANGED k
  BY DEF ReadHigh, ReadLow, bus
<1>2. Calm /\ Gentle({}) /\ faults' \in 0 .. MaxFaults /\ faults' >= faults
  BY <1>1, SameCalm, SameFaults
<1>3. /\ "mpu" \in Thread
      /\ Down("mpu", "a_high", <<"x_acquire", "a_low">>, {"x_acquire", "a_low"})
      /\ Down("mpu", "a_low", <<"x_acquire", "a_value">>, {"x_acquire", "a_value"})
  BY ThreadsAssumption, MutexesAssumption, DownTwo
     DEF Labels, Beneath, Succ, Printing, Driving, Ranging, Guards, Under,
         BeforeSerial, BeforeMpu
<1> QED BY <1>2, <1>3, QuietDown DEF ReadHigh, ReadLow

\* The other steps go on from one label to another, under the mutex of mpu.c.
LEMMA MpuOnGoes ==
    ASSUME Locking, MpuTest \/ AxisDone \/ UpdateCheck \/ ConvertX \/ ConvertY \/ ConvertZ \/ Center
    PROVE  Locking' /\ Went("mpu") /\ UNCHANGED k
<1>1. faults' = faults /\ UNCHANGED k
  BY DEF MpuTest, AxisDone, UpdateCheck, ConvertX, ConvertY, ConvertZ, Center, Convert, data, bus
<1>2. Calm /\ faults' \in 0 .. MaxFaults /\ faults' >= faults
  BY <1>1, SameCalm, SameFaults
<1>3. \E l, a : /\ Runs("mpu", l) /\ Goto("mpu", <<a>>)
                /\ \/ l = "m_test" /\ a \in {"a_high", "m_unlock"}
                   \/ l \in {"a_low", "a_value"} /\ a \in {"a_high", "m_check"}
                   \/ l = "m_check" /\ a \in {"m_unlock", "m_x"}
                   \/ l = "m_x" /\ a = "m_y"
                   \/ l = "m_y" /\ a = "m_z"
                   \/ l = "m_z" /\ a = "m_center"
                   \/ l = "m_center" /\ a = "m_unlock"
  <2>1. CASE MpuTest
    BY <2>1 DEF MpuTest
  <2>2. CASE AxisDone
    BY <2>2 DEF AxisDone
  <2>3. CASE UpdateCheck
    BY <2>3 DEF UpdateCheck
  <2>4. CASE ConvertX \/ ConvertY \/ ConvertZ \/ Center
    BY <2>4 DEF ConvertX, ConvertY, ConvertZ, Center, Convert
  <2> QED BY <2>1, <2>2, <2>3, <2>4
<1>4. PICK l, a : /\ Runs("mpu", l) /\ Goto("mpu", <<a>>)
                  /\ \/ l = "m_test" /\ a \in {"a_high", "m_unlock"}
                     \/ l \in {"a_low", "a_value"} /\ a \in {"a_high", "m_check"}
                     \/ l = "m_check" /\ a \in {"m_unlock", "m_x"}
                     \/ l = "m_x" /\ a = "m_y"
                     \/ l = "m_y" /\ a = "m_z"
                     \/ l = "m_z" /\ a = "m_center"
                     \/ l = "m_center" /\ a = "m_unlock"
  BY <1>3
<1>5. "mpu" \in Thread /\ Onto("mpu", l, a) /\ Guards(a) = Guards(l) /\ l # "c_unlock"
  BY <1>4, ThreadsAssumption, MutexesAssumption
     DEF Onto, Labels, Beneath, Succ, Printing, Driving, Ranging, Guards, Under,
         BeforeSerial, BeforeMpu
<1> QED BY <1>1, <1>2, <1>4, <1>5, QuietGoes

LEMMA MpuGoes ==
    ASSUME Locking, Mpu
    PROVE  Locking' /\ Went("mpu") /\ (IF MpuStart THEN Starts("mpu") ELSE Gentle({}))
BY MpuStartGoes, MpuLockGoes, MpuUnlockGoes, MpuSleepGoes, ReadGoes, MpuOnGoes, SameCalm DEF Mpu
-----------------------------------------------------------------------------
(* serialcomm.c *)

\* No thread has to do with the mutex of serialcomm.c before its thread starts,
\* which is where it is initialised.
LEMMA SerFree ==
    ASSUME Locking, At("serial", "s_start")
    PROVE  \A u \in Thread : ~Holds(u, "ser") /\ ~Waits(u, "ser")
<1> SUFFICES ASSUME NEW u \in Thread, Holds(u, "ser") \/ Waits(u, "ser") PROVE FALSE
  OBVIOUS
<1>0. "ser" \in Mutex /\ "ser" # "acc"
  BY MutexesAssumption
<1>1. Stack(u, pc[u])
  BY DEF Locking, Stacked
<1>2. Has(pc[u], Under("ser"))
  <2>1. CASE Holds(u, "ser")
    BY <1>0, <2>1 DEF Locking, Spare, Needs
  <2>2. CASE Waits(u, "ser")
    <3>1. Head(pc[u]) \in Under("ser")
      BY <1>0, <2>2 DEF Locking, Asked, Behind, Under
    <3> QED BY <1>1, <3>1, StackIs
  <2> QED BY <2>1, <2>2
<1>3. u = "serial"
  <2>1. PICK i \in 1 .. Len(pc[u]) : pc[u][i] \in Under("ser")
    BY <1>2 DEF Has
  <2>2. pc[u][i] \in Labels(u)
    BY <1>1, <2>1 DEF Stack
  <2> QED BY <2>1, <2>2, ThreadsAssumption DEF Under, Labels, Printing, Driving, Ranging
<1>4. Head(pc[u]) = "s_start" /\ Beneath(u, "s_start") = {}
  BY <1>3 DEF At, Beneath, Printing, Driving, Ranging
<1>5. Tail(pc[u]) = <<>> /\ (Has(pc[u], Under("ser")) => Head(pc[u]) \in Under("ser")
                                                     \/ Has(Tail(pc[u]), Under("ser")))
  BY <1>1, <1>4, StackIs
<1>6. ~Has(Tail(pc[u]), Under("ser"))
  <2>1. Tail(pc[u]) = <<>>
    BY <1>5
  <2>2. \A L : ~Has(<<>>, L)
    BY DEF Has
  <2> QED BY <2>1, <2>2
<1>7. "s_start" \notin Under("ser")
  BY DEF Under
<1> QED BY <1>2, <1>4, <1>5, <1>6, <1>7

LEMMA SerialStartGoes ==
    ASSUME Locking, SerialStart PROVE Locking' /\ Went("serial") /\ Starts("serial")
<1>0. PICK j : j = [k EXCEPT !.own["ser"] = NoThread, !.wq["ser"] = <<>>]
  OBVIOUS
<1>1. /\ faults' = faults /\ k' = GoSleepS(SetPriority(j, HighPrio), "SLEEPING")
      /\ Runs("serial", "s_start") /\ Goto("serial", <<"s_read">>)
  BY <1>0 DEF SerialStart, data, bus
<1>2. /\ k.cur = "serial" /\ "serial" \in Thread /\ "ser" \in Mutex
      /\ k \in KernelType(Prios) /\ Settled(k, {}) /\ k.ready # <<>> /\ k.st[k.cur] = "CURRENT"
  BY <1>1, KernelIs, IdleReady, ThreadsAssumption, MutexesAssumption DEF Runs, Locking, Typed
<1>3. \A u \in Thread : ~Holds(u, "ser") /\ ~Waits(u, "ser")
  BY <1>1, SerFree DEF Runs
<1>4. /\ k.cur \in Thread /\ k.ready \in Seq(Thread) /\ k.st \in [Thread -> States]
      /\ k.prio \in [Thread -> Prios] /\ k.real \in [Thread -> Prios]
      /\ k.held \in [Thread -> Seq(Mutex)]
      /\ k.own \in [Mutex -> Thread \cup {NoThread}] /\ k.wq \in [Mutex -> Seq(Thread)]
  BY <1>2, KernelFields
<1>5. k.wq["ser"] = <<>>
  <2>1. k.wq["ser"] \in Seq(Thread) /\ ToSet(k.wq["ser"]) = {}
    BY <1>2, <1>3, <1>4 DEF Waits, ToSet
  <2>2. k.wq["ser"] # <<>> => Head(k.wq["ser"]) \in ToSet(k.wq["ser"])
    BY <2>1 DEF ToSet
  <2> QED BY <2>1, <2>2
<1>6. PICK own : own = [k.own EXCEPT !["ser"] = NoThread]
  OBVIOUS
<1>7. /\ j \in KernelType(Prios) /\ j.cur = k.cur /\ j.ready = k.ready /\ j.st = k.st
      /\ j.prio = k.prio /\ j.real = k.real /\ j.held = k.held /\ j.own = own /\ j.wq = k.wq
  <2>1. own \in [Mutex -> Thread \cup {NoThread}]
    BY <1>4, <1>6
  <2>2. [k.wq EXCEPT !["ser"] = <<>>] = k.wq
    BY <1>4, <1>5
  <2>3. k = [cur |-> k.cur, ready |-> k.ready, st |-> k.st, prio |-> k.prio,
             real |-> k.real, held |-> k.held, own |-> k.own, wq |-> k.wq]
    BY <1>2 DEF KernelType
  <2>4. j = [cur |-> k.cur, ready |-> k.ready, st |-> k.st, prio |-> k.prio,
             real |-> k.real, held |-> k.held, own |-> own, wq |-> k.wq]
    BY <1>0, <1>6, <2>2, <2>3
  <2> QED BY <1>4, <2>1, <2>4, KernelRecord
<1>8. Settled(j, {})
  BY <1>2, <1>7 DEF Settled, InPlace
<1>9. PICK r : r = SetPriority(j, HighPrio)
  OBVIOUS
<1>10. /\ r \in KernelType(Prios) /\ Settled(r, {})
       /\ r.cur = j.cur /\ r.ready = j.ready /\ r.st = j.st
       /\ r.held = j.held /\ r.own = j.own /\ r.wq = j.wq
       /\ r.real = [j.real EXCEPT ![j.cur] = HighPrio]
       /\ r.prio = [j.prio EXCEPT ![j.cur] = HighPrio]
  BY <1>7, <1>8, <1>9, PriosAre, HighestPrio, SetHighestIs
<1>11. /\ r.ready # <<>> /\ k' = GoSleepS(r, "SLEEPING")
  BY <1>1, <1>2, <1>7, <1>9, <1>10
<1>12. /\ k' \in KernelType(Prios) /\ Settled(k', {}) /\ SameMutexes(r, k')
       /\ k'.st[r.cur] = "SLEEPING"
       /\ \A t \in Thread \ {r.cur} : Able(k', t) <=> Able(r, t)
       /\ \A t \in Thread \ {r.cur} : ~Able(r, t) => k'.st[t] = r.st[t]
  BY <1>10, <1>11, PriosAre, GoSleepIs
<1>13. /\ k'.held = k.held /\ k'.own = own /\ k'.wq = k.wq
       /\ k'.real = [k.real EXCEPT !["serial"] = HighPrio]
       /\ k'.prio = [k.prio EXCEPT !["serial"] = HighPrio]
  BY <1>2, <1>7, <1>10, <1>12 DEF SameMutexes
<1>14. \A t \in Thread \ {"serial"} : /\ Able(k', t) <=> Able(k, t)
                                      /\ ~Able(k, t) => k'.st[t] = k.st[t]
  BY <1>2, <1>7, <1>10, <1>12 DEF Able
<1>15. Calm
  <2>1. Able(k', "idle")
    BY <1>14, ThreadsAssumption DEF Locking, Typed
  <2>2. \A m \in Mutex : k'.own[m] = IF m = "ser" THEN NoThread ELSE k.own[m]
    BY <1>4, <1>6, <1>13
  <2> QED BY <1>3, <1>12, <1>13, <2>1, <2>2 DEF Calm
<1>16. Starts("serial")
  BY <1>13, <1>14 DEF Starts, Able
<1>17. Onto("serial", "s_start", "s_read") /\ Guards("s_read") = Guards("s_start")
  BY MutexesAssumption
     DEF Onto, Labels, Beneath, Succ, Printing, Driving, Ranging, Guards, Under,
         BeforeSerial, BeforeMpu
<1> QED BY <1>1, <1>2, <1>15, <1>16, <1>17, SameFaults, QuietGoes

LEMMA SerialLocksGo ==
    ASSUME Locking, ReadLock \/ ControlLock \/ OwnLock \/ OutputLock \/ DegreesLock
    PROVE  Locking' /\ Went("serial") /\ Gentle({})
<1>1. PICK l, m, a :
          /\ LockAt("serial", l, m, <<a>>)
          /\ <<l, m, a>> \in {<<"s_read", "print", "s_take">>, <<"c_set", "acc", "c_enable">>,
                              <<"c_own", "ser", "c_flag">>, <<"c_option", "ser", "c_format">>,
                              <<"c_range", "ser", "c_call">>, <<"s_out", "ser", "s_test">>,
                              <<"d_lock", "acc", "d_read">>}
  BY DEF ReadLock, ControlLock, OwnLock, OutputLock, DegreesLock
<1>2. "serial" \in Thread /\ m \in Mutex /\ Asks("serial", l, m, a)
  <2>1. CASE l = "s_read" \/ l = "s_out"
    BY <1>1, <2>1, ThreadsAssumption, MutexesAssumption
       DEF Asks, Onto, Labels, Beneath, Succ, Printing, Driving, Ranging, Behind, Guards, Under,
             Rank, BeforeSerial, BeforeMpu
  <2>2. CASE l = "c_own" \/ l = "c_option" \/ l = "c_range"
    BY <1>1, <2>2, ThreadsAssumption, MutexesAssumption
       DEF Asks, Onto, Labels, Beneath, Succ, Printing, Driving, Ranging, Behind, Guards, Under,
             Rank, BeforeSerial, BeforeMpu
  <2>3. CASE l = "c_set" \/ l = "d_lock"
    BY <1>1, <2>3, ThreadsAssumption, MutexesAssumption
       DEF Asks, Onto, Labels, Beneath, Succ, Printing, Driving, Ranging, Behind, Guards, Under,
             Rank, BeforeSerial, BeforeMpu
  <2> QED BY <1>1, <2>1, <2>2, <2>3
<1> QED BY <1>1, <1>2, LockGoes

LEMMA SerialUnlocksGo ==
    ASSUME Locking, ReadUnlock \/ ControlUnlock \/ OwnUnlock \/ OutputUnlock
    PROVE  Locking' /\ Went("serial") /\ Gentle({})
<1>1. PICK l, m, a :
          /\ UnlockAt("serial", l, m, <<a>>)
          /\ <<l, m, a>> \in {<<"s_got", "print", "s_check">>, <<"c_unset", "acc", "c_own">>,
                              <<"c_unlock", "ser", "s_out">>, <<"s_unlock", "ser", "s_sleep">>}
  BY DEF ReadUnlock, ControlUnlock, OwnUnlock, OutputUnlock
<1>2. /\ "serial" \in Thread /\ m \in Mutex /\ Gives("serial", l, m) /\ Onto("serial", l, a)
      /\ Guards(a) = Guards(l) \ {m}
  BY <1>1, ThreadsAssumption, MutexesAssumption
     DEF Gives, Onto, Labels, Beneath, Succ, Printing, Driving, Ranging, Guards, Under,
         Rank, BeforeSerial, BeforeMpu
<1> QED BY <1>1, <1>2, UnlockGoes

LEMMA DegreesUnlockGoes ==
    ASSUME Locking, DegreesUnlock PROVE Locking' /\ Went("serial") /\ Gentle({})
<1>0. PICK s : s = <<"f_write", "f_write", "s_count">>
  OBVIOUS
<1>1. /\ Runs("serial", "d_unlock") /\ k' = Unlock(k, "acc") /\ faults' = faults
      /\ Goto("serial", s) /\ "serial" \in Thread
  BY <1>0, ThreadsAssumption DEF DegreesUnlock, UnlockAt, data, bus
<1>2. /\ Stack("serial", s) /\ Head(s) = "f_write"
      /\ \A L : Has(s, L) <=> "f_write" \in L \/ "f_write" \in L \/ "s_count" \in L
  <2>1. /\ "f_write" \in Labels("serial") /\ "s_count" \in Labels("serial")
        /\ Beneath("serial", "s_count") = {} /\ "s_count" \in Beneath("serial", "f_write")
        /\ "f_write" \in Beneath("serial", "f_write")
    BY DEF Labels, Beneath, Printing, Driving, Ranging
  <2> QED BY <1>0, <2>1, StackOfThree
<1>3. \A L : Has(s, L) <=> {"f_write", "s_count"} \cap L # {}
  <2> SUFFICES ASSUME NEW L PROVE Has(s, L) <=> {"f_write", "s_count"} \cap L # {}
    OBVIOUS
  <2>1. ("f_write" \in L \/ "s_count" \in L) <=> {"f_write", "s_count"} \cap L # {}
    OBVIOUS
  <2> QED BY <1>2, <2>1
<1>4. Steps("serial", "d_unlock", {"f_write", "s_count"})
  <2>1. /\ Beneath("serial", "d_unlock") = {} /\ Head(s) \in Succ("serial", "d_unlock")
        /\ "serial" # "idle"
        /\ \A b \in {"f_write", "s_count"} : b \notin BeforeSerial /\ b \notin BeforeMpu
    BY <1>2 DEF Beneath, Succ, Printing, Driving, Ranging, BeforeSerial, BeforeMpu
  <2>2. \A b \in {"f_write", "s_count"} : (b \in BeforeSerial => "d_unlock" \in BeforeSerial)
                                          /\ (b \in BeforeMpu => "d_unlock" \in BeforeMpu)
    BY <2>1
  <2> QED BY <1>1, <1>2, <1>3, <2>1, <2>2, StepsDown DEF Locking
<1>5. /\ Gives("serial", "d_unlock", "acc") /\ "acc" \in Mutex
      /\ UNION {Guards(a) : a \in {"f_write", "s_count"}} = Guards("d_unlock") \ {"acc"}
  BY MutexesAssumption
     DEF Gives, Beneath, Printing, Driving, Ranging, Guards, Under, Rank
<1> QED BY <1>1, <1>4, <1>5, UnlockStep, StepsWent DEF Gives

LEMMA ReadTakeGoes ==
    ASSUME Locking, ReadTake PROVE Locking' /\ Went("serial") /\ Gentle({})
<1>1. /\ faults' = faults /\ Runs("serial", "s_take") /\ Goto("serial", <<"s_got">>)
      /\ UNCHANGED k \/ k' = GoSleepS(k, "QUEUED")
  BY DEF ReadTake, bus
<1>2. k.cur # "idle"
  BY <1>1 DEF Runs
<1>3. Calm /\ Gentle({})
  BY <1>1, <1>2, SameCalm, SleepCalm
<1>4. "serial" \in Thread /\ Onto("serial", "s_take", "s_got") /\ Guards("s_got") = Guards("s_take")
  BY ThreadsAssumption, MutexesAssumption
     DEF Onto, Labels, Beneath, Succ, Printing, Driving, Ranging, Guards, Under,
         BeforeSerial, BeforeMpu
<1> QED BY <1>1, <1>3, <1>4, SameFaults, QuietGoes

LEMMA SerialSleepGoes ==
    ASSUME Locking, SerialSleep PROVE Locking' /\ Went("serial") /\ Gentle({})
<1>1. /\ faults' = faults /\ k' = GoSleepS(k, "SLEEPING") /\ Runs("serial", "s_sleep")
      /\ Goto("serial", <<"s_read">>)
  BY DEF SerialSleep, SleepAt, bus
<1>2. /\ "serial" \in Thread /\ Onto("serial", "s_sleep", "s_read") /\ k.cur # "idle"
      /\ Guards("s_read") = Guards("s_sleep")
  BY <1>1, ThreadsAssumption, MutexesAssumption
     DEF Onto, Labels, Beneath, Succ, Printing, Driving, Ranging, Runs, Guards, Under,
         BeforeSerial, BeforeMpu
<1> QED BY <1>1, <1>2, SameFaults, SleepCalm, QuietGoes

\* Steps from one label to another with the same mutexes.
LEMMA SerialOnGoes ==
    ASSUME Locking, NEW l, NEW a, Runs("serial", l), Goto("serial", <<a>>),
           UNCHANGED k, faults' = faults,
           \/ l = "s_check" /\ a \in {"s_out", "c_option", "c_range"}
           \/ l = "c_enable" /\ a = "c_unset"
           \/ l \in {"c_flag", "c_format"} /\ a = "c_unlock"
           \/ l = "s_test" /\ a \in {"s_unlock", "d_lock", "g_read"}
           \/ l = "d_read" /\ a \in {"d_read", "d_unlock"}
           \/ l = "g_read" /\ a = "g_read"
           \/ l = "s_count" /\ a = "s_unlock"
    PROVE  Locking' /\ Went("serial")
<1>1. "serial" \in Thread /\ Onto("serial", l, a) /\ Guards(a) = Guards(l) /\ l # "c_unlock"
  BY ThreadsAssumption, MutexesAssumption
     DEF Onto, Labels, Beneath, Succ, Printing, Driving, Ranging, Guards, Under,
         BeforeSerial, BeforeMpu
<1> QED BY <1>1, SameFaults, SameCalm, QuietGoes

LEMMA OwnRangeGoes ==
    ASSUME Locking, OwnRange PROVE Locking' /\ Went("serial") /\ UNCHANGED k
<1>1. /\ faults' = faults /\ UNCHANGED k /\ Runs("serial", "c_call")
      /\ Goto("serial", <<"r_txbuf", "c_unlock">>)
  BY DEF OwnRange, bus
<1>2. "serial" \in Thread /\ Down("serial", "c_call", <<"r_txbuf", "c_unlock">>, {"r_txbuf", "c_unlock"})
  BY ThreadsAssumption, DownTwo, MutexesAssumption
     DEF Labels, Beneath, Succ, Printing, Driving, Ranging, Guards, Under,
         BeforeSerial, BeforeMpu
<1> QED BY <1>1, <1>2, SameFaults, SameCalm, QuietDown

LEMMA CommandCheckGoes ==
    ASSUME Locking, CommandCheck PROVE Locking' /\ Went("serial") /\ UNCHANGED k
<1>1. faults' = faults /\ UNCHANGED k /\ Runs("serial", "s_check") /\ "serial" \in Thread
  BY ThreadsAssumption DEF CommandCheck, data, bus
<1>2. \/ \E a \in {"s_out", "c_option", "c_range"} : Goto("serial", <<a>>)
      \/ Goto("serial", <<"p_lock", "c_set">>)
      \/ Goto("serial", <<"p_lock", "p_lock", "p_lock", "s_out">>)
  BY DEF CommandCheck
<1>3. CASE \E a \in {"s_out", "c_option", "c_range"} : Goto("serial", <<a>>)
  BY <1>1, <1>3, SerialOnGoes
<1>4. CASE Goto("serial", <<"p_lock", "c_set">>)
  <2>1. Down("serial", "s_check", <<"p_lock", "c_set">>, {"p_lock", "c_set"})
    BY <1>1, DownTwo, MutexesAssumption
       DEF Labels, Beneath, Succ, Printing, Driving, Ranging, Guards, Under,
           BeforeSerial, BeforeMpu
  <2> QED BY <1>1, <1>4, <2>1, SameFaults, SameCalm, QuietDown
<1>5. CASE Goto("serial", <<"p_lock", "p_lock", "p_lock", "s_out">>)
  <2>1. Down("serial", "s_check", <<"p_lock", "p_lock", "p_lock", "s_out">>, {"p_lock", "s_out"})
    BY <1>1, DownFour, MutexesAssumption
       DEF Labels, Beneath, Succ, Printing, Driving, Ranging, Guards, Under,
           BeforeSerial, BeforeMpu
  <2> QED BY <1>1, <1>5, <2>1, SameFaults, SameCalm, QuietDown
<1> QED BY <1>2, <1>3, <1>4, <1>5

LEMMA GsReadGoes ==
    ASSUME Locking, GsRead PROVE Locking' /\ Went("serial") /\ UNCHANGED k
<1>1. faults' = faults /\ UNCHANGED k /\ Runs("serial", "g_read") /\ "serial" \in Thread
  BY ThreadsAssumption DEF GsRead, CopyAxis, bus
<1>2. \/ Goto("serial", <<"g_read">>)
      \/ Goto("serial", <<"f_write", "f_write", "f_write", "s_count">>)
  BY DEF GsRead, CopyAxis
<1>3. CASE Goto("serial", <<"g_read">>)
  BY <1>1, <1>3, SerialOnGoes
<1>4. CASE Goto("serial", <<"f_write", "f_write", "f_write", "s_count">>)
  <2>1. Down("serial", "g_read", <<"f_write", "f_write", "f_write", "s_count">>,
             {"f_write", "s_count"})
    BY <1>1, DownFour, MutexesAssumption
       DEF Labels, Beneath, Succ, Printing, Driving, Ranging, Guards, Under,
           BeforeSerial, BeforeMpu
  <2> QED BY <1>1, <1>4, <2>1, SameFaults, SameCalm, QuietDown
<1> QED BY <1>2, <1>3, <1>4

LEMMA SerialStaysGo ==
    ASSUME Locking, ControlSet \/ OwnEnable \/ OwnOption \/ OutputTest \/ DegreesRead \/ CountReset
    PROVE  Locking' /\ Went("serial") /\ UNCHANGED k
<1>1. faults' = faults /\ UNCHANGED k
  BY DEF ControlSet, OwnEnable, OwnOption, OutputTest, DegreesRead, CopyAxis, CountReset, data, bus
<1>2. CASE ControlSet
  BY <1>1, <1>2, SerialOnGoes DEF ControlSet
<1>3. CASE OwnEnable
  BY <1>1, <1>3, SerialOnGoes DEF OwnEnable
<1>4. CASE OwnOption
  BY <1>1, <1>4, SerialOnGoes DEF OwnOption
<1>5. CASE OutputTest
  <2>1. \E a \in {"s_unlock", "d_lock", "g_read"} : Goto("serial", <<a>>)
    BY <1>5 DEF OutputTest
  <2> QED BY <1>1, <1>5, <2>1, SerialOnGoes DEF OutputTest
<1>6. CASE DegreesRead
  <2>1. \E a \in {"d_read", "d_unlock"} : Goto("serial", <<a>>)
    BY <1>6 DEF DegreesRead, CopyAxis
  <2> QED BY <1>1, <1>6, <2>1, SerialOnGoes DEF DegreesRead, CopyAxis
<1>7. CASE CountReset
  BY <1>1, <1>7, SerialOnGoes DEF CountReset
<1> QED BY <1>2, <1>3, <1>4, <1>5, <1>6, <1>7

LEMMA SerialGoes ==
    ASSUME Locking, Serial
    PROVE  Locking' /\ Went("serial") /\ (IF SerialStart THEN Starts("serial") ELSE Gentle({}))
BY SerialStartGoes, SerialLocksGo, SerialUnlocksGo, DegreesUnlockGoes, ReadTakeGoes,
   SerialSleepGoes, OwnRangeGoes, CommandCheckGoes, GsReadGoes, SerialStaysGo, SameCalm DEF Serial
-----------------------------------------------------------------------------
(* What each thread changes, and where it is when it does *)

LEMMA ProceduresChange ==
    ASSUME Kept, Locking, NEW t \in Thread, Procedures(t)
    PROVE  /\ k.cur = t /\ Head(pc[t]) \in Printing \cup {"f_write"} \cup Driving \cup Ranging
           /\ UNCHANGED ser
           /\ mpu'.enable = mpu.enable /\ mpu'.gen = mpu.gen
           /\ mpu'.x = mpu.x /\ mpu'.y = mpu.y /\ mpu'.z = mpu.z
           /\ mpu'.row = mpu.row /\ mpu'.axis = mpu.axis
           /\ StartTransfer(t) \/ i2c'.thread = i2c.thread
           /\ faults' = 0 => res' = res /\ faults = 0
<1>1. CASE PrintLock(t) \/ PrintUnlock(t) \/ Write(t) \/ AcquireBus(t) \/ ReleaseBus(t)
           \/ RangeLock(t) \/ RangeUnlock(t) \/ RangeCheck(t)
  BY <1>1 DEF PrintLock, PrintUnlock, Write, AcquireBus, ReleaseBus, RangeLock, RangeUnlock,
              RangeCheck, LockAt, UnlockAt, Runs, At, data, bus, Printing, Driving, Ranging
<1>2. CASE StartTransfer(t)
  BY <1>2 DEF StartTransfer, Runs, At, Driving
<1>3. CASE BusyTimeout(t)
  <2>1. faults' # 0
    BY <1>3 DEF BusyTimeout, Locking, Typed
  <2> QED BY <1>3, <2>1 DEF BusyTimeout, Kept, Runs, At, Driving
<1>4. CASE EndTransfer(t)
  BY <1>4 DEF EndTransfer, Kept, Runs, At, Driving
<1>5. CASE RangeFill(t) \/ RangeScale(t)
  BY <1>5 DEF RangeFill, RangeScale, Kept, Runs, At, Ranging, bus
<1> QED BY <1>1, <1>2, <1>3, <1>4, <1>5 DEF Procedures

LEMMA MainChanges ==
    ASSUME Kept, Main
    PROVE  /\ k.cur = "main" /\ UNCHANGED <<mpu, ser, res, faults>> /\ i2c'.thread = i2c.thread
BY DEF Main, InitBus, Reset, Power, Bandwidth, Configure, BootRange, WhoAmI, WhoAmIPrint, Create,
       MainSleep, SleepAt, Runs, data, bus, Kept

LEMMA MpuChanges ==
    ASSUME Kept, Mpu
    PROVE  /\ k.cur = "mpu" /\ UNCHANGED <<ser, res, faults, i2c>> /\ mpu'.enable = mpu.enable
           /\ MpuStart \/ ~At("mpu", "m_start")
           /\ MpuTest \/ ~At("mpu", "m_test")
           /\ ConvertX \/ ~At("mpu", "m_x")
           /\ ConvertY \/ ~At("mpu", "m_y")
           /\ ConvertZ \/ ~At("mpu", "m_z")
           /\ Center \/ ~At("mpu", "m_center")
           /\ \/ Head(pc["mpu"]) \in {"m_x", "m_y", "m_z", "m_center"}
              \/ mpu'.gen = mpu.gen /\ mpu'.x = mpu.x /\ mpu'.y = mpu.y /\ mpu'.z = mpu.z
           /\ AxisDone \/ (mpu'.row = mpu.row /\ mpu'.axis = mpu.axis)
           /\ AxisDone \/ ReadLow \/ ~At("mpu", "a_low")
           /\ AxisDone \/ ~At("mpu", "a_value")
           /\ ~AxisDone \/ Head(pc["mpu"]) \in {"a_low", "a_value"}
<1>0. ~AxisDone \/ Head(pc["mpu"]) \in {"a_low", "a_value"}
  BY DEF AxisDone, Runs, At
<1>1. CASE MpuStart \/ MpuLock \/ MpuTest \/ MpuUnlock \/ MpuSleep
  BY <1>0, <1>1 DEF MpuStart, MpuLock, MpuTest, MpuUnlock, MpuSleep, LockAt, UnlockAt, SleepAt,
              Runs, At, data, bus
<1>2. CASE ReadHigh \/ ReadLow
  BY <1>0, <1>2 DEF ReadHigh, ReadLow, Runs, At, bus
<1>3. CASE AxisDone \/ UpdateCheck
  BY <1>3 DEF AxisDone, UpdateCheck, Runs, At, bus, Kept
<1>4. CASE ConvertX \/ ConvertY \/ ConvertZ \/ Center
  BY <1>0, <1>4 DEF ConvertX, ConvertY, ConvertZ, Center, Convert, Runs, At, bus, Kept
<1> QED BY <1>1, <1>2, <1>3, <1>4 DEF Mpu

LEMMA SerialChanges ==
    ASSUME Kept, Serial
    PROVE  /\ k.cur = "serial" /\ UNCHANGED <<res, faults, i2c>>
           /\ mpu'.gen = mpu.gen /\ mpu'.x = mpu.x /\ mpu'.y = mpu.y /\ mpu'.z = mpu.z
           /\ mpu'.row = mpu.row /\ mpu'.axis = mpu.axis
           /\ SerialStart \/ ~At("serial", "s_start")
           /\ CommandCheck \/ ~At("serial", "s_check")
           /\ IF At("serial", "c_enable") THEN mpu'.enable = (ser.cmd = "str")
              ELSE mpu'.enable = mpu.enable
           /\ IF At("serial", "c_flag") THEN ser'.enable = (ser.cmd = "str")
              ELSE ser'.enable = ser.enable
           /\ ser'.cmd = ser.cmd \/ At("serial", "s_take") \/ At("serial", "s_sleep")
           /\ IF At("serial", "d_read") THEN DegreesRead
              ELSE IF At("serial", "g_read") THEN GsRead
              ELSE IF At("serial", "s_count") THEN ser'.shown = <<>>
              ELSE ser'.shown = ser.shown
           /\ Head(pc["serial"]) \notin Printing \cup {"f_write"} \cup Driving \cup Ranging
<1>1. CASE SerialStart \/ CommandCheck \/ OwnRange \/ OutputTest
  BY <1>1 DEF SerialStart, CommandCheck, OwnRange, OutputTest, Runs, At, data, bus,
              Printing, Driving, Ranging
<1>2. CASE ReadLock \/ ControlLock \/ OwnLock \/ OutputLock \/ DegreesLock
  BY <1>2 DEF ReadLock, ControlLock, OwnLock, OutputLock, DegreesLock, LockAt, Runs, At,
              data, bus, Printing, Driving, Ranging
<1>3. CASE ReadUnlock \/ ControlUnlock \/ OwnUnlock \/ OutputUnlock \/ DegreesUnlock
  BY <1>3 DEF ReadUnlock, ControlUnlock, OwnUnlock, OutputUnlock, DegreesUnlock, UnlockAt,
              Runs, At, data, bus, Printing, Driving, Ranging
<1>4. CASE ReadTake \/ SerialSleep
  BY <1>4 DEF ReadTake, SerialSleep, SleepAt, Runs, At, bus, Kept, Printing, Driving, Ranging
<1>5. CASE ControlSet \/ OwnEnable \/ OwnOption
  BY <1>5 DEF ControlSet, OwnEnable, OwnOption, Runs, At, bus, Kept, Printing, Driving, Ranging
<1>6. CASE DegreesRead \/ GsRead \/ CountReset
  BY <1>6 DEF DegreesRead, GsRead, CopyAxis, CountReset, Runs, At, bus, Kept,
              Printing, Driving, Ranging
<1> QED BY <1>1, <1>2, <1>3, <1>4, <1>5, <1>6 DEF Serial

LEMMA InterruptChanges ==
    ASSUME Kept, Locking, Interrupt
    PROVE  /\ UNCHANGED <<pc, mpu, txbuf>> /\ UNCHANGED <<ser.enable, ser.shown>>
           /\ ser'.cmd = ser.cmd \/ At("serial", "s_got")
           /\ faults' \in 0 .. MaxFaults /\ faults' >= faults
           /\ i2c.thread # NoThread => (faults' = 0 => \A u \in Thread : res'[u] \in {res[u], MSG_OK})
           /\ i2c.thread = NoThread => res' = res
<1>0. faults \in 0 .. MaxFaults /\ MaxFaults \in Nat
  BY FaultsAssumption DEF Locking, Typed
<1>1. CASE DmaFetch
  BY <1>0, <1>1 DEF DmaFetch
<1>2. CASE TransferComplete
  BY <1>0, <1>2 DEF TransferComplete, WakeTransfer, Kept
<1>3. CASE TransferError \/ TransferTimeout
  <2>1. faults' = faults + 1 /\ faults < MaxFaults /\ i2c.thread # NoThread
        /\ UNCHANGED <<pc, mpu, txbuf, ser>>
    BY <1>3 DEF TransferError, TransferTimeout, TransferFails, WakeTransfer
  <2> QED BY <1>0, <2>1
<1>4. CASE InputArrives
  BY <1>0, <1>4 DEF InputArrives, bus, Kept
<1>5. CASE InputTimeout \/ \E t \in Thread : TimerWake(t) \/ OutputDrains(t)
  BY <1>0, <1>5 DEF InputTimeout, TimerWake, OutputDrains, data, bus
<1> QED BY <1>1, <1>2, <1>3, <1>4, <1>5 DEF Interrupt

\* Interrupts wake a thread that sleeps, and the running thread goes on if it has
\* the highest priority.
LEMMA InterruptGoes ==
    ASSUME Kept, Locking, Driven, Interrupt
    PROVE  /\ Locking' /\ Driven' /\ k'.real = k.real
           /\ (\A u \in Thread : k.real[u] <= k.prio[u])
                  => \A u \in Thread : k'.real[u] <= k'.prio[u]
           /\ \A u \in Thread : k.st[u] = "WTSTART" => k'.st[u] = "WTSTART"
           /\ k.prio[k.cur] = HighPrio => k'.cur = k.cur
<1>1. UNCHANGED pc /\ faults' \in 0 .. MaxFaults /\ faults' >= faults
  BY InterruptChanges
<1>2. CASE DmaFetch
  <2>1. UNCHANGED k /\ i2c'.thread = i2c.thread
    BY <1>2 DEF DmaFetch, Kept
  <2>2. Calm /\ Gentle({})
    BY <2>1, SameCalm
  <2>3. Locking'
    BY <1>1, <2>2, StillStep
  <2>4. Driven'
    BY <1>1, <2>1 DEF Driven, At
  <2> QED BY <2>1, <2>2, <2>3, <2>4 DEF Gentle
<1>3. CASE TransferComplete \/ TransferError \/ TransferTimeout
  <2>1. i2c.thread # NoThread /\ k' = WakeupS(k, i2c.thread) /\ i2c'.thread = NoThread
    BY <1>3 DEF TransferComplete, TransferError, TransferTimeout, TransferFails, WakeTransfer, Kept
  <2>2. i2c.thread \in Thread /\ k.st[i2c.thread] = "SUSPENDED"
    BY <2>1 DEF Driven
  <2>3. Calm /\ Gentle({i2c.thread}) /\ (k.prio[k.cur] = HighPrio => k'.cur = k.cur)
    BY <2>1, <2>2, WakeCalm
  <2>4. Locking'
    BY <1>1, <2>3, StillStep
  <2>5. Driven'
    BY <2>1 DEF Driven
  <2> QED BY <2>2, <2>3, <2>4, <2>5 DEF Gentle
<1>4. CASE InputArrives \/ InputTimeout \/ \E t \in Thread : TimerWake(t) \/ OutputDrains(t)
  <2>1. PICK t \in Thread : k.st[t] \in {"QUEUED", "SLEEPING"} /\ k' = WakeupS(k, t)
    BY <1>4, ThreadsAssumption DEF InputArrives, InputTimeout, TimerWake, OutputDrains
  <2>2. i2c' = i2c
    BY <1>4 DEF InputArrives, InputTimeout, TimerWake, OutputDrains, data, bus
  <2>3. Calm /\ Gentle({t}) /\ (k.prio[k.cur] = HighPrio => k'.cur = k.cur)
    BY <2>1, WakeCalm
  <2>4. Locking'
    BY <1>1, <2>3, StillStep
  <2>5. Driven'
    BY <1>1, <2>1, <2>2, <2>3 DEF Driven, At, Gentle
  <2> QED BY <2>1, <2>3, <2>4, <2>5 DEF Gentle
<1> QED BY <1>2, <1>3, <1>4 DEF Interrupt
-----------------------------------------------------------------------------
(* The kernel's side of the invariant *)

\* What a thread has done to the kernel: main has created u, t has started, or
\* the step is like the others.
LEMMA RunGoes ==
    ASSUME Kept, Locking, Booting, NoError, NEW t \in Thread, Run(t)
    PROVE  /\ Locking' /\ Went(t)
           /\ \/ Gentle({})
              \/ Starts(t) /\ (t = "serial" \/ t = "mpu")
              \/ /\ t = "main" /\ Gentle({"serial"}) /\ ~Has(pc'["main"], BeforeSerial)
                 /\ k.st["serial"] = "WTSTART"
              \/ /\ t = "main" /\ Gentle({"mpu"}) /\ ~Has(pc'["main"], BeforeSerial)
                 /\ ~Has(pc'["main"], BeforeMpu) /\ k.st["mpu"] = "WTSTART"
<1>1. CASE Procedures(t)
  BY <1>1, ProceduresGo
<1>2. CASE t = "main" /\ Main
  <2>1. CASE Create("b_serial", "serial", "b_mpu")
    BY <1>2, <2>1, CreateGoes
  <2>2. CASE Create("b_mpu", "mpu", "b_loop")
    BY <1>2, <2>2, CreateGoes
  <2> QED BY <1>2, <2>1, <2>2, InitBusGoes, ConfigureGoes, WhoAmIGoes, MainSleepGoes DEF Main
<1>3. CASE t = "serial" /\ Serial
  BY <1>3, SerialGoes
<1>4. CASE t = "mpu" /\ Mpu
  BY <1>4, MpuGoes
<1> QED BY <1>1, <1>2, <1>3, <1>4 DEF Run

\* Starting is what a thread does first and at no other place.
LEMMA StartsFirst ==
    ASSUME Kept, Locking, NEW t \in Thread, Run(t), t = "serial" \/ t = "mpu"
    PROVE  /\ At(t, "s_start") => t = "serial" /\ SerialStart
           /\ At(t, "m_start") => t = "mpu" /\ MpuStart
<1>1. CASE Procedures(t)
  BY <1>1, ProceduresChange DEF At, Printing, Driving, Ranging
<1>2. CASE t = "serial" /\ Serial
  <2>1. At(t, "s_start") => SerialStart
    BY <1>2, SerialChanges
  <2>2. ~At(t, "m_start")
    <3>1. k.cur = t
      BY <1>2, SerialChanges
    <3>2. Stack(t, pc[t])
      BY DEF Locking, Stacked
    <3>3. Head(pc[t]) \in Labels(t)
      BY <3>2, StackIs
    <3> QED BY <1>2, <3>3 DEF At, Labels, Printing, Driving, Ranging
  <2> QED BY <1>2, <2>1, <2>2
<1>3. CASE t = "mpu" /\ Mpu
  <2>1. At(t, "m_start") => MpuStart
    BY <1>3, MpuChanges
  <2>2. ~At(t, "s_start")
    <3>1. Stack(t, pc[t])
      BY DEF Locking, Stacked
    <3>2. Head(pc[t]) \in Labels(t)
      BY <3>1, StackIs
    <3> QED BY <1>3, <3>2 DEF At, Labels, Driving
  <2> QED BY <1>3, <2>1, <2>2
<1> QED BY <1>1, <1>2, <1>3 DEF Run

LEMMA RunDriven ==
    ASSUME Kept, Locking, Driven, Booting, NoError, NEW t \in Thread, Run(t) PROVE Driven'
<1>1. Locking' /\ Went(t)
  BY RunGoes
<1>2. k.cur = t /\ k.st[t] = "CURRENT" /\ \A u \in Thread : u # t => pc'[u] = pc[u]
  BY <1>1, KernelIs DEF Went, Moved, Locking
<1>3. CASE StartTransfer(t)
  <2>1. k'.st[t] = "SUSPENDED" /\ At(t, "x_done")'
    BY <1>3, StartTransferGoes
  <2>2. i2c'.thread = t
    BY <1>3 DEF StartTransfer
  <2> QED BY <2>1, <2>2 DEF Driven, At
<1>4. CASE ~StartTransfer(t)
  <2>1. i2c'.thread = i2c.thread
    BY <1>4, ProceduresChange, MainChanges, MpuChanges, SerialChanges DEF Run
  <2>2. SUFFICES ASSUME i2c.thread # NoThread
                 PROVE  k'.st[i2c.thread] = "SUSPENDED" /\ At(i2c.thread, "x_done")'
    BY <2>1 DEF Driven, At
  <2>3. i2c.thread \in Thread /\ k.st[i2c.thread] = "SUSPENDED" /\ At(i2c.thread, "x_done")
    BY <2>2 DEF Driven
  <2>4. At(i2c.thread, "x_done")'
    BY <1>2, <2>1, <2>3 DEF At
  <2>5. k'.st[i2c.thread] = "SUSPENDED"
    <3>1. PICK u : u = i2c.thread
      OBVIOUS
    <3>2. u \in Thread /\ u # t /\ k.st[u] = "SUSPENDED"
      BY <1>2, <2>3, <3>1
    <3>3. CASE Gentle({}) \/ Starts(t)
      BY <3>1, <3>2, <3>3 DEF Gentle, Starts
    <3>4. CASE Gentle({"serial"}) /\ k.st["serial"] = "WTSTART"
      BY <3>1, <3>2, <3>4 DEF Gentle
    <3>5. CASE Gentle({"mpu"}) /\ k.st["mpu"] = "WTSTART"
      BY <3>1, <3>2, <3>5 DEF Gentle
    <3> QED BY <3>3, <3>4, <3>5, RunGoes
  <2> QED BY <2>4, <2>5
<1> QED BY <1>3, <1>4

LEMMA RunBooting ==
    ASSUME Kept, Locking, Booting, NoError, NEW t \in Thread, Run(t) PROVE Booting'
<1>1. Went(t)
  BY RunGoes
<1>2. k.cur = t /\ k.st[t] = "CURRENT" /\ \A u \in Thread : u # t => pc'[u] = pc[u]
  BY <1>1, KernelIs DEF Went, Moved, Locking
<1>3. /\ Has(pc'["main"], BeforeSerial) => Has(pc["main"], BeforeSerial)
      /\ Has(pc'["main"], BeforeMpu) => Has(pc["main"], BeforeMpu)
  <2>1. CASE t = "main"
    BY <1>1, <2>1 DEF Went
  <2>2. CASE t # "main"
    BY <1>2, <2>2, ThreadsAssumption
  <2> QED BY <2>1, <2>2
<1>4. "serial" \in Thread /\ "mpu" \in Thread
  BY ThreadsAssumption
<1>5. /\ Has(pc'["main"], BeforeSerial) => k'.st["serial"] = "WTSTART"
      /\ Has(pc'["main"], BeforeMpu) => k'.st["mpu"] = "WTSTART"
  <2>1. /\ Has(pc["main"], BeforeSerial) => k.st["serial"] = "WTSTART" /\ t # "serial"
        /\ Has(pc["main"], BeforeMpu) => k.st["mpu"] = "WTSTART" /\ t # "mpu"
    BY <1>2 DEF Booting
  <2>2. CASE Gentle({}) \/ Starts(t)
    BY <1>3, <1>4, <2>1, <2>2 DEF Gentle, Starts
  <2>3. CASE Gentle({"serial"}) /\ ~Has(pc'["main"], BeforeSerial)
    BY <1>3, <1>4, <2>1, <2>3 DEF Gentle
  <2>4. CASE ~Has(pc'["main"], BeforeSerial) /\ ~Has(pc'["main"], BeforeMpu)
    BY <2>4
  <2> QED BY <2>2, <2>3, <2>4, RunGoes
<1> QED BY <1>5 DEF Booting

LEMMA RunRaised ==
    ASSUME Kept, Locking, Booting, Raised, NoError, NEW t \in Thread, Run(t) PROVE Raised'
<1>1. Went(t)
  BY RunGoes
<1>2. k.cur = t /\ \A u \in Thread : u # t => pc'[u] = pc[u]
  BY <1>1 DEF Went, Moved
<1>3. "serial" \in Thread /\ "mpu" \in Thread /\ k.real \in [Thread -> Prios]
      /\ k.prio \in [Thread -> Prios] /\ Prios \in SUBSET Int /\ HighPrio \in Prios
  BY ThreadsAssumption, PriosAre, HighestPrio DEF Locking, Typed, KernelType
<1>4. \A u \in Thread : k'.real[u] <= k'.prio[u]
  <2>1. CASE Starts(t)
    BY <1>3, <2>1 DEF Starts, Raised
  <2>2. CASE ~Starts(t)
    BY <2>2, RunGoes DEF Gentle, Raised
  <2> QED BY <2>1, <2>2
<1>5. ASSUME NEW u \in {"serial", "mpu"} PROVE Starts(u) \/ k'.real[u] = k.real[u]
  <2>1. CASE Starts(t)
    BY <1>3, <1>5, <2>1 DEF Starts
  <2>2. CASE ~Starts(t)
    BY <2>2, RunGoes DEF Gentle
  <2> QED BY <2>1, <2>2
<1>6. ASSUME ~At("serial", "s_start")' PROVE k'.real["serial"] = HighPrio
  <2>1. CASE Starts("serial")
    BY <1>3, <2>1 DEF Starts
  <2>2. CASE ~Starts("serial")
    <3>1. ~At("serial", "s_start")
      <4>1. CASE t = "serial"
        BY <2>2, <4>1, StartsFirst, SerialStartGoes
      <4>2. CASE t # "serial"
        BY <1>2, <1>3, <1>6, <4>2 DEF At
      <4> QED BY <4>1, <4>2
    <3> QED BY <1>5, <2>2, <3>1 DEF Raised
  <2> QED BY <2>1, <2>2
<1>7. ASSUME ~At("mpu", "m_start")' PROVE k'.real["mpu"] = HighPrio
  <2>1. CASE Starts("mpu")
    BY <1>3, <2>1 DEF Starts
  <2>2. CASE ~Starts("mpu")
    <3>1. ~At("mpu", "m_start")
      <4>1. CASE t = "mpu"
        BY <2>2, <4>1, StartsFirst, MpuStartGoes
      <4>2. CASE t # "mpu"
        BY <1>2, <1>3, <1>7, <4>2 DEF At
      <4> QED BY <4>1, <4>2
    <3> QED BY <1>5, <2>2, <3>1 DEF Raised
  <2> QED BY <2>1, <2>2
<1> QED BY <1>4, <1>6, <1>7 DEF Raised

\* The running thread has the highest priority once it has started.
LEMMA RunsHighest ==
    ASSUME Locking, Raised, k.cur = "serial" \/ k.cur = "mpu",
           ~At(k.cur, "s_start"), ~At(k.cur, "m_start")
    PROVE  k.prio[k.cur] = HighPrio
<1>1. k.cur \in Thread /\ k.real[k.cur] <= k.prio[k.cur] /\ k.real[k.cur] = HighPrio
  BY KernelIs DEF Locking, Raised
<1>2. k.prio[k.cur] \in Prios /\ Prios \in SUBSET Int
  BY <1>1, PriosAre DEF Locking, Typed, KernelType
<1>3. PICK p \in Int : p = k.prio[k.cur]
  BY <1>2
<1>4. p <= HighPrio /\ HighPrio <= p /\ HighPrio \in Int
  BY <1>1, <1>2, <1>3, HighestPrio DEF HighPrio
<1> QED BY <1>3, <1>4
-----------------------------------------------------------------------------
(* The data's side of the invariant *)

LEMMA RangeArgIs ==
    ASSUME Locking, Ordering, NEW t \in Thread, Head(pc[t]) \in {"r_txbuf", "r_scale"}
    PROVE  RangeArg(t) \in Ranges /\ RangeArg(t) \in Int
<1>1. Head(pc[t]) \in Labels(t)
  <2>1. Stack(t, pc[t])
    BY DEF Locking, Stacked
  <2> QED BY <2>1, StackIs
<1>2. t = "main" \/ t = "serial"
  BY <1>1, ThreadsAssumption DEF Labels, Driving
<1>3. t = "serial" => ser.cmd \in DOMAIN RangeOf
  BY DEF Ordering
<1>4. \A c \in DOMAIN RangeOf : RangeOf[c] \in Ranges
  BY DEF RangeOf, Ranges
<1> QED BY <1>2, <1>3, <1>4 DEF RangeArg, Ranges

LEMMA ProceduresKept ==
    ASSUME Locking, Kept, Ordering, NEW t \in Thread, Procedures(t) PROVE Kept'
<1>1. CASE UNCHANGED data
  BY <1>1 DEF data, bus, Kept
<1>2. CASE StartTransfer(t)
  BY <1>2 DEF StartTransfer, Kept
<1>3. CASE BusyTimeout(t)
  BY <1>3 DEF BusyTimeout, Kept
<1>4. CASE EndTransfer(t)
  BY <1>4 DEF EndTransfer, Kept
<1>5. CASE RangeFill(t)
  <2>1. RangeArg(t) \in Int
    BY <1>5, RangeArgIs DEF RangeFill, Runs, At
  <2> QED BY <1>5, <2>1 DEF RangeFill, Kept, bus, ACCEL_CONFIG
<1>6. CASE RangeScale(t)
  <2>1. RangeArg(t) \in Ranges
    BY <1>6, RangeArgIs DEF RangeScale, Runs, At
  <2> QED BY <1>6, <2>1 DEF RangeScale, Kept, bus
<1> QED BY <1>1, <1>2, <1>3, <1>4, <1>5, <1>6
        DEF Procedures, PrintLock, PrintUnlock, Write, AcquireBus, ReleaseBus, RangeLock,
            RangeUnlock, RangeCheck, LockAt, UnlockAt

LEMMA MainKept == ASSUME Kept, Main PROVE Kept'
<1>1. CASE UNCHANGED data
  BY <1>1 DEF data, bus, Kept
<1>2. CASE InitBus
  BY <1>2 DEF InitBus, Kept
<1>3. CASE Reset \/ Power \/ Bandwidth
  <2>1. PICK p \in Int \X Int : txbuf' = p
    BY <1>3 DEF Reset, Power, Bandwidth, Configure, PWR_MGMT_1, PWR_MGMT_2, ACCEL_CONFIG_2
  <2>2. UNCHANGED <<res, i2c, mpu, ser>>
    BY <1>3 DEF Reset, Power, Bandwidth, Configure, bus
  <2> QED BY <2>1, <2>2 DEF Kept
<1>4. CASE WhoAmI
  BY <1>4 DEF WhoAmI, Kept, bus, WHO_AM_I
<1>5. CASE BootRange
  BY <1>5 DEF BootRange, Kept, bus
<1> QED BY <1>1, <1>2, <1>3, <1>4, <1>5 DEF Main, WhoAmIPrint, Create, MainSleep

LEMMA MpuKept == ASSUME Kept, Mpu PROVE Kept'
<1>0. /\ MSG_OK \in Int /\ MSG_TIMEOUT \in Int /\ MSG_RESET \in Int
      /\ \A i \in 1 .. 3 : ACC_AXIS[i] \in Int
  BY DEF MSG_OK, MSG_TIMEOUT, MSG_RESET, ACC_AXIS
<1>1. CASE UNCHANGED data
  BY <1>1 DEF data, bus, Kept
<1>2. CASE ReadHigh
  <2>1. PICK r \in Int : r = ACC_AXIS[mpu.axis]
    BY <1>0 DEF Kept
  <2>2. txbuf' = [txbuf EXCEPT ![1] = r] /\ UNCHANGED <<res, i2c, mpu, ser>>
    BY <1>2, <2>1 DEF ReadHigh, bus
  <2>3. txbuf' \in Int \X Int
    BY <2>1, <2>2 DEF Kept
  <2> QED BY <2>2, <2>3 DEF Kept
<1>3. CASE ReadLow
  BY <1>3 DEF ReadLow, Kept, bus
<1>4. CASE AxisDone
  <2>1. res["mpu"] \in Int
    BY <1>0, ThreadsAssumption DEF Kept
  <2>2. PICK n : n = IF mpu.axis < 3 THEN mpu.axis + 1 ELSE 1
    OBVIOUS
  <2>3. n \in 1 .. 3
    BY <2>2 DEF Kept
  <2>4. PICK g : g = IF res["mpu"] = MSG_OK THEN mpu.gen ELSE mpu.row[mpu.axis]
    OBVIOUS
  <2>5. g \in Int
    BY <2>4 DEF Kept
  <2>6. mpu' = [mpu EXCEPT !.got[mpu.axis] = res["mpu"], !.row[mpu.axis] = g, !.axis = n]
    BY <1>4, <2>2, <2>4 DEF AxisDone
  <2>7. PICK w, q : /\ w = [mpu.got EXCEPT ![mpu.axis] = res["mpu"]]
                    /\ q = [mpu.row EXCEPT ![mpu.axis] = g]
    OBVIOUS
  <2>8. w \in [1 .. 3 -> Int] /\ q \in [1 .. 3 -> Int]
    BY <2>1, <2>5, <2>7 DEF Kept
  <2>9. mpu' = [mpu EXCEPT !.got = w, !.row = q, !.axis = n]
    BY <2>6, <2>7 DEF Kept
  <2>10. UNCHANGED <<res, i2c, txbuf, ser>>
    BY <1>4 DEF AxisDone, bus
  <2> QED BY <2>3, <2>8, <2>9, <2>10 DEF Kept
<1>5. CASE UpdateCheck
  BY <1>0, <1>5 DEF UpdateCheck, Kept, bus
<1>6. CASE ConvertX \/ ConvertY \/ ConvertZ \/ Center
  <2>1. UNCHANGED <<res, i2c, txbuf, ser>>
    BY <1>6 DEF ConvertX, ConvertY, ConvertZ, Center, Convert, bus
  <2>2. mpu.gen \in Int /\ (mpu.gen + 1) % Updates \in Int /\ \A i \in 1 .. 3 : mpu.row[i] \in Int
    BY UpdatesAssumption DEF Kept
  <2>3. PICK a, b, c, d : /\ a = <<mpu.gen, mpu.row[1]>> /\ b = <<mpu.gen, mpu.row[2]>>
                          /\ c = <<Uncentred, mpu.row[3]>> /\ d = <<mpu.gen, mpu.row[3]>>
    OBVIOUS
  <2>4. a \in Value /\ b \in Value /\ c \in Value /\ d \in Value
    BY <2>2, <2>3 DEF Value, Uncentred
  <2>5. CASE ConvertX \/ ConvertY \/ ConvertZ
    <3>1. \/ mpu' = [mpu EXCEPT !.x = a]
          \/ mpu' = [mpu EXCEPT !.y = b]
          \/ mpu' = [mpu EXCEPT !.z = c]
      BY <2>3, <2>5 DEF ConvertX, ConvertY, ConvertZ
    <3> QED BY <2>1, <2>4, <3>1 DEF Kept
  <2>6. CASE Center
    <3>1. PICK g \in Int : g = (mpu.gen + 1) % Updates
      BY <2>2
    <3>2. mpu' = [mpu EXCEPT !.z = d, !.gen = g]
      BY <2>3, <2>6, <3>1 DEF Center
    <3> QED BY <2>1, <2>4, <3>1, <3>2 DEF Kept
  <2> QED BY <1>6, <2>5, <2>6
<1> QED BY <1>1, <1>2, <1>3, <1>4, <1>5, <1>6
        DEF Mpu, MpuStart, MpuLock, MpuTest, MpuUnlock, MpuSleep, LockAt, UnlockAt

LEMMA SerialKept == ASSUME Kept, Copied, Serial PROVE Kept'
<1>0. CounterLimit \in Nat /\ 0 \in 0 .. CounterLimit + 1
  BY LimitAssumption
<1>1. CASE UNCHANGED data
  BY <1>1 DEF data, bus, Kept
<1>2. CASE ReadTake
  BY <1>2 DEF ReadTake, bus, Kept
<1>3. CASE ControlSet
  BY <1>3 DEF ControlSet, bus, Kept
<1>4. CASE OwnEnable \/ OwnOption \/ OwnRange
  <2>1. CASE OwnEnable
    BY <2>1 DEF OwnEnable, bus, Kept
  <2>2. CASE OwnOption
    <3>1. PICK n \in Int : n = IF ser.cmd = "red" THEN 1 ELSE 0
      OBVIOUS
    <3>2. ser' = [ser EXCEPT !.option = n]
      BY <2>2, <3>1 DEF OwnOption
    <3> QED BY <2>2, <3>1, <3>2 DEF OwnOption, bus, Kept
  <2>3. CASE OwnRange
    BY <2>3 DEF OwnRange, bus, Kept
  <2> QED BY <1>4, <2>1, <2>2, <2>3
<1>5. CASE DegreesRead \/ GsRead
  <2>1. /\ UNCHANGED <<res, i2c, txbuf, mpu>>
        /\ ser' = [ser EXCEPT !.shown = Append(@, <<mpu.x, mpu.y, mpu.z>>[Len(@) + 1])]
        /\ Len(ser.shown) \in Nat
    <3>1. UNCHANGED <<res, i2c, txbuf, mpu>>
      BY <1>5 DEF DegreesRead, GsRead, CopyAxis, bus
    <3>2. ser' = [ser EXCEPT !.shown = Append(@, <<mpu.x, mpu.y, mpu.z>>[Len(@) + 1])]
      BY <1>5 DEF DegreesRead, GsRead, CopyAxis
    <3>3. Len(ser.shown) \in Nat
      BY DEF Kept
    <3> QED BY <3>1, <3>2, <3>3
  <2>2. Len(ser.shown) < 3
    BY <1>5 DEF DegreesRead, GsRead, CopyAxis, Runs, Copied
  <2>3. PICK v : v = <<mpu.x, mpu.y, mpu.z>>[Len(ser.shown) + 1]
    OBVIOUS
  <2>4. v \in Value
    <3>1. mpu.x \in Value /\ mpu.y \in Value /\ mpu.z \in Value
      BY DEF Kept
    <3>2. PICK j : j = Len(ser.shown) + 1
      OBVIOUS
    <3>3. v = <<mpu.x, mpu.y, mpu.z>>[j] /\ (j = 1 \/ j = 2 \/ j = 3)
      BY <2>1, <2>2, <2>3, <3>2
    <3> QED BY <3>1, <3>3
  <2>5. PICK w : w = Append(ser.shown, v)
    OBVIOUS
  <2>6. w \in Seq(Value)
    BY <2>4, <2>5 DEF Kept
  <2>7. ser' = [ser EXCEPT !.shown = w]
    BY <2>1, <2>3, <2>5
  <2> QED BY <2>1, <2>6, <2>7 DEF Kept
<1>6. CASE CountReset
  <2>1. PICK w : w = <<>>
    OBVIOUS
  <2>2. w \in Seq(Value)
    BY <2>1
  <2>3. ser' = [ser EXCEPT !.count = 0, !.shown = w]
    BY <1>6, <2>1 DEF CountReset
  <2> QED BY <1>0, <1>6, <2>2, <2>3 DEF CountReset, bus, Kept
<1>7. CASE SerialSleep
  <2>1. PICK n : n = IF ser.count > CounterLimit THEN ser.count ELSE ser.count + 1
    OBVIOUS
  <2>2. n \in 0 .. CounterLimit + 1
    <3>1. ser.count \in 0 .. CounterLimit + 1
      BY DEF Kept
    <3> QED BY <1>0, <2>1, <3>1
  <2>3. ser' = [ser EXCEPT !.count = n, !.cmd = NoCommand]
    BY <1>7, <2>1 DEF SerialSleep
  <2> QED BY <1>7, <2>2, <2>3 DEF SerialSleep, bus, Kept
<1> QED BY <1>1, <1>2, <1>3, <1>4, <1>5, <1>6, <1>7
        DEF Serial, SerialStart, ReadLock, ReadUnlock, CommandCheck, ControlLock, ControlUnlock,
            OwnLock, OwnUnlock, OutputLock, OutputTest, DegreesLock, DegreesUnlock, OutputUnlock,
            LockAt, UnlockAt

LEMMA InterruptKept == ASSUME Locking, Driven, Kept, Interrupt PROVE Kept'
<1>1. CASE UNCHANGED data
  BY <1>1 DEF data, bus, Kept
<1>2. CASE DmaFetch
  <2>1. Len(i2c.wire) < 2 /\ Len(i2c.wire) \in Nat /\ i2c.wire \in Seq(Int)
    <3>1. SendSize(i2c.thread) \in {1, 2}
      BY DEF SendSize
    <3>2. Len(i2c.wire) \in Nat /\ i2c.wire \in Seq(Int)
      BY DEF Kept
    <3>3. Len(i2c.wire) < SendSize(i2c.thread)
      BY <1>2 DEF DmaFetch
    <3> QED BY <3>1, <3>2, <3>3
  <2>2. txbuf[Len(i2c.wire) + 1] \in Int
    <3>1. Len(i2c.wire) + 1 \in {1, 2}
      BY <2>1
    <3> QED BY <3>1 DEF Kept
  <2>3. PICK w : w = Append(i2c.wire, txbuf[Len(i2c.wire) + 1])
    OBVIOUS
  <2>4. w \in Seq(Int) /\ Len(w) <= 2
    BY <2>1, <2>2, <2>3
  <2>5. i2c' = [i2c EXCEPT !.wire = w] /\ UNCHANGED <<res, txbuf, mpu, ser>>
    BY <1>2, <2>3 DEF DmaFetch
  <2> QED BY <2>4, <2>5 DEF Kept
<1>3. ASSUME NEW r \in {MSG_OK, MSG_TIMEOUT, MSG_RESET}, i2c.thread # NoThread, WakeTransfer(r)
      PROVE  Kept'
  <2>1. i2c.thread \in Thread
    BY <1>3 DEF Driven
  <2>2. PICK w : w = <<>>
    OBVIOUS
  <2>3. w \in Seq(Int) /\ Len(w) <= 2
    BY <2>2
  <2>4. i2c' = [i2c EXCEPT !.thread = NoThread, !.wire = w] /\ UNCHANGED <<txbuf, mpu, ser>>
        /\ res' = [res EXCEPT ![i2c.thread] = r]
    BY <1>3, <2>2 DEF WakeTransfer
  <2>5. res' \in [Thread -> {MSG_OK, MSG_TIMEOUT, MSG_RESET}]
    BY <2>1, <2>4 DEF Kept
  <2>6. /\ i2c' \in [state : {"STOP", "READY", "ACTIVE", "LOCKED"},
                     thread : Thread \cup {NoThread}, wire : Seq(Int)]
        /\ i2c'.wire = w
    BY <2>3, <2>4 DEF Kept
  <2> QED BY <2>3, <2>4, <2>5, <2>6 DEF Kept
<1>4. CASE InputArrives
  BY <1>4 DEF InputArrives, bus, Kept
<1> QED BY <1>1, <1>2, <1>3, <1>4
        DEF Interrupt, TransferComplete, TransferError, TransferTimeout, TransferFails,
            InputTimeout, TimerWake, OutputDrains

LEMMA RunKept ==
    ASSUME Locking, Kept, Ordering, Copied, NEW t \in Thread, Run(t) PROVE Kept'
BY ProceduresKept, MainKept, MpuKept, SerialKept DEF Run

\* What a thread that is not the serial or the MPU thread leaves alone.
LEMMA OthersLeave ==
    ASSUME Locking, Kept, NEW t \in Thread, Run(t)
    PROVE  /\ k.cur = t /\ (faults' = 0 => res' = res /\ faults = 0)
           /\ t # "serial" => UNCHANGED ser /\ mpu'.enable = mpu.enable
           /\ t # "mpu" => /\ mpu'.gen = mpu.gen
                          /\ mpu'.x = mpu.x /\ mpu'.y = mpu.y /\ mpu'.z = mpu.z
                          /\ mpu'.row = mpu.row /\ mpu'.axis = mpu.axis
BY ProceduresChange, MainChanges, MpuChanges, SerialChanges DEF Run

LEMMA HeadIs ==
    ASSUME Stacked, NEW t \in Thread PROVE Head(pc[t]) \in Labels(t)
<1>1. Stack(t, pc[t])
  BY DEF Stacked
<1> QED BY <1>1, StackIs

LEMMA WentIs ==
    ASSUME NEW t \in Thread, Went(t)
    PROVE  /\ Head(pc'[t]) \in Labels(t) /\ Head(pc'[t]) \in Succ(t, Head(pc[t]))
           /\ \A u \in Thread : u # t => pc'[u] = pc[u]
BY StackIs DEF Went, Moved

\* Where t is after a jump.
LEMMA GotoHead ==
    ASSUME Typed, Stacked, NEW t \in Thread, NEW a, NEW s \in Seq(Label), s # <<>>, s[1] = a,
           Goto(t, s)
    PROVE  Head(pc'[t]) = a
<1>1. PICK r : r = Tail(pc[t])
  OBVIOUS
<1>2. r \in Seq(Label)
  BY <1>1 DEF Typed, Stacked, Stack
<1>3. PICK q : q = s \o r
  OBVIOUS
<1>4. q # <<>> /\ Head(q) = a
  BY <1>2, <1>3
<1>5. pc'[t] = q
  BY <1>1, <1>3 DEF Goto, Typed
<1> QED BY <1>4, <1>5

LEMMA RunNoError ==
    ASSUME Locking, Kept, NoError, NEW t \in Thread, Run(t) PROVE NoError'
BY OthersLeave DEF NoError

LEMMA InterruptNoError == ASSUME Locking, Kept, NoError, Interrupt PROVE NoError'
<1>1. SUFFICES ASSUME faults' = 0, NEW u \in Thread PROVE res'[u] = MSG_OK
  BY DEF NoError
<1>2. faults = 0
  BY <1>1, InterruptChanges DEF Locking, Typed
<1>3. res[u] = MSG_OK
  BY <1>2 DEF NoError
<1> QED BY <1>1, <1>3, InterruptChanges

\* The commands that set the range are the ones that get there.
Setting == {"c_range", "c_call", "r_txbuf", "r_lock", "r_scale"}

LEMMA SettingSucc ==
    ASSUME NEW l \in Labels("serial"), NEW a \in Labels("serial"), a \in Succ("serial", l),
           a \in Setting
    PROVE  l \in Setting \/ (l = "s_check" /\ a = "c_range")
BY DEF Labels, Succ, Beneath, Setting, Printing, Driving, Ranging

LEMMA CheckRange ==
    ASSUME Locking, CommandCheck, Head(pc'["serial"]) = "c_range"
    PROVE  ser.cmd \in DOMAIN RangeOf
<1>0. Head(pc'["serial"]) = "c_range"
  OBVIOUS
<1>1. Typed /\ Stacked /\ "serial" \in Thread
  BY ThreadsAssumption DEF Locking
<1>2. {"s_out", "p_lock", "c_option", "c_set"} \subseteq Label
  BY ThreadsAssumption DEF Label, Labels, Printing
<1>3. SUFFICES ASSUME ser.cmd \notin DOMAIN RangeOf PROVE FALSE
  OBVIOUS
<1>4. CASE Goto("serial", <<"s_out">>)
  <2>1. PICK s : s = <<"s_out">>
    OBVIOUS
  <2>2. s \in Seq(Label) /\ s # <<>> /\ s[1] = "s_out" /\ Goto("serial", s)
    BY <1>2, <1>4, <2>1
  <2>3. Head(pc'["serial"]) = "s_out"
    BY <1>1, <2>2, GotoHead
  <2> QED BY <1>0, <2>3
<1>5. CASE Goto("serial", <<"p_lock", "c_set">>)
  <2>1. PICK s : s = <<"p_lock", "c_set">>
    OBVIOUS
  <2>2. s \in Seq(Label) /\ s # <<>> /\ s[1] = "p_lock" /\ Goto("serial", s)
    BY <1>2, <1>5, <2>1
  <2>3. Head(pc'["serial"]) = "p_lock"
    BY <1>1, <2>2, GotoHead
  <2> QED BY <1>0, <2>3
<1>6. CASE Goto("serial", <<"c_option">>)
  <2>1. PICK s : s = <<"c_option">>
    OBVIOUS
  <2>2. s \in Seq(Label) /\ s # <<>> /\ s[1] = "c_option" /\ Goto("serial", s)
    BY <1>2, <1>6, <2>1
  <2>3. Head(pc'["serial"]) = "c_option"
    BY <1>1, <2>2, GotoHead
  <2> QED BY <1>0, <2>3
<1>7. CASE Goto("serial", <<"p_lock", "p_lock", "p_lock", "s_out">>)
  <2>1. PICK s : s = <<"p_lock", "p_lock", "p_lock", "s_out">>
    OBVIOUS
  <2>2. s \in Seq(Label) /\ s # <<>> /\ s[1] = "p_lock" /\ Goto("serial", s)
    BY <1>2, <1>7, <2>1
  <2>3. Head(pc'["serial"]) = "p_lock"
    BY <1>1, <2>2, GotoHead
  <2> QED BY <1>0, <2>3
<1> QED BY <1>3, <1>4, <1>5, <1>6, <1>7 DEF CommandCheck

LEMMA RunOrdering ==
    ASSUME Locking, Kept, Booting, NoError, Ordering, NEW t \in Thread, Run(t) PROVE Ordering'
<1>1. Went(t) /\ "serial" \in Thread /\ Stacked
  BY RunGoes, ThreadsAssumption DEF Locking
<1>2. SUFFICES ASSUME Head(pc'["serial"]) \in Setting PROVE ser'.cmd \in DOMAIN RangeOf
  BY DEF Ordering, Setting
<1>3. CASE t # "serial"
  <2>1. pc'["serial"] = pc["serial"] /\ ser' = ser
    BY <1>1, <1>3, WentIs, OthersLeave
  <2> QED BY <1>2, <2>1 DEF Ordering, Setting
<1>4. CASE t = "serial"
  <2>1. \/ Head(pc["serial"]) \in Setting
        \/ Head(pc["serial"]) = "s_check" /\ Head(pc'["serial"]) = "c_range"
    <3>1. Head(pc["serial"]) \in Labels("serial")
      BY <1>1, HeadIs
    <3> QED BY <1>1, <1>2, <1>4, <3>1, WentIs, SettingSucc
  <2>2. ser'.cmd = ser.cmd
    <3>1. CASE Procedures(t)
      BY <3>1, ProceduresChange
    <3>2. CASE Serial
      BY <2>1, <3>2, SerialChanges DEF At, Setting
    <3> QED BY <1>4, <3>1, <3>2 DEF Run
  <2>3. ser.cmd \in DOMAIN RangeOf
    <3>1. CASE Head(pc["serial"]) \in Setting
      BY <3>1 DEF Ordering, Setting
    <3>2. CASE Head(pc["serial"]) = "s_check" /\ Head(pc'["serial"]) = "c_range"
      <4>1. ~Procedures(t)
        BY <1>4, <3>2, ProceduresChange DEF Printing, Driving, Ranging
      <4>2. CommandCheck
        BY <1>4, <3>2, <4>1, SerialChanges DEF Run, At
      <4> QED BY <3>2, <4>2, CheckRange
    <3> QED BY <2>1, <3>1, <3>2
  <2> QED BY <2>2, <2>3
<1> QED BY <1>3, <1>4

LEMMA InterruptOrdering == ASSUME Locking, Kept, Ordering, Interrupt PROVE Ordering'
BY InterruptChanges DEF Ordering, At
-----------------------------------------------------------------------------
(* The flags *)

\* Where the MPU thread reads the sensor with the flag set, it owns the mutex of
\* mpu.c.
Reading == Driving \cup {"a_high", "a_low", "a_value", "m_check",
                         "m_x", "m_y", "m_z", "m_center"}

LEMMA MpuOwns ==
    ASSUME Locking, Head(pc["mpu"]) \in Reading PROVE Holds("mpu", "acc")
<1>1. "mpu" \in Thread /\ "acc" \in Mutex /\ Stack("mpu", pc["mpu"])
  BY ThreadsAssumption, MutexesAssumption DEF Locking, Stacked
<1>2. Has(pc["mpu"], Under("acc"))
  <2>1. CASE Head(pc["mpu"]) \in Driving
    <3>1. PICK s : s = Tail(pc["mpu"])
      OBVIOUS
    <3>2. Beneath("mpu", Head(pc["mpu"])) # {}
      BY <2>1 DEF Beneath, Driving, Printing
    <3>3. Stack("mpu", s) /\ \A i \in 1 .. Len(s) : s[i] \in Beneath("mpu", Head(pc["mpu"]))
      BY <1>1, <3>1, <3>2, StackIs
    <3>4. 1 \in 1 .. Len(s) /\ s[1] \in Labels("mpu")
      BY <3>3 DEF Stack
    <3>5. s[1] \in {"a_low", "a_value"}
      BY <2>1, <3>3, <3>4 DEF Beneath, Labels, Driving, Printing
    <3>6. Has(s, Under("acc"))
      BY <3>4, <3>5 DEF Has, Under
    <3> QED BY <1>1, <3>1, <3>6, StackIs
  <2>2. CASE Head(pc["mpu"]) \notin Driving
    <3>1. Head(pc["mpu"]) \in Under("acc")
      BY <2>2 DEF Reading, Under
    <3> QED BY <1>1, <3>1, StackIs
  <2> QED BY <2>1, <2>2
<1>3. Waits("mpu", "acc") \/ Holds("mpu", "acc")
  BY <1>1, <1>2 DEF Locking, Owned, Needs
<1>4. ~Waits("mpu", "acc")
  BY <1>1 DEF Locking, Asked, Behind, Reading, Driving
<1> QED BY <1>3, <1>4

LEMMA SerialOwns ==
    ASSUME Locking, k.cur = "serial", At("serial", "c_enable") PROVE Holds("serial", "acc")
<1>1. "serial" \in Thread /\ "acc" \in Mutex /\ Stack("serial", pc["serial"])
  BY ThreadsAssumption, MutexesAssumption DEF Locking, Stacked
<1>2. Has(pc["serial"], Under("acc"))
  BY <1>1, StackIs DEF At, Under
<1>3. Waits("serial", "acc") \/ Holds("serial", "acc")
  BY <1>1, <1>2 DEF Locking, Owned, Needs
<1>4. ~Waits("serial", "acc")
  BY <1>1, KernelIs DEF Locking, Waits
<1> QED BY <1>3, <1>4

LEMMA ReadingSucc ==
    ASSUME NEW l \in Labels("mpu"), NEW a \in Labels("mpu"), a \in Succ("mpu", l), a \in Reading
    PROVE  l \in Reading \/ (l = "m_test" /\ a = "a_high")
BY DEF Labels, Succ, Beneath, Reading, Printing, Driving, Ranging

LEMMA RunEnabled ==
    ASSUME Locking, Kept, Booting, NoError, Enabled, NEW t \in Thread, Run(t) PROVE Enabled'
<1>1. Went(t) /\ "mpu" \in Thread /\ "serial" \in Thread /\ "acc" \in Mutex /\ Stacked /\ Typed
  BY RunGoes, ThreadsAssumption, MutexesAssumption DEF Locking
<1>2. SUFFICES ASSUME Head(pc'["mpu"]) \in Reading PROVE mpu'.enable
  BY DEF Enabled, Reading
<1>3. CASE t = "mpu"
  <2>1. mpu'.enable = mpu.enable
    BY <1>3, OthersLeave
  <2>2. CASE Head(pc["mpu"]) \in Reading
    BY <2>1, <2>2 DEF Enabled, Reading
  <2>3. CASE Head(pc["mpu"]) \notin Reading
    <3>1. Head(pc["mpu"]) = "m_test" /\ Head(pc'["mpu"]) = "a_high"
      <4>1. Head(pc["mpu"]) \in Labels("mpu")
        BY <1>1, HeadIs
      <4> QED BY <1>1, <1>2, <1>3, <2>3, <4>1, WentIs, ReadingSucc
    <3>2. ~Procedures(t)
      BY <1>3, <3>1, ProceduresChange DEF Printing, Driving, Ranging
    <3>3. MpuTest
      BY <1>3, <3>1, <3>2, MpuChanges DEF Run, At
    <3>4. mpu.enable
      <4>1. "m_unlock" \in Label
        BY ThreadsAssumption DEF Label, Labels
      <4>2. SUFFICES ASSUME ~mpu.enable PROVE FALSE
        OBVIOUS
      <4>3. Goto("mpu", <<"m_unlock">>)
        BY <3>3, <4>2 DEF MpuTest
      <4>4. Head(pc'["mpu"]) = "m_unlock"
        <5>1. PICK s : s = <<"m_unlock">>
          OBVIOUS
        <5>2. s \in Seq(Label) /\ s # <<>> /\ s[1] = "m_unlock" /\ Goto("mpu", s)
          BY <4>1, <4>3, <5>1
        <5> QED BY <1>1, <5>2, GotoHead
      <4> QED BY <3>1, <4>4
    <3> QED BY <2>1, <3>4
  <2> QED BY <2>2, <2>3
<1>4. CASE t # "mpu"
  <2>1. pc'["mpu"] = pc["mpu"]
    BY <1>1, <1>4, WentIs
  <2>2. mpu.enable /\ Holds("mpu", "acc")
    BY <1>2, <2>1, MpuOwns DEF Enabled, Reading
  <2>3. ~(t = "serial" /\ At("serial", "c_enable"))
    <3>1. SUFFICES ASSUME t = "serial", At("serial", "c_enable") PROVE FALSE
      OBVIOUS
    <3>2. k.cur = "serial"
      BY <1>1, <3>1 DEF Went
    <3>3. Holds("serial", "acc")
      BY <3>1, <3>2, SerialOwns
    <3> QED BY <1>1, <2>2, <3>3 DEF Locking, Listed
  <2>4. mpu'.enable = mpu.enable
    BY <2>3, ProceduresChange, SerialChanges, OthersLeave DEF Run
  <2> QED BY <2>2, <2>4
<1> QED BY <1>3, <1>4

\* In the middle of a command to start or stop.
Midway == {"c_unset", "c_own", "c_flag"}

LEMMA MidwaySucc ==
    ASSUME NEW l \in Labels("serial"), NEW a \in Labels("serial"), a \in Succ("serial", l)
    PROVE  /\ l = "c_enable" => a = "c_unset"
           /\ l = "c_flag" => a = "c_unlock"
           /\ l \in {"c_unset", "c_own"} => a \in Midway
           /\ l \notin Midway /\ l # "c_enable" => a \notin Midway
BY DEF Labels, Succ, Beneath, Midway, Printing, Driving, Ranging

LEMMA RunAgreed ==
    ASSUME Locking, Kept, Booting, NoError, Agreed, NEW t \in Thread, Run(t) PROVE Agreed'
<1>1. Went(t) /\ "serial" \in Thread /\ Stacked
  BY RunGoes, ThreadsAssumption DEF Locking
<1>2. CASE t # "serial"
  <2>1. pc'["serial"] = pc["serial"] /\ ser' = ser /\ mpu'.enable = mpu.enable
    BY <1>1, <1>2, WentIs, OthersLeave
  <2> QED BY <2>1 DEF Agreed
<1>3. CASE t = "serial"
  <2>0. PICK l, a : l = Head(pc["serial"]) /\ a = Head(pc'["serial"])
    OBVIOUS
  <2>1. l \in Labels("serial") /\ a \in Labels("serial") /\ a \in Succ("serial", l)
    BY <1>1, <1>3, <2>0, WentIs, HeadIs
  <2>2. /\ l = "c_enable" => a = "c_unset"
        /\ l = "c_flag" => a = "c_unlock"
        /\ l \in {"c_unset", "c_own"} => a \in Midway
        /\ l \notin Midway /\ l # "c_enable" => a \notin Midway
    BY <2>1, MidwaySucc
  <2>3. CASE Procedures(t)
    <3>1. ser' = ser /\ mpu'.enable = mpu.enable /\ l \notin Midway /\ l # "c_enable"
      BY <1>3, <2>0, <2>3, ProceduresChange DEF Midway, Printing, Driving, Ranging
    <3> QED BY <2>0, <2>2, <3>1 DEF Agreed, Midway
  <2>4. CASE Serial
    <3>1. /\ IF l = "c_enable" THEN mpu'.enable = (ser.cmd = "str") ELSE mpu'.enable = mpu.enable
          /\ IF l = "c_flag" THEN ser'.enable = (ser.cmd = "str") ELSE ser'.enable = ser.enable
          /\ l \in Midway \cup {"c_enable"} => ser'.cmd = ser.cmd
      BY <2>0, <2>4, SerialChanges DEF At, Midway
    <3>2. CASE l = "c_enable"
      BY <2>0, <2>2, <3>1, <3>2 DEF Agreed, Midway
    <3>3. CASE l = "c_flag"
      BY <2>0, <2>2, <3>1, <3>3 DEF Agreed, Midway
    <3>4. CASE l \in {"c_unset", "c_own"}
      BY <2>0, <2>2, <3>1, <3>4 DEF Agreed, Midway
    <3>5. CASE l \notin Midway \cup {"c_enable"}
      <4>1. mpu'.enable = mpu.enable /\ ser'.enable = ser.enable
        BY <3>1, <3>5 DEF Midway
      <4> QED BY <2>0, <2>2, <3>5, <4>1 DEF Agreed, Midway
    <3> QED BY <3>2, <3>3, <3>4, <3>5 DEF Midway
  <2> QED BY <1>3, <2>3, <2>4 DEF Run
<1> QED BY <1>2, <1>3

LEMMA InterruptFlags ==
    ASSUME Locking, Kept, Enabled, Agreed, Interrupt PROVE Enabled' /\ Agreed'
BY InterruptChanges DEF Enabled, Agreed, At
-----------------------------------------------------------------------------
(* The values *)

LEMMA ConvertingSucc ==
    ASSUME NEW l \in Labels("mpu"), NEW a \in Labels("mpu"), a \in Succ("mpu", l)
    PROVE  /\ l = "m_x" => a = "m_y"
           /\ l = "m_y" => a = "m_z"
           /\ l = "m_z" => a = "m_center"
           /\ l = "m_center" => a = "m_unlock"
           /\ l \notin {"m_x", "m_y", "m_z"} => a \notin Converting
BY DEF Labels, Succ, Beneath, Converting, Printing, Driving, Ranging

LEMMA RunWhole ==
    ASSUME Locking, Kept, Booting, NoError, Whole, NEW t \in Thread, Run(t) PROVE Whole'
<1>1. Went(t) /\ "mpu" \in Thread /\ Stacked /\ k.cur = t
  BY RunGoes, ThreadsAssumption DEF Locking, Went
<1>2. CASE t # "mpu"
  <2>1. pc'["mpu"] = pc["mpu"] /\ mpu'.x = mpu.x /\ mpu'.y = mpu.y /\ mpu'.z = mpu.z
    BY <1>1, <1>2, WentIs, OthersLeave
  <2>2. Head(pc["mpu"]) \notin Converting
    BY <1>1, <1>2 DEF Whole
  <2> QED BY <2>1, <2>2 DEF Whole
<1>3. CASE t = "mpu"
  <2>0. PICK l, a : l = Head(pc["mpu"]) /\ a = Head(pc'["mpu"])
    OBVIOUS
  <2>1. l \in Labels("mpu") /\ a \in Labels("mpu") /\ a \in Succ("mpu", l)
    BY <1>1, <1>3, <2>0, WentIs, HeadIs
  <2>2. /\ l = "m_x" => a = "m_y"
        /\ l = "m_y" => a = "m_z"
        /\ l = "m_z" => a = "m_center"
        /\ l = "m_center" => a = "m_unlock"
        /\ l \notin {"m_x", "m_y", "m_z"} => a \notin Converting
    BY <2>1, ConvertingSucc
  <2>3. CASE l \notin {"m_x", "m_y", "m_z", "m_center"}
    <3>1. mpu'.x = mpu.x /\ mpu'.y = mpu.y /\ mpu'.z = mpu.z
      BY <1>3, <2>0, <2>3, ProceduresChange, MpuChanges DEF Run
    <3> QED BY <2>0, <2>2, <2>3, <3>1 DEF Whole, Converting
  <2>4. CASE l \in {"m_x", "m_y", "m_z", "m_center"}
    <3>1. ~Procedures(t)
      BY <1>3, <2>0, <2>4, ProceduresChange DEF Printing, Driving, Ranging
    <3>2. Mpu
      BY <1>3, <3>1 DEF Run
    <3>3. CASE l = "m_x"
      <4>1. ConvertX
        BY <2>0, <3>2, <3>3, MpuChanges DEF At
      <4>2. mpu'.x[1] = mpu.gen /\ mpu'.gen = mpu.gen /\ k'.cur = "mpu"
        BY <1>1, <1>3, <4>1 DEF ConvertX, Convert, Kept
      <4> QED BY <2>0, <2>2, <3>3, <4>2 DEF Whole, Converting, At
    <3>4. CASE l = "m_y"
      <4>1. ConvertY
        BY <2>0, <3>2, <3>4, MpuChanges DEF At
      <4>2. mpu'.x = mpu.x /\ mpu'.y[1] = mpu.gen /\ mpu'.gen = mpu.gen /\ k'.cur = "mpu"
        BY <1>1, <1>3, <4>1 DEF ConvertY, Convert, Kept
      <4> QED BY <2>0, <2>2, <3>4, <4>2 DEF Whole, Converting, At
    <3>5. CASE l = "m_z"
      <4>1. ConvertZ
        BY <2>0, <3>2, <3>5, MpuChanges DEF At
      <4>2. mpu'.x = mpu.x /\ mpu'.y = mpu.y /\ mpu'.gen = mpu.gen /\ k'.cur = "mpu"
        BY <1>1, <1>3, <4>1 DEF ConvertZ, Convert, Kept
      <4> QED BY <2>0, <2>2, <3>5, <4>2 DEF Whole, Converting, At
    <3>6. CASE l = "m_center"
      <4>1. Center
        BY <2>0, <3>2, <3>6, MpuChanges DEF At
      <4>2. mpu'.x = mpu.x /\ mpu'.y = mpu.y /\ mpu'.z[1] = mpu.gen
        BY <4>1 DEF Center, Convert, Kept
      <4> QED BY <2>0, <2>2, <3>6, <4>2 DEF Whole, Converting, At
    <3> QED BY <2>4, <3>3, <3>4, <3>5, <3>6
  <2> QED BY <2>3, <2>4
<1> QED BY <1>2, <1>3

LEMMA InterruptWhole ==
    ASSUME Locking, Kept, Driven, Raised, Whole, Interrupt PROVE Whole'
<1>1. UNCHANGED <<pc, mpu>>
  BY InterruptChanges
<1>2. Head(pc["mpu"]) \in Converting => k'.cur = k.cur
  <2>1. SUFFICES ASSUME Head(pc["mpu"]) \in Converting PROVE k'.cur = k.cur
    OBVIOUS
  <2>2. k.cur = "mpu" /\ ~At(k.cur, "s_start") /\ ~At(k.cur, "m_start")
    BY <2>1 DEF Whole, Converting, At
  <2> QED BY <2>2, RunsHighest, InterruptGoes
<1> QED BY <1>1, <1>2 DEF Whole, At

\* Where a copy is under way, and where it is shown.
Shown == Copying \cup {"d_unlock", "f_write", "s_count"}

LEMMA CopyingSucc ==
    ASSUME NEW l \in Labels("serial"), NEW a \in Labels("serial"), a \in Succ("serial", l)
    PROVE  /\ l = "d_read" => a \in {"d_read", "d_unlock"}
           /\ l = "g_read" => a \in {"g_read", "f_write"}
           /\ l = "d_unlock" => a = "f_write"
           /\ l = "f_write" => a \in {"f_write", "s_count"}
           /\ a \in Copying => l \in Copying \cup {"d_lock", "s_test"}
BY DEF Labels, Succ, Beneath, Copying, Printing, Driving, Ranging

\* One more axis is copied: all are of the same conversion, and the copy is one of
\* the values.
LEMMA CopyGrows ==
    ASSUME Locking, Kept, Whole, Copied, NEW l \in Copying, NEW n \in Int, NEW next,
           CopyAxis(l, n, next)
    PROVE  /\ k' = k /\ k.cur = "serial" /\ mpu' = mpu /\ ~At("mpu", "m_center")
           /\ ser'.shown # <<>> /\ Len(ser'.shown) = Len(ser.shown) + 1
           /\ \A i \in 1 .. Len(ser'.shown) : ser'.shown[i][1] = mpu.x[1]
           /\ \A i \in 1 .. Len(ser'.shown) :
                  \/ i \in 1 .. Len(ser.shown) /\ ser'.shown[i] = ser.shown[i]
                  \/ ser'.shown[i] \in {mpu.x, mpu.y, mpu.z}
<1>1. /\ k' = k /\ k.cur = "serial" /\ mpu' = mpu /\ At("serial", l)
      /\ ser' = [ser EXCEPT !.shown = Append(@, <<mpu.x, mpu.y, mpu.z>>[Len(@) + 1])]
  BY DEF CopyAxis, Runs
<1>2. mpu.x[1] = mpu.y[1] /\ mpu.y[1] = mpu.z[1] /\ ~At("mpu", "m_center")
  BY <1>1 DEF Whole, Converting, At
<1>3. ser.shown \in Seq(Value) /\ Len(ser.shown) \in Nat
  BY DEF Kept
<1>4. Len(ser.shown) + 1 \in {1, 2, 3}
  <2>1. Len(ser.shown) < 3
    BY <1>1, <1>3 DEF Copied, Copying, At
  <2> QED BY <1>3, <2>1
<1>5. PICK v : v = <<mpu.x, mpu.y, mpu.z>>[Len(ser.shown) + 1]
  OBVIOUS
<1>6. v \in {mpu.x, mpu.y, mpu.z} /\ v[1] = mpu.x[1] /\ v \in Value
  <2>1. mpu.x \in Value /\ mpu.y \in Value /\ mpu.z \in Value
    BY DEF Kept
  <2>2. PICK j : j = Len(ser.shown) + 1
    OBVIOUS
  <2>3. v = <<mpu.x, mpu.y, mpu.z>>[j] /\ (j = 1 \/ j = 2 \/ j = 3)
    BY <1>4, <1>5, <2>2
  <2>4. v \in {mpu.x, mpu.y, mpu.z}
    BY <2>3
  <2> QED BY <1>2, <2>1, <2>4
<1>7. \A i \in 1 .. Len(ser.shown) : ser.shown[i][1] = mpu.x[1]
  <2>1. SUFFICES ASSUME NEW i \in 1 .. Len(ser.shown) PROVE ser.shown[i][1] = mpu.x[1]
    OBVIOUS
  <2>2. ser.shown # <<>>
    BY <1>3, <2>1
  <2> QED BY <1>1, <2>1, <2>2 DEF Copied, At
<1>8. PICK w : w = Append(ser.shown, v)
  OBVIOUS
<1>9. /\ w # <<>> /\ Len(w) = Len(ser.shown) + 1
      /\ \A i \in 1 .. Len(ser.shown) : w[i] = ser.shown[i]
      /\ w[Len(ser.shown) + 1] = v
  BY <1>3, <1>6, <1>8
<1>10. ser'.shown = w
  <2>1. ser' = [ser EXCEPT !.shown = w]
    BY <1>1, <1>5, <1>8
  <2> QED BY <2>1 DEF Kept
<1>11. \A i \in 1 .. Len(w) : i \in 1 .. Len(ser.shown) \/ i = Len(ser.shown) + 1
  BY <1>3, <1>9
<1>12. \A i \in 1 .. Len(w) : w[i][1] = mpu.x[1]
  BY <1>6, <1>7, <1>9, <1>11
<1> QED BY <1>1, <1>2, <1>6, <1>9, <1>10, <1>11, <1>12

LEMMA RunCopied ==
    ASSUME Locking, Kept, Booting, NoError, Whole, Copied, NEW t \in Thread, Run(t)
    PROVE  Copied'
<1>1. Went(t) /\ "serial" \in Thread /\ Stacked /\ Typed /\ k.cur = t
  BY RunGoes, ThreadsAssumption DEF Locking, Went
<1>2. CASE t # "serial"
  <2>1. pc'["serial"] = pc["serial"] /\ ser' = ser
    BY <1>1, <1>2, WentIs, OthersLeave
  <2>2. ~(Head(pc["serial"]) \in Copying /\ ser.shown # <<>>)
    BY <1>1, <1>2 DEF Copied
  <2> QED BY <2>1, <2>2 DEF Copied, At
<1>3. CASE t = "serial"
  <2>0. PICK l, a : l = Head(pc["serial"]) /\ a = Head(pc'["serial"])
    OBVIOUS
  <2>1. l \in Labels("serial") /\ a \in Labels("serial") /\ a \in Succ("serial", l)
    BY <1>1, <1>3, <2>0, WentIs, HeadIs
  <2>2. /\ l = "d_read" => a \in {"d_read", "d_unlock"}
        /\ l = "g_read" => a \in {"g_read", "f_write"}
        /\ l = "d_unlock" => a = "f_write"
        /\ l = "f_write" => a \in {"f_write", "s_count"}
        /\ a \in Copying => l \in Copying \cup {"d_lock", "s_test"}
    BY <2>1, CopyingSucc
  <2>3. \/ l = "d_read" /\ DegreesRead
        \/ l = "g_read" /\ GsRead
        \/ l = "s_count" /\ ser'.shown = <<>>
        \/ l \notin Copying \cup {"s_count"} /\ ser'.shown = ser.shown
    <3>1. CASE Procedures(t)
      BY <1>3, <2>0, <3>1, ProceduresChange DEF Printing, Driving, Ranging, Copying
    <3>2. CASE Serial
      BY <2>0, <3>2, SerialChanges DEF At, Copying
    <3> QED BY <1>3, <3>1, <3>2 DEF Run
  <2>4. CASE l = "d_read" /\ DegreesRead
    <3>1. CopyAxis("d_read", 2, <<"d_unlock">>)
      BY <2>4 DEF DegreesRead
    <3>2. /\ k' = k /\ k.cur = "serial" /\ mpu' = mpu
          /\ ser'.shown # <<>> /\ Len(ser'.shown) = Len(ser.shown) + 1
          /\ \A i \in 1 .. Len(ser'.shown) : ser'.shown[i][1] = mpu.x[1]
      BY <3>1, CopyGrows DEF Copying
    <3>3. a = "d_read" => Len(ser.shown) + 1 < 2
      <4>1. SUFFICES ASSUME ~(Len(ser.shown) + 1 < 2) PROVE a # "d_read"
        OBVIOUS
      <4>2. PICK s : s = <<"d_unlock">>
        OBVIOUS
      <4>3. s \in Seq(Label) /\ s # <<>> /\ s[1] = "d_unlock" /\ Goto("serial", s)
        <5>1. "d_unlock" \in Label
          BY ThreadsAssumption DEF Label, Labels
        <5> QED BY <3>1, <4>1, <4>2, <5>1 DEF CopyAxis
      <4>4. a = "d_unlock"
        BY <1>1, <2>0, <4>3, GotoHead
      <4> QED BY <4>4
    <3>4. Len(ser'.shown) \in Nat /\ Len(ser.shown) \in Nat
      BY <3>2 DEF Kept
    <3>5. 1 \in 1 .. Len(ser'.shown)
      BY <3>2, <3>4
    <3> QED BY <2>0, <2>2, <2>4, <3>2, <3>3, <3>4, <3>5 DEF Copied, Copying, At
  <2>5. CASE l = "g_read" /\ GsRead
    <3>1. CopyAxis("g_read", 3, <<"f_write", "f_write", "f_write", "s_count">>)
      BY <2>5 DEF GsRead
    <3>2. /\ k' = k /\ k.cur = "serial" /\ mpu' = mpu
          /\ ser'.shown # <<>> /\ Len(ser'.shown) = Len(ser.shown) + 1
          /\ \A i \in 1 .. Len(ser'.shown) : ser'.shown[i][1] = mpu.x[1]
      BY <3>1, CopyGrows DEF Copying
    <3>3. a = "g_read" => Len(ser.shown) + 1 < 3
      <4>1. SUFFICES ASSUME ~(Len(ser.shown) + 1 < 3) PROVE a # "g_read"
        OBVIOUS
      <4>2. PICK s : s = <<"f_write", "f_write", "f_write", "s_count">>
        OBVIOUS
      <4>3. s \in Seq(Label) /\ s # <<>> /\ s[1] = "f_write" /\ Goto("serial", s)
        <5>1. "f_write" \in Label /\ "s_count" \in Label
          BY ThreadsAssumption DEF Label, Labels
        <5> QED BY <3>1, <4>1, <4>2, <5>1 DEF CopyAxis
      <4>4. a = "f_write"
        BY <1>1, <2>0, <4>3, GotoHead
      <4> QED BY <4>4
    <3>4. Len(ser'.shown) \in Nat /\ Len(ser.shown) \in Nat
      BY <3>2 DEF Kept
    <3>5. 1 \in 1 .. Len(ser'.shown)
      BY <3>2, <3>4
    <3> QED BY <2>0, <2>2, <2>5, <3>2, <3>3, <3>4, <3>5 DEF Copied, Copying, At
  <2>6. CASE l = "s_count" /\ ser'.shown = <<>>
    BY <2>6 DEF Copied
  <2>7. CASE l \notin Copying \cup {"s_count"} /\ ser'.shown = ser.shown
    <3>1. CASE ser.shown = <<>>
      BY <2>7, <3>1 DEF Copied
    <3>2. CASE ser.shown # <<>>
      <4>1. l \in {"d_unlock", "f_write"}
        BY <2>0, <2>7, <3>2 DEF Copied
      <4>2. a \in {"f_write", "s_count"}
        BY <2>2, <4>1
      <4> QED BY <2>0, <2>7, <4>2 DEF Copied, Copying, At
    <3> QED BY <3>1, <3>2
  <2> QED BY <2>3, <2>4, <2>5, <2>6, <2>7
<1> QED BY <1>2, <1>3

LEMMA InterruptCopied ==
    ASSUME Locking, Kept, Driven, Raised, Copied, Interrupt PROVE Copied'
<1>1. UNCHANGED <<pc, mpu>> /\ ser'.shown = ser.shown
  BY InterruptChanges
<1>2. Head(pc["serial"]) \in Copying /\ ser.shown # <<>> => k'.cur = k.cur
  <2>1. SUFFICES ASSUME Head(pc["serial"]) \in Copying, ser.shown # <<>> PROVE k'.cur = k.cur
    OBVIOUS
  <2>2. k.cur = "serial" /\ ~At(k.cur, "s_start") /\ ~At(k.cur, "m_start")
    BY <2>1 DEF Copied, Copying, At
  <2>3. k.prio[k.cur] = HighPrio
    BY <2>2, RunsHighest
  <2> QED BY <2>3, InterruptGoes
<1> QED BY <1>1, <1>2 DEF Copied, At

\* Where the rows are all there.
LEMMA ReceivedSucc ==
    ASSUME NEW l \in Labels("mpu"), NEW a \in Labels("mpu"), a \in Succ("mpu", l)
    PROVE  /\ l \notin {"a_low", "a_value"} \cup Received => a \notin Received
           /\ l \in {"m_check", "m_x", "m_y", "m_z"} => a \in Received \cup {"m_unlock"}
           /\ l \in {"m_check", "m_unlock"} => a # "m_center"
           /\ l = "m_center" => a = "m_unlock"
           /\ a = "m_center" => l = "m_z"
BY DEF Labels, Succ, Beneath, Received, Converting, Printing, Driving, Ranging

LEMMA ReceivedLabels == ~({"a_low", "a_value"} \cap Received # {})
BY DEF Received, Converting

\* An axis is done, and its row is there.
LEMMA AxisRows ==
    ASSUME Locking, Kept, NoError, Rows, faults = 0, AxisDone
    PROVE  Rows' /\ UNCHANGED <<ser, mpu.x, mpu.y, mpu.z>> /\ Head(pc'["mpu"]) # "m_center"
<1>1. res["mpu"] = MSG_OK /\ "mpu" \in Thread /\ Typed /\ Stacked
  BY ThreadsAssumption DEF NoError, Locking
<1>2. PICK n : n = IF mpu.axis < 3 THEN mpu.axis + 1 ELSE 1
  OBVIOUS
<1>3. mpu' = [mpu EXCEPT !.got[mpu.axis] = res["mpu"], !.row[mpu.axis] = mpu.gen, !.axis = n]
  BY <1>1, <1>2 DEF AxisDone, Kept
<1>4. /\ mpu'.axis = n /\ mpu'.gen = mpu.gen /\ mpu'.x = mpu.x /\ mpu'.y = mpu.y /\ mpu'.z = mpu.z
      /\ mpu'.row = [mpu.row EXCEPT ![mpu.axis] = mpu.gen]
      /\ mpu.axis \in 1 .. 3 /\ mpu.row \in [1 .. 3 -> Int]
  BY <1>3 DEF Kept
<1>5. Head(pc["mpu"]) = "a_value" /\ ser' = ser
  BY <1>1 DEF AxisDone, Runs, At
<1>6. \A i \in 1 .. mpu.axis - 1 : mpu.row[i] = mpu.gen
  BY <1>5, ReceivedLabels DEF Rows
<1>7. \A i \in 1 .. mpu.axis : mpu'.row[i] = mpu'.gen
  <2>1. SUFFICES ASSUME NEW i \in 1 .. mpu.axis PROVE mpu'.row[i] = mpu.gen
    BY <1>4
  <2>2. i \in 1 .. 3 /\ (i = mpu.axis \/ i \in 1 .. mpu.axis - 1)
    BY <1>4
  <2> QED BY <1>4, <1>6, <2>2
<1>8. CASE mpu.axis < 3
  <2>1. PICK s : s = <<"a_high">>
    OBVIOUS
  <2>2. s \in Seq(Label) /\ s # <<>> /\ s[1] = "a_high" /\ Goto("mpu", s)
    <3>1. "a_high" \in Label
      BY ThreadsAssumption DEF Label, Labels
    <3>2. Goto("mpu", <<IF mpu.axis < 3 THEN "a_high" ELSE "m_check">>)
      BY DEF AxisDone
    <3>3. <<IF mpu.axis < 3 THEN "a_high" ELSE "m_check">> = s
      BY <1>8, <2>1
    <3> QED BY <2>1, <3>1, <3>2, <3>3
  <2>3. Head(pc'["mpu"]) = "a_high"
    BY <1>1, <2>2, GotoHead
  <2>4. Head(pc'["mpu"]) \notin Received /\ mpu'.axis - 1 = mpu.axis
    BY <1>2, <1>4, <1>8, <2>3 DEF Received, Converting
  <2> QED BY <1>4, <1>5, <1>7, <2>3, <2>4 DEF Rows
<1>9. CASE ~(mpu.axis < 3)
  <2>1. PICK s : s = <<"m_check">>
    OBVIOUS
  <2>2. s \in Seq(Label) /\ s # <<>> /\ s[1] = "m_check" /\ Goto("mpu", s)
    <3>1. "m_check" \in Label
      BY ThreadsAssumption DEF Label, Labels
    <3>2. Goto("mpu", <<IF mpu.axis < 3 THEN "a_high" ELSE "m_check">>)
      BY DEF AxisDone
    <3>3. <<IF mpu.axis < 3 THEN "a_high" ELSE "m_check">> = s
      BY <1>9, <2>1
    <3> QED BY <2>1, <3>1, <3>2, <3>3
  <2>3. Head(pc'["mpu"]) = "m_check"
    BY <1>1, <2>2, GotoHead
  <2>4. Head(pc'["mpu"]) \in Received /\ mpu'.axis = 1 /\ mpu.axis = 3
    BY <1>2, <1>4, <1>9, <2>3 DEF Received
  <2> QED BY <1>4, <1>5, <1>7, <2>3, <2>4 DEF Rows
<1> QED BY <1>8, <1>9

LEMMA RunFresh ==
    ASSUME Locking, Kept, Booting, NoError, Whole, Copied, Fresh, NEW t \in Thread, Run(t)
    PROVE  Fresh'
<1>1. Went(t) /\ "mpu" \in Thread /\ Stacked /\ k.cur = t
  BY RunGoes, ThreadsAssumption DEF Locking, Went
<1>2. SUFFICES ASSUME faults' = 0
      PROVE  /\ Rows' /\ Fits(mpu'.x) /\ Fits(mpu'.y)
             /\ Fits(mpu'.z) \/ At("mpu", "m_center")'
             /\ \A i \in 1 .. Len(ser'.shown) : Fits(ser'.shown[i])
  BY DEF Fresh
<1>3. faults = 0 /\ Rows /\ Fits(mpu.x) /\ Fits(mpu.y) /\ (Fits(mpu.z) \/ At("mpu", "m_center"))
      /\ \A i \in 1 .. Len(ser.shown) : Fits(ser.shown[i])
  BY <1>2, OthersLeave DEF Fresh
<1>4. CASE t # "mpu"
  <2>1. /\ pc'["mpu"] = pc["mpu"] /\ mpu'.x = mpu.x /\ mpu'.y = mpu.y /\ mpu'.z = mpu.z
        /\ mpu'.gen = mpu.gen /\ mpu'.row = mpu.row /\ mpu'.axis = mpu.axis
    BY <1>1, <1>4, WentIs, OthersLeave
  <2>2. Rows' /\ Fits(mpu'.x) /\ Fits(mpu'.y) /\ (Fits(mpu'.z) \/ At("mpu", "m_center")')
    BY <1>3, <2>1 DEF Rows, At
  <2>3. \A i \in 1 .. Len(ser'.shown) : Fits(ser'.shown[i])
    <3>1. CASE DegreesRead \/ GsRead
      <4>1. \/ CopyAxis("d_read", 2, <<"d_unlock">>)
            \/ CopyAxis("g_read", 3, <<"f_write", "f_write", "f_write", "s_count">>)
        BY <3>1 DEF DegreesRead, GsRead
      <4>2. SUFFICES ASSUME NEW i \in 1 .. Len(ser'.shown) PROVE Fits(ser'.shown[i])
        OBVIOUS
      <4>3. /\ ~At("mpu", "m_center")
            /\ \/ i \in 1 .. Len(ser.shown) /\ ser'.shown[i] = ser.shown[i]
               \/ ser'.shown[i] \in {mpu.x, mpu.y, mpu.z}
        BY <4>1, <4>2, CopyGrows DEF Copying
      <4> QED BY <1>3, <4>3
    <3>2. CASE ~(DegreesRead \/ GsRead)
      <4>1. ser'.shown = ser.shown \/ ser'.shown = <<>>
        BY <1>4, <3>2, OthersLeave, ProceduresChange, SerialChanges DEF Run
      <4>2. CASE ser'.shown = <<>>
        <5>1. PICK e : e = ser'.shown
          OBVIOUS
        <5>2. Len(e) = 0
          BY <4>2, <5>1
        <5> QED BY <5>1, <5>2
      <4> QED BY <1>3, <4>1, <4>2
    <3> QED BY <3>1, <3>2
  <2> QED BY <2>2, <2>3
<1>5. CASE t = "mpu"
  <2>0. PICK l, a : l = Head(pc["mpu"]) /\ a = Head(pc'["mpu"])
    OBVIOUS
  <2>1. l \in Labels("mpu") /\ a \in Labels("mpu") /\ a \in Succ("mpu", l)
    BY <1>1, <1>5, <2>0, WentIs, HeadIs
  <2>2. ser' = ser
    BY <1>5, OthersLeave
  <2>3. CASE AxisDone
    <3>1. Rows' /\ UNCHANGED <<mpu.x, mpu.y, mpu.z>> /\ l # "m_center"
      BY <1>3, <2>0, <2>3, AxisRows DEF AxisDone, Runs, At
    <3> QED BY <1>3, <2>0, <2>2, <3>1 DEF At
  <2>4. CASE ~AxisDone /\ l \notin {"m_x", "m_y", "m_z", "m_center"}
    <3>1. /\ mpu'.x = mpu.x /\ mpu'.y = mpu.y /\ mpu'.z = mpu.z
          /\ mpu'.gen = mpu.gen /\ mpu'.row = mpu.row /\ mpu'.axis = mpu.axis
      BY <1>5, <2>0, <2>4, ProceduresChange, MpuChanges DEF Run
    <3>2. l # "a_value" /\ (l = "a_low" => ReadLow)
      BY <1>5, <2>0, <2>4, ProceduresChange, MpuChanges DEF Run, At, Printing, Driving, Ranging
    <3>3. l = "a_low" => a \notin Received
      <4>1. SUFFICES ASSUME ReadLow PROVE a \notin Received
        BY <3>2
      <4>2. PICK s : s = <<"x_acquire", "a_value">>
        OBVIOUS
      <4>3. s \in Seq(Label) /\ s # <<>> /\ s[1] = "x_acquire" /\ Goto("mpu", s)
        <5>1. "x_acquire" \in Label /\ "a_value" \in Label
          BY ThreadsAssumption DEF Label, Labels, Driving
        <5> QED BY <4>1, <4>2, <5>1 DEF ReadLow
      <4>4. a = "x_acquire"
        BY <1>1, <2>0, <4>3, GotoHead DEF Locking
      <4> QED BY <4>4 DEF Received, Converting
    <3>4. CASE l = "m_check"
      <4>1. mpu.axis = 1 /\ \A i \in 1 .. 3 : mpu.row[i] = mpu.gen
        BY <1>3, <2>0, <3>4 DEF Rows, Received
      <4>2. Rows'
        BY <2>0, <3>1, <4>1 DEF Rows
      <4> QED BY <1>3, <2>0, <2>2, <2>4, <3>1, <4>2 DEF At
    <3>5. CASE l # "m_check"
      <4>1. l \notin Received /\ a \notin Received
        BY <2>1, <2>4, <3>2, <3>3, <3>5, ReceivedSucc DEF Received, Converting
      <4>2. Rows'
        BY <1>3, <2>0, <3>1, <4>1 DEF Rows
      <4> QED BY <1>3, <2>0, <2>2, <2>4, <3>1, <4>2 DEF At
    <3> QED BY <3>4, <3>5
  <2>5. CASE l \in {"m_x", "m_y", "m_z", "m_center"}
    <3>1. ~Procedures(t)
      BY <1>5, <2>0, <2>5, ProceduresChange DEF Printing, Driving, Ranging
    <3>2. Mpu
      BY <1>5, <3>1 DEF Run
    <3>3. mpu.axis = 1 /\ \A i \in 1 .. 3 : mpu.row[i] = mpu.gen
      BY <1>3, <2>0, <2>5 DEF Rows, Received, Converting
    <3>4. mpu'.row = mpu.row /\ mpu'.axis = 1
      BY <2>0, <2>5, <3>2, <3>3, MpuChanges
    <3>5. CASE l \in {"m_x", "m_y"}
      <4>1. ConvertX \/ ConvertY
        BY <2>0, <3>2, <3>5, MpuChanges DEF At
      <4>2. PICK v, w : v = <<mpu.gen, mpu.row[1]>> /\ w = <<mpu.gen, mpu.row[2]>>
        OBVIOUS
      <4>3. Fits(v) /\ Fits(w)
        BY <3>3, <4>2 DEF Fits
      <4>4. mpu' = [mpu EXCEPT !.x = v] \/ mpu' = [mpu EXCEPT !.y = w]
        BY <4>1, <4>2 DEF ConvertX, ConvertY
      <4>5. mpu'.gen = mpu.gen /\ mpu'.z = mpu.z /\ Fits(mpu'.x) /\ Fits(mpu'.y)
        BY <1>3, <4>3, <4>4 DEF Kept
      <4>6. Rows'
        BY <2>0, <3>3, <3>4, <4>5 DEF Rows
      <4> QED BY <1>3, <2>0, <2>2, <3>5, <4>5, <4>6 DEF At
    <3>6. CASE l = "m_z"
      <4>1. ConvertZ
        BY <2>0, <3>2, <3>6, MpuChanges DEF At
      <4>2. mpu'.gen = mpu.gen /\ mpu'.x = mpu.x /\ mpu'.y = mpu.y
        BY <4>1 DEF ConvertZ, Kept
      <4>3. Rows'
        BY <2>0, <3>3, <3>4, <4>2 DEF Rows
      <4>4. a = "m_center"
        BY <2>1, <3>6, ConvertingSucc
      <4> QED BY <1>3, <2>0, <2>2, <4>2, <4>3, <4>4 DEF At
    <3>7. CASE l = "m_center"
      <4>1. Center
        BY <2>0, <3>2, <3>7, MpuChanges DEF At
      <4>2. mpu'.x = mpu.x /\ mpu'.y = mpu.y /\ Fits(mpu'.z)
        BY <3>3, <4>1 DEF Center, Kept, Fits
      <4>3. a = "m_unlock"
        BY <2>1, <3>7, ConvertingSucc
      <4>4. Rows'
        BY <2>0, <3>4, <4>3 DEF Rows, Received, Converting
      <4> QED BY <1>3, <2>2, <4>2, <4>4
    <3> QED BY <2>5, <3>5, <3>6, <3>7
  <2> QED BY <2>3, <2>4, <2>5
<1> QED BY <1>4, <1>5

LEMMA InterruptFresh ==
    ASSUME Locking, Kept, Fresh, Interrupt PROVE Fresh'
<1>1. UNCHANGED <<pc, mpu>> /\ ser'.shown = ser.shown
  BY InterruptChanges
<1>2. faults' = 0 => faults = 0
  BY InterruptChanges DEF Locking, Typed
<1> QED BY <1>1, <1>2 DEF Fresh, Rows, At
-----------------------------------------------------------------------------
(* The invariant is inductive *)

IInv == /\ Locking /\ Driven /\ Booting /\ Raised /\ Kept /\ Ordering /\ NoError
        /\ Enabled /\ Agreed /\ Whole /\ Copied /\ Fresh

LEMMA RunKeeps == ASSUME IInv, NEW t \in Thread, Run(t) PROVE IInv'
BY RunGoes, RunDriven, RunBooting, RunRaised, RunKept, RunOrdering, RunNoError, RunEnabled,
   RunAgreed, RunWhole, RunCopied, RunFresh DEF IInv

LEMMA InterruptKeeps == ASSUME IInv, Interrupt PROVE IInv'
<1>1. Locking /\ Driven /\ Booting /\ Raised /\ Kept /\ Ordering /\ NoError
      /\ Enabled /\ Agreed /\ Whole /\ Copied /\ Fresh
  BY DEF IInv
<1>2. /\ Locking' /\ Driven' /\ Kept' /\ Ordering' /\ NoError'
      /\ Enabled' /\ Agreed' /\ Whole' /\ Copied' /\ Fresh'
  BY <1>1, InterruptGoes, InterruptKept, InterruptOrdering, InterruptNoError, InterruptFlags,
     InterruptWhole, InterruptCopied, InterruptFresh
<1>3. UNCHANGED pc
  BY <1>1, InterruptChanges
<1>4. Booting'
  BY <1>1, <1>3, InterruptGoes, ThreadsAssumption DEF Booting
<1>5. Raised'
  BY <1>1, <1>3, InterruptGoes DEF Raised, At
<1> QED BY <1>2, <1>4, <1>5 DEF IInv

LEMMA Stutters == ASSUME IInv, UNCHANGED vars PROVE IInv'
<1>1. Locking'
  BY DEF vars, IInv, Locking, Typed, Stacked, Asked, Owned, Listed, Spare, Sound, Leaks, Waits,
         Holds, At
<1>2. Driven' /\ Booting' /\ Raised'
  BY DEF vars, IInv, Driven, Booting, Raised, At
<1>3. Kept' /\ Ordering' /\ NoError'
  BY DEF vars, IInv, Kept, Ordering, NoError
<1>4. Enabled' /\ Agreed' /\ Whole' /\ Copied' /\ Fresh'
  BY DEF vars, IInv, Enabled, Agreed, Whole, Copied, Fresh, Rows, At
<1> QED BY <1>1, <1>2, <1>3, <1>4 DEF IInv

LEMMA NextKeeps == IInv /\ [Next]_vars => IInv'
BY RunKeeps, InterruptKeeps, Stutters DEF Next

\* The stacks main enters the loop of the threads with.
LEMMA InitStacks ==
    ASSUME Init
    PROVE  /\ pc \in [Thread -> Seq(Label)] /\ Stacked
           /\ Head(pc["main"]) = "p_lock" /\ Head(pc["serial"]) = "s_start"
           /\ Head(pc["mpu"]) = "m_start"
           /\ \A t \in Thread : Needs(pc[t]) = {}
<1>1. PICK s : s = <<"p_lock", "p_lock", "p_lock", "b_init">>
  OBVIOUS
<1>2. PICK u : u = <<"s_start">>
  OBVIOUS
<1>3. PICK v : v = <<"m_start">>
  OBVIOUS
<1>4. PICK w : w = <<"idle">>
  OBVIOUS
<1>5. /\ Stack("main", s) /\ Head(s) = "p_lock"
      /\ \A L : Has(s, L) <=> "p_lock" \in L \/ "p_lock" \in L \/ "p_lock" \in L \/ "b_init" \in L
  BY <1>1, StackOfFour DEF Labels, Beneath, Printing, Driving, Ranging
<1>6. Stack("serial", u) /\ Head(u) = "s_start" /\ \A L : Has(u, L) <=> "s_start" \in L
  BY <1>2, StackOfOne DEF Labels, Beneath, Printing, Driving, Ranging
<1>7. Stack("mpu", v) /\ Head(v) = "m_start" /\ \A L : Has(v, L) <=> "m_start" \in L
  BY <1>3, StackOfOne DEF Labels, Beneath, Printing, Driving, Ranging
<1>8. Stack("idle", w) /\ Head(w) = "idle" /\ \A L : Has(w, L) <=> "idle" \in L
  BY <1>4, StackOfOne DEF Labels, Beneath, Printing, Driving, Ranging
<1>9. pc = [main |-> s, serial |-> u, mpu |-> v, idle |-> w]
  BY <1>1, <1>2, <1>3, <1>4 DEF Init
<1>10. /\ pc["main"] = s /\ pc["serial"] = u /\ pc["mpu"] = v /\ pc["idle"] = w
  BY <1>9
<1>11. Stacked
  BY <1>5, <1>6, <1>7, <1>8, <1>10, ThreadsAssumption DEF Stacked
<1>12. pc \in [Thread -> Seq(Label)]
  <2>1. \A t \in Thread : pc[t] \in Seq(Label)
    <3>1. SUFFICES ASSUME NEW t \in Thread PROVE pc[t] \in Seq(Label)
      OBVIOUS
    <3>2. pc[t] \in Seq(Labels(t))
      BY <1>11 DEF Stacked, Stack
    <3>3. Labels(t) \subseteq Label
      BY DEF Label
    <3> QED BY <3>2, <3>3
  <2>2. pc = [t \in Thread |-> pc[t]]
    BY <1>9, ThreadsAssumption
  <2> QED BY <2>1, <2>2
<1>13. ASSUME NEW t \in Thread PROVE Needs(pc[t]) = {}
  <2>1. SUFFICES ASSUME NEW m \in Mutex PROVE ~Has(pc[t], Under(m))
    BY DEF Needs
  <2>2. {"p_lock", "b_init", "s_start", "m_start", "idle"} \cap Under(m) = {}
    BY MutexesAssumption DEF Under
  <2>3. PICK L : L = Under(m)
    OBVIOUS
  <2>4. /\ "p_lock" \notin L /\ "b_init" \notin L /\ "s_start" \notin L /\ "m_start" \notin L
        /\ "idle" \notin L
    BY <2>2, <2>3
  <2>5. ~Has(s, L) /\ ~Has(u, L) /\ ~Has(v, L) /\ ~Has(w, L)
    BY <1>5, <1>6, <1>7, <1>8, <2>4
  <2> QED BY <1>10, <2>3, <2>5, ThreadsAssumption
<1> QED BY <1>5, <1>6, <1>7, <1>10, <1>11, <1>12, <1>13

\* The kernel the program starts with: main runs, idle is ready.
LEMMA InitKernel ==
    ASSUME Init
    PROVE  /\ k \in KernelType(Prios) /\ Settled(k, {}) /\ Able(k, "idle")
           /\ \A t \in Thread : k.held[t] = <<>>
           /\ \A m \in Mutex : k.wq[m] = <<>> /\ k.own[m] = NoThread
           /\ k.st["serial"] = "WTSTART" /\ k.st["mpu"] = "WTSTART" /\ k.cur = "main"
           /\ \A t \in Thread : k.real[t] <= k.prio[t]
<1>1. /\ "main" \in Thread /\ "idle" \in Thread /\ Thread = {"main", "serial", "mpu", "idle"}
  BY ThreadsAssumption
<1>2. PICK r, st, prio, held, own, wq :
          /\ r = <<"idle">>
          /\ st = [main |-> "CURRENT", idle |-> "READY", serial |-> "WTSTART", mpu |-> "WTSTART"]
          /\ prio = [main |-> NormalPrio, idle |-> IdlePrio, serial |-> CreatePrio,
                     mpu |-> CreatePrio]
          /\ held = [t \in Thread |-> <<>>]
          /\ own = [m \in Mutex |-> NoThread]
          /\ wq = [m \in Mutex |-> <<>>]
  OBVIOUS
<1>3. k = [cur |-> "main", ready |-> r, st |-> st, prio |-> prio, real |-> prio,
           held |-> held, own |-> own, wq |-> wq]
  BY <1>2 DEF Init
<1>4. /\ r \in Seq(Thread) /\ held \in [Thread -> Seq(Mutex)] /\ wq \in [Mutex -> Seq(Thread)]
      /\ own \in [Mutex -> Thread \cup {NoThread}]
  BY <1>1, <1>2
<1>5. st \in [Thread -> States]
  BY <1>1, <1>2 DEF States
<1>6. prio \in [Thread -> Prios] /\ \A t \in Thread : prio[t] <= prio[t]
  <2>1. prio \in [Thread -> {0, 1, 2}]
    BY <1>1, <1>2 DEF NormalPrio, IdlePrio, CreatePrio
  <2> QED BY <2>1 DEF Prios, IdlePrio, HighPrio
<1>7. k \in KernelType(Prios)
  BY <1>1, <1>3, <1>4, <1>5, <1>6, KernelRecord
<1>8. /\ k.cur = "main" /\ k.ready = r /\ k.st = st /\ k.prio = prio /\ k.real = prio
      /\ k.held = held /\ k.own = own /\ k.wq = wq
  BY <1>3
<1>9. ToSet(r) = {"idle"} /\ IsInjective(r)
  BY <1>2 DEF ToSet, IsInjective
<1>10. PICK e : e = <<>>
  OBVIOUS
<1>11. ToSet(e) = {} /\ IsInjective(e) /\ \A m \in Mutex : wq[m] = e
  BY <1>2, <1>10 DEF ToSet, IsInjective
<1>12. ASSUME NEW t \in Thread PROVE InPlace(k, t)
  <2>1. /\ st["main"] = "CURRENT" /\ st["idle"] = "READY" /\ st["serial"] = "WTSTART"
        /\ st["mpu"] = "WTSTART"
    BY <1>2
  <2> QED BY <1>1, <1>8, <1>9, <1>11, <2>1 DEF InPlace
<1>13. Settled(k, {})
  BY <1>8, <1>9, <1>11, <1>12 DEF Settled
<1> QED BY <1>2, <1>6, <1>7, <1>8, <1>13 DEF Able

LEMMA InitHolds == ASSUME Init PROVE IInv
<1>1. /\ pc \in [Thread -> Seq(Label)] /\ Stacked
      /\ Head(pc["main"]) = "p_lock" /\ Head(pc["serial"]) = "s_start"
      /\ Head(pc["mpu"]) = "m_start"
      /\ \A t \in Thread : Needs(pc[t]) = {}
  BY InitStacks
<1>2. /\ k \in KernelType(Prios) /\ Settled(k, {}) /\ Able(k, "idle")
      /\ \A t \in Thread : k.held[t] = <<>>
      /\ \A m \in Mutex : k.wq[m] = <<>> /\ k.own[m] = NoThread
      /\ k.st["serial"] = "WTSTART" /\ k.st["mpu"] = "WTSTART" /\ k.cur = "main"
      /\ \A t \in Thread : k.real[t] <= k.prio[t]
  BY InitKernel
<1>0. PICK e : e = <<>>
  OBVIOUS
<1>3. e = <<>> /\ ToSet(e) = {} /\ Falling(e) /\ e \in Seq(Int) /\ e \in Seq(Value) /\ Len(e) = 0
  BY <1>0 DEF ToSet, Falling
<1>4. \A t \in Thread, m \in Mutex : ~Holds(t, m) /\ ~Waits(t, m)
  BY <1>2, <1>3 DEF Holds, Waits
<1>5. Typed
  BY <1>1, <1>2, FaultsAssumption DEF Typed, Init
<1>6. Locking
  BY <1>1, <1>2, <1>3, <1>4, <1>5, NoThreadAssumption
     DEF Locking, Asked, Owned, Listed, Spare, Sound
<1>7. Driven /\ Booting /\ Raised
  <2>1. i2c.thread = NoThread
    BY DEF Init
  <2> QED BY <1>1, <1>2, <2>1 DEF Driven, Booting, Raised, At
<1>8. Kept
  <2>1. res \in [Thread -> {MSG_OK, MSG_TIMEOUT, MSG_RESET}]
    BY DEF Init
  <2>2. i2c = [state |-> "STOP", thread |-> NoThread, wire |-> e] /\ txbuf \in Int \X Int
    BY <1>3 DEF Init
  <2>3. mpu \in [enable : BOOLEAN, scale : Ranges, axis : 1 .. 3,
                 got : [1 .. 3 -> Int], gen : Int, row : [1 .. 3 -> Int],
                 x : Value, y : Value, z : Value]
    <3>1. PICK g \in Int : g = 1 % Updates
      BY UpdatesAssumption
    <3>2. PICK v : v = <<0, 0>>
      OBVIOUS
    <3>3. v \in Value
      BY <3>2 DEF Value
    <3> QED BY <3>1, <3>2, <3>3 DEF Init, Ranges, MSG_OK
  <2>4. ser = [enable |-> TRUE, option |-> 0, count |-> 0, cmd |-> NoCommand, shown |-> e]
    BY <1>3 DEF Init
  <2>5. 0 \in 0 .. CounterLimit + 1
    BY LimitAssumption
  <2> QED BY <1>3, <2>1, <2>2, <2>3, <2>4, <2>5 DEF Kept
<1>9. NoError /\ Enabled
  BY DEF Init, NoError, Enabled
<1>10. Ordering /\ Agreed
  BY <1>1 DEF Init, Ordering, Agreed
<1>11. Whole
  BY <1>1 DEF Init, Whole, Converting
<1>12. Copied
  <2>1. ser.shown = <<>>
    BY DEF Init
  <2> QED BY <1>3, <2>1 DEF Copied
<1>13. Fresh
  <2>1. ser.shown = e /\ mpu.axis = 1 /\ Fits(mpu.x) /\ Fits(mpu.y) /\ Fits(mpu.z)
    BY <1>3 DEF Init, Fits
  <2>2. Head(pc["mpu"]) \notin Received
    BY <1>1 DEF Received, Converting
  <2> QED BY <1>3, <2>1, <2>2 DEF Fresh, Rows
<1> QED BY <1>6, <1>7, <1>8, <1>9, <1>10, <1>11, <1>12, <1>13 DEF IInv

\* The invariant the theorems below rest on: each thread owns the mutexes its
\* labels need, and the data are what the labels of the threads say.
THEOREM Invariant == Spec => []IInv
<1>1. Init => IInv
  BY InitHolds
<1>2. IInv /\ [Next]_vars => IInv'
  BY NextKeeps
<1> QED BY <1>1, <1>2, PTL DEF Spec
-----------------------------------------------------------------------------
(* The properties *)

\* Every variable stays in its type: the kernel's lists hold threads and mutexes,
\* no thread returns from its outermost function, a transfer is of two bytes at
\* most, and the range is one of the sensor's (mpu_acc_range writes it from a
\* command only commad_check has recognised).
THEOREM TypeCorrect == Spec => []TypeOK
<1>1. IInv => TypeOK
  <2> SUFFICES ASSUME IInv PROVE TypeOK
    OBVIOUS
  <2>1. k \in KernelType(IdlePrio .. HighPrio) /\ faults \in 0 .. MaxFaults
        /\ \A t \in Thread : pc[t] # <<>>
    BY DEF IInv, Locking, Typed, Stacked, Stack, Prios
  <2> QED BY <2>1 DEF IInv, Kept, TypeOK
<1> QED BY <1>1, Invariant, PTL

\* A thread in the driver owns its bus, or waits for the unlock that gives it the
\* mutex: i2cAcquireBus comes before every transfer, and the thread
\* the controller works for is the owner, asleep at the end of its transfer.
THEOREM BusIsExclusive == Spec => []BusExclusive
<1>1. IInv => BusExclusive
  <2> SUFFICES ASSUME IInv PROVE BusExclusive
    OBVIOUS
  <2>1. Locking /\ Typed /\ Stacked /\ Driven /\ "bus" \in Mutex
    BY MutexesAssumption DEF IInv, Locking
  <2>2. ASSUME NEW t \in Thread, InTransfer(t) PROVE k.own["bus"] = t \/ k.st[t] = "WTMTX"
    <3>1. Head(pc[t]) \in Under("bus")
      BY <2>2 DEF InTransfer, At, Under
    <3>2. "bus" \in Needs(pc[t])
      <4>1. Stack(t, pc[t])
        BY <2>1 DEF Stacked
      <4>2. Has(pc[t], Under("bus"))
        BY <3>1, <4>1, StackIs
      <4> QED BY <2>1, <4>2 DEF Needs
    <3>3. Waits(t, "bus") \/ Holds(t, "bus")
      BY <2>1, <3>2 DEF Locking, Owned
    <3> QED BY <2>1, <3>3, KernelIs DEF Locking, Listed, Waits
  <2>3. ASSUME i2c.thread # NoThread
        PROVE  i2c.thread = k.own["bus"] /\ At(i2c.thread, "x_done")
    <3>1. i2c.thread \in Thread /\ k.st[i2c.thread] = "SUSPENDED" /\ At(i2c.thread, "x_done")
      BY <2>1, <2>3 DEF Driven
    <3>2. InTransfer(i2c.thread)
      BY <3>1 DEF InTransfer
    <3> QED BY <2>2, <3>1, <3>2
  <2> QED BY <2>2, <2>3 DEF BusExclusive
<1> QED BY <1>1, Invariant, PTL

\* commad_check leaves the flags of mpu.c and of serialcomm.c equal: each command
\* sets both, under different mutexes, and no other thread writes them.
THEOREM FlagsStayTogether == Spec => []FlagsAgree
<1>1. IInv => FlagsAgree
  BY DEF IInv, Agreed, FlagsAgree, At
<1> QED BY <1>1, Invariant, PTL

\* What is shown comes out of one conversion, with the mutex
\* (serial_read_accaxis_d) or without it (serial_read_accaxis_g), whatever
\* transfers fail: the conversion has no call that blocks and its thread has the
\* highest priority, so that none runs in the middle of it.  The row values it
\* starts from may be old after a failed read (mpu_acc_update).
THEOREM ShownTogether == Spec => []ConvertedTogether
<1>1. IInv => ConvertedTogether
  <2> SUFFICES ASSUME IInv, NEW i \in 1 .. Len(ser.shown), NEW j \in 1 .. Len(ser.shown)
               PROVE  ser.shown[i][1] = ser.shown[j][1]
    BY DEF ConvertedTogether
  <2> QED BY DEF IInv, Copied
<1> QED BY <1>1, Invariant, PTL

\* As long as no transfer has failed the three reads of mpu_acc_update have all
\* stored their row, and what is shown was read in one update and converted by it.
LEMMA ShownWhole == ASSUME IInv PROVE SnapshotNotTorn
<1>1. SUFFICES ASSUME faults = 0,
                      NEW i \in 1 .. Len(ser.shown), NEW j \in 1 .. Len(ser.shown)
               PROVE  ser.shown[i] = ser.shown[j]
  BY DEF SnapshotNotTorn
<1>2. ser.shown[i][1] = ser.shown[j][1] /\ Fits(ser.shown[i]) /\ Fits(ser.shown[j])
  BY <1>1 DEF IInv, Copied, Fresh
<1>3. ser.shown \in Seq(Value)
  BY DEF IInv, Kept
<1>4. PICK v, w : v = ser.shown[i] /\ w = ser.shown[j]
  OBVIOUS
<1>5. v \in Value /\ w \in Value
  BY <1>3, <1>4
<1>6. v[1] = w[1] /\ v[1] = v[2] /\ w[1] = w[2]
  BY <1>2, <1>4 DEF Fits
<1>7. v = <<v[1], v[2]>> /\ w = <<w[1], w[2]>>
  BY <1>5 DEF Value
<1> QED BY <1>4, <1>6, <1>7

\* Whatever fails later: a torn snapshot takes an axis read that failed before it.
THEOREM SnapshotIsWhole == Spec => []SnapshotNotTorn
<1>1. IInv => SnapshotNotTorn
  BY ShownWhole
<1> QED BY <1>1, Invariant, PTL

\* The values change with the flag set: serial_set_control takes the mutex that
\* mpu_acc_update is called under, so that the flag cannot change between the test
\* of mpum_thread and the last conversion.
THEOREM StopStops == Spec => StopMeansStop
<1>1. IInv /\ [Next]_vars =>
          [<<mpu.x, mpu.y, mpu.z>>' # <<mpu.x, mpu.y, mpu.z>> => mpu.enable]_vars
  <2> SUFFICES ASSUME IInv, Next, <<mpu.x, mpu.y, mpu.z>>' # <<mpu.x, mpu.y, mpu.z>>
               PROVE  mpu.enable
    OBVIOUS
  <2>1. Locking /\ Kept /\ Enabled
    BY DEF IInv
  <2>2. ~Interrupt
    BY <2>1, InterruptChanges
  <2>3. PICK t \in Thread : Run(t)
    BY <2>2 DEF Next
  <2>4. t = "mpu" /\ ~Procedures(t)
    BY <2>1, <2>3, OthersLeave, ProceduresChange
  <2>5. Head(pc["mpu"]) \in {"m_x", "m_y", "m_z", "m_center"}
    BY <2>1, <2>3, <2>4, MpuChanges DEF Run
  <2> QED BY <2>1, <2>5 DEF Enabled
<1> QED BY <1>1, Invariant, PTL DEF Spec, StopMeansStop

\* As long as no transfer has failed no threads wait for each other in a circle:
\* serialcomm.c takes its mutex before that of mpu.c, both take theirs before the
\* bus, and mtprint.c takes its own alone.
LEMMA NoCircle == ASSUME IInv PROVE NoDeadlock
<1>1. SUFFICES ASSUME faults = 0, NEW S \in SUBSET Thread, S # {},
                      \A t \in S : \E u \in S : WaitsFor(t, u)
               PROVE  FALSE
  BY DEF NoDeadlock
<1>2. PICK R : R = {Rank(m) : m \in {x \in Mutex : \E t \in S : Waits(t, x)}}
  OBVIOUS
<1>3. ASSUME NEW t \in S, NEW m \in Mutex, NEW u \in S, Waits(t, m), k.own[m] = u
      PROVE  \E x \in Mutex : Waits(u, x) /\ Rank(x) > Rank(m)
  <2>1. Locking /\ u \in Thread /\ Holds(u, m)
    BY <1>1, <1>3 DEF IInv, Locking, Sound
  <2>2. PICK v \in S, x \in Mutex : Waits(u, x) /\ k.own[x] = v
    BY <1>1 DEF WaitsFor, Waits
  <2>3. ~Holds(u, x)
    BY <1>1, <2>1, <2>2 DEF IInv, Locking, Sound, Listed
  <2>4. Rank(m) < Rank(x)
    BY <2>1, <2>2, <2>3, WaiterLower DEF Holds
  <2> QED BY <2>2, <2>4, RankIs
<1>4. R # {}
  BY <1>1, <1>2 DEF WaitsFor, Waits
<1>5. \A r \in R : r \in 1 .. 4
  BY <1>2, RankIs
<1>6. ASSUME NEW r \in R PROVE \E q \in R : q > r
  <2>1. PICK m \in Mutex, t \in S : Waits(t, m) /\ r = Rank(m)
    BY <1>2
  <2>2. PICK u \in S, x \in Mutex : Waits(t, x) /\ k.own[x] = u
    BY <1>1 DEF WaitsFor, Waits
  <2>3. x = m
    BY <2>1, <2>2, KernelIs DEF IInv, Locking, Waits
  <2>4. PICK y \in Mutex : Waits(u, y) /\ Rank(y) > Rank(m)
    BY <1>3, <2>1, <2>2, <2>3
  <2>5. Rank(y) \in R
    BY <1>2, <2>2, <2>4
  <2> QED BY <2>1, <2>4, <2>5
<1> QED BY <1>4, <1>5, <1>6

\* Whatever fails later: a deadlock takes a transfer that failed before it, in
\* mpu_acc_range, which returns with the mutex of mpu.c locked.
THEOREM NeverDeadlocks == Spec => []NoDeadlock
<1>1. IInv => NoDeadlock
  BY NoCircle
<1> QED BY <1>1, Invariant, PTL
=============================================================================
