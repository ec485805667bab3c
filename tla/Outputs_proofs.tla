--------------------------- MODULE Outputs_proofs ---------------------------
(***************************************************************************)
(* Proofs about Outputs, for any periods and any stall.                    *)
(***************************************************************************)
EXTENDS Outputs, SequenceTheorems, TLAPS

-----------------------------------------------------------------------------
(* The workqueue as a sequence *)

\* An item is in the queue at most once.
Unique(q) == \A i, j \in 1..Len(q) : q[i] = q[j] => i = j

\* The item that has run leaves, and only it.
LEMMA TailLeaves ==
  ASSUME NEW q \in Seq(Items), q # <<>>, Unique(q)
  PROVE  /\ Tail(q) \in Seq(Items) /\ Unique(Tail(q))
         /\ Head(q) \in Items /\ Contains(q, Head(q))
         /\ \A x : Contains(Tail(q), x) <=> Contains(q, x) /\ x # Head(q)
<1>1. /\ Tail(q) \in Seq(Items) /\ Len(Tail(q)) = Len(q) - 1
      /\ Len(q) \in Nat /\ Len(q) >= 1
      /\ \A i \in 1..Len(Tail(q)) : Tail(q)[i] = q[i + 1]
      /\ Head(q) = q[1] /\ q[1] \in Items
  OBVIOUS
<1>2. \A i \in 1..Len(Tail(q)) : i + 1 \in 1..Len(q)
  BY <1>1
<1>3. Unique(Tail(q))
  BY <1>1, <1>2 DEF Unique
<1>4. ASSUME NEW x, Contains(Tail(q), x) PROVE Contains(q, x) /\ x # Head(q)
  <2>1. PICK i \in 1..Len(Tail(q)) : Tail(q)[i] = x
    BY <1>4 DEF Contains
  <2>2. q[i + 1] = x /\ i + 1 \in 1..Len(q) /\ i + 1 # 1 /\ 1 \in 1..Len(q)
    BY <1>1, <1>2, <2>1
  <2> QED
    BY <1>1, <2>2 DEF Contains, Unique
<1>5. ASSUME NEW x, Contains(q, x), x # Head(q) PROVE Contains(Tail(q), x)
  <2>1. PICK i \in 1..Len(q) : q[i] = x
    BY <1>5 DEF Contains
  <2>2. i # 1 /\ i - 1 \in 1..Len(Tail(q)) /\ (i - 1) + 1 = i
    BY <1>1, <1>5, <2>1
  <2> QED
    BY <1>1, <2>1, <2>2 DEF Contains
<1>6. Contains(q, Head(q))
  BY <1>1 DEF Contains
<1> QED
  BY <1>1, <1>3, <1>4, <1>5, <1>6

\* The last to leave leaves an empty queue.
LEMMA LastLeaves ==
  ASSUME NEW S, NEW q \in Seq(S), q # <<>>
  PROVE  Tail(q) \in Seq(S) /\ (Tail(q) # <<>> <=> Len(q) # 1)
<1>1. Tail(q) \in Seq(S) /\ Len(Tail(q)) = Len(q) - 1 /\ Len(q) \in Nat \ {0}
  OBVIOUS
<1>2. ASSUME Tail(q) # <<>> PROVE Len(Tail(q)) \in Nat \ {0}
  BY <1>1, <1>2, EmptySeq, Zenon
<1>3. ASSUME Tail(q) = <<>> PROVE Len(Tail(q)) = 0
  <2>1. Len(<<>>) = 0
    OBVIOUS
  <2> QED
    BY <1>3, <2>1, Zenon
<1> QED
  BY <1>1, <1>2, <1>3

\* Items that are not in the queue come in behind it, each once.
LEMMA Joined ==
  ASSUME NEW q \in Seq(Items), Unique(q), NEW s \in Seq(Items), Unique(s),
         \A x : Contains(s, x) => ~Contains(q, x)
  PROVE  /\ q \o s \in Seq(Items) /\ Unique(q \o s)
         /\ \A x : Contains(q \o s, x) <=> Contains(q, x) \/ Contains(s, x)
<1>1. /\ q \o s \in Seq(Items) /\ Len(q \o s) = Len(q) + Len(s)
      /\ Len(q) \in Nat /\ Len(s) \in Nat
      /\ \A i \in 1..Len(q) : (q \o s)[i] = q[i]
      /\ \A i \in (Len(q) + 1)..(Len(q) + Len(s)) : (q \o s)[i] = s[i - Len(q)]
  OBVIOUS
<1>2. \A i \in 1..(Len(q) + Len(s)) :
        \/ i \in 1..Len(q) /\ Contains(q, (q \o s)[i])
        \/ /\ i \in (Len(q) + 1)..(Len(q) + Len(s)) /\ i - Len(q) \in 1..Len(s)
           /\ Contains(s, (q \o s)[i])
  BY <1>1 DEF Contains
<1>3. ASSUME NEW i \in 1..(Len(q) + Len(s)), NEW j \in 1..(Len(q) + Len(s)),
             (q \o s)[i] = (q \o s)[j]
      PROVE  i = j
  <2>1. CASE i \in 1..Len(q) /\ j \in 1..Len(q)
    BY <1>1, <1>3, <2>1 DEF Unique
  <2>2. CASE i \notin 1..Len(q) /\ j \notin 1..Len(q)
    <3>1. s[i - Len(q)] = s[j - Len(q)] /\ i - Len(q) \in 1..Len(s)
          /\ j - Len(q) \in 1..Len(s)
      BY <1>1, <1>2, <1>3, <2>2
    <3>2. i - Len(q) = j - Len(q)
      BY <3>1 DEF Unique
    <3> QED
      BY <1>1, <3>2
  <2>3. CASE i \in 1..Len(q) <=> j \notin 1..Len(q)
    BY <1>2, <1>3, <2>3
  <2> QED
    BY <2>1, <2>2, <2>3
<1>4. Unique(q \o s)
  BY <1>1, <1>3 DEF Unique
<1>5. ASSUME NEW x, Contains(q \o s, x) PROVE Contains(q, x) \/ Contains(s, x)
  <2>1. PICK i \in 1..(Len(q) + Len(s)) : (q \o s)[i] = x
    BY <1>1, <1>5 DEF Contains
  <2> QED
    BY <1>2, <2>1
<1>6. ASSUME NEW x, Contains(q, x) PROVE Contains(q \o s, x)
  <2>1. PICK i \in 1..Len(q) : q[i] = x
    BY <1>6 DEF Contains
  <2>2. i \in 1..Len(q \o s) /\ (q \o s)[i] = x
    BY <1>1, <2>1
  <2> QED
    BY <2>2 DEF Contains
<1>7. ASSUME NEW x, Contains(s, x) PROVE Contains(q \o s, x)
  <2>1. PICK i \in 1..Len(s) : s[i] = x
    BY <1>7 DEF Contains
  <2>2. i + Len(q) \in (Len(q) + 1)..(Len(q) + Len(s)) /\ (i + Len(q)) - Len(q) = i
        /\ i + Len(q) \in 1..Len(q \o s)
    BY <1>1
  <2>3. (q \o s)[i + Len(q)] = x
    BY <1>1, <2>1, <2>2
  <2> QED
    BY <2>2, <2>3 DEF Contains
<1> QED
  BY <1>1, <1>4, <1>5, <1>6, <1>7

\* Submitting an item that waits already changes nothing.
LEMMA QueuedOnce ==
  ASSUME NEW q \in Seq(Items), Unique(q), NEW x \in Items
  PROVE  /\ queued(q, x) \in Seq(Items) /\ Unique(queued(q, x))
         /\ \A y : Contains(queued(q, x), y) <=> Contains(q, y) \/ y = x
<1>1. CASE Contains(q, x)
  BY <1>1 DEF queued
<1>2. CASE ~Contains(q, x)
  <2>1. queued(q, x) = q \o <<x>>
    <3>1. Append(q, x) = q \o <<x>>
      BY AppendIsConcat, Zenon
    <3> QED
      BY <1>2, <3>1 DEF queued
  <2>2. <<x>> \in Seq(Items) /\ Unique(<<x>>)
    BY DEF Unique
  <2>3. \A y : Contains(<<x>>, y) <=> y = x
    BY DEF Contains
  <2>4. PICK s \in Seq(Items) : s = <<x>>
    BY <2>2
  <2>5. \A y : Contains(s, y) => ~Contains(q, y)
    BY <1>2, <2>3, <2>4
  <2>6. /\ q \o s \in Seq(Items) /\ Unique(q \o s)
        /\ \A y : Contains(q \o s, y) <=> Contains(q, y) \/ Contains(s, y)
    BY <2>2, <2>4, <2>5, Joined
  <2> QED
    BY <2>1, <2>3, <2>4, <2>6
<1> QED
  BY <1>1, <1>2

\* An order of some items is a queue of them.
LEMMA OrderIsQueue ==
  ASSUME NEW S \in SUBSET Items, NEW s \in orders(S)
  PROVE  /\ s \in Seq(Items) /\ Unique(s)
         /\ \A x : Contains(s, x) <=> x \in S
<1>1. PICK n \in 0..3 : s \in [1..n -> S]
  BY DEF orders
<1>2. s \in Seq(Items) /\ Len(s) = n /\ \A i \in 1..n : s[i] \in S
  BY <1>1
<1>3. Unique(s)
  BY <1>1, <1>2 DEF orders, IsInjective, Unique
<1>4. \A x : Contains(s, x) => x \in S
  BY <1>2 DEF Contains
<1>5. \A x \in S : Contains(s, x)
  BY DEF orders
<1> QED
  BY <1>2, <1>3, <1>4, <1>5

-----------------------------------------------------------------------------
(* What every step keeps *)

Queued(item) == Contains(workq, item)

Delayed == {"render", "quiet", "stale"}

\* The queue and the timers agree with each other and with the flags they
\* work for: the rx item waits while frames do, a rendering that is due comes,
\* and never before its time.
Sound ==
  /\ rxq \in Seq(Frame)
  /\ workq \in Seq(Items) /\ Unique(workq)
  /\ Queued("rx") <=> rxq # <<>>
  /\ busy \in 0..STALL
  /\ DOMAIN timer = Delayed
  /\ \A t \in Delayed : timer[t] = Off \/ timer[t] \in Nat \ {0}
  /\ leds \in Nat /\ strip \in Nat
  /\ push_age \in 0..LED_MIN_PERIOD_MS /\ render_age = push_age
  /\ age \in 0..AgeMax
  /\ gap \in 0..PWR_STALE_MS
  /\ dirty \in BOOLEAN
  /\ quiet \in BOOLEAN
  /\ rail_on \in BOOLEAN
  /\ healthy \in BOOLEAN
  /\ timer["render"] # Off => timer["render"] + push_age = LED_MIN_PERIOD_MS
  /\ Queued("render") => push_age = LED_MIN_PERIOD_MS
  /\ dirty => timer["render"] # Off \/ Queued("render")

\* The numbers the deadlines are compared with, from the assumption on the times.
LEMMA Times ==
  /\ PWR_STALE_MS \in Nat \ {0} /\ LED_QUIET_MS \in Nat \ {0}
  /\ LED_MIN_PERIOD_MS \in Nat \ {0}
  /\ STALL \in Nat /\ LED_MIN_PERIOD_MS < LED_QUIET_MS
  /\ AgeMax \in Nat /\ AgeMax = PWR_STALE_MS + LED_QUIET_MS + STALL + 1
BY TimesAssumption DEF AgeMax

\* The timers that a frame leaves running.
LEMMA Rearmed ==
  ASSUME NEW f
  PROVE  /\ DOMAIN rearmed(f) = Delayed
         /\ rearmed(f)["quiet"] = LED_QUIET_MS
         /\ rearmed(f)["stale"] = PWR_STALE_MS
         /\ rearmed(f)["render"] = next_render(f)
<1>1. PICK r : r = next_render(f)
  OBVIOUS
<1>2. rearmed(f) = [render |-> r, quiet |-> LED_QUIET_MS, stale |-> PWR_STALE_MS]
  BY <1>1 DEF rearmed
<1> HIDE DEF next_render
<1> QED
  BY <1>1, <1>2 DEF Delayed

\* What handling a frame does to queue and timers.
LEMMA RxDoes ==
  ASSUME Sound, output_svc_rx
  PROVE  /\ rxq # <<>> /\ rxq' \in Seq(Frame)
         /\ busy = 0
         /\ workq' \in Seq(Items) /\ Unique(workq')
         /\ Queued("rx")' <=> rxq' # <<>>
         /\ Queued("quiet")' <=> Queued("quiet")
         /\ Queued("stale")' <=> Queued("stale")
         /\ Queued("render") => Queued("render")'
         /\ DOMAIN timer' = Delayed
         /\ timer'["quiet"] = LED_QUIET_MS /\ timer'["stale"] = PWR_STALE_MS
         /\ \/ timer'["render"] = timer["render"] /\ dirty' = dirty /\ leds' = leds
               /\ (Queued("render")' <=> Queued("render")) /\ ~quiet
            \/ /\ dirty' = TRUE /\ leds' \in Nat
               /\ \/ /\ push_age = LED_MIN_PERIOD_MS /\ timer'["render"] = Off
                     /\ Queued("render")'
                  \/ /\ push_age < LED_MIN_PERIOD_MS
                     /\ timer'["render"] = LED_MIN_PERIOD_MS - push_age
                     /\ (Queued("render")' <=> Queued("render"))
<1> DEFINE f == Head(rxq)
           now == rearmed(f).render = 0
           rest == IF Len(rxq) = 1 THEN Tail(workq) ELSE workq
<1>1. /\ workq # <<>> /\ Head(workq) = "rx" /\ busy = 0 /\ rxq' = Tail(rxq)
      /\ workq' = IF now THEN queued(rest, "render") ELSE rest
      /\ leds' = f.leds /\ dirty' = (dirty \/ changed(f))
  BY DEF output_svc_rx, Runs, submit
<1>0. timer' = IF now THEN [rearmed(f) EXCEPT !.render = Off] ELSE rearmed(f)
  BY DEF output_svc_rx
<1> HIDE DEF f, now, rest
<1>2. Queued("rx") /\ rxq # <<>>
  BY <1>1, TailLeaves DEF Sound, Queued
<1>3. f \in Frame /\ Tail(rxq) \in Seq(Frame) /\ (Tail(rxq) # <<>> <=> Len(rxq) # 1)
  <2>1. rxq \in Seq(Frame) /\ rxq # <<>>
    BY <1>2 DEF Sound
  <2>2. f \in Frame
    BY <2>1 DEF f
  <2> QED
    BY <2>1, <2>2, LastLeaves
<1>4. /\ rest \in Seq(Items) /\ Unique(rest)
      /\ \A x \in Delayed : Contains(rest, x) <=> Queued(x)
      /\ Contains(rest, "rx") <=> Len(rxq) # 1
  <2>1. CASE Len(rxq) = 1
    BY <1>1, <2>1, TailLeaves DEF Sound, Queued, Delayed, rest
  <2>2. CASE Len(rxq) # 1
    BY <1>2, <2>2 DEF Sound, Queued, rest
  <2> QED
    BY <2>1, <2>2
<1>5. /\ workq' \in Seq(Items) /\ Unique(workq')
      /\ \A x \in Items :
           Contains(workq', x) <=> Contains(rest, x) \/ (now /\ x = "render")
  <2>1. "render" \in Items
    BY DEF Items
  <2>2. /\ queued(rest, "render") \in Seq(Items) /\ Unique(queued(rest, "render"))
        /\ \A x \in Items : Contains(queued(rest, "render"), x)
                             <=> Contains(rest, x) \/ x = "render"
    BY <1>4, <2>1, QueuedOnce
  <2>3. CASE now
    <3>1. workq' = queued(rest, "render")
      BY <1>1, <2>3
    <3> QED
      BY <2>2, <2>3, <3>1
  <2>4. CASE ~now
    <3>1. workq' = rest
      BY <1>1, <2>4
    <3> QED
      BY <1>4, <2>4, <3>1
  <2> QED
    BY <2>3, <2>4
<1>6. /\ rearmed(f).quiet = LED_QUIET_MS /\ rearmed(f).stale = PWR_STALE_MS
      /\ rearmed(f).render = next_render(f)
      /\ DOMAIN rearmed(f) = Delayed
  BY Rearmed
<1>7. /\ DOMAIN timer' = Delayed
      /\ timer'["quiet"] = LED_QUIET_MS /\ timer'["stale"] = PWR_STALE_MS
      /\ timer'["render"] = IF now THEN Off ELSE next_render(f)
  <2>1. CASE now
    <3>1. PICK r : r = rearmed(f)
      OBVIOUS
    <3>2. timer' = [r EXCEPT !["render"] = Off] /\ DOMAIN r = Delayed
      BY <1>0, <1>6, <2>1, <3>1
    <3>3. /\ DOMAIN timer' = Delayed
          /\ timer'["quiet"] = r["quiet"] /\ timer'["stale"] = r["stale"]
          /\ timer'["render"] = Off
      BY <3>2 DEF Delayed
    <3> QED
      BY <1>6, <2>1, <3>1, <3>3
  <2>2. CASE ~now
    BY <1>0, <1>6, <2>2
  <2> QED
    BY <2>1, <2>2
<1>8. now <=> next_render(f) = 0
  BY <1>6 DEF now
<1>9. /\ Queued("rx")' <=> rxq' # <<>>
      /\ Queued("quiet")' <=> Queued("quiet")
      /\ Queued("stale")' <=> Queued("stale")
      /\ Queued("render")' <=> Queued("render") \/ now
  <2>1. /\ Contains(workq', "rx") <=> Contains(rest, "rx")
        /\ Contains(workq', "quiet") <=> Contains(rest, "quiet")
        /\ Contains(workq', "stale") <=> Contains(rest, "stale")
        /\ Contains(workq', "render") <=> Contains(rest, "render") \/ now
    BY <1>5 DEF Items
  <2>2. /\ Contains(rest, "rx") <=> rxq' # <<>>
        /\ Contains(rest, "quiet") <=> Contains(workq, "quiet")
        /\ Contains(rest, "stale") <=> Contains(workq, "stale")
        /\ Contains(rest, "render") <=> Contains(workq, "render")
    BY <1>1, <1>3, <1>4 DEF Delayed, Queued
  <2> QED
    BY <2>1, <2>2 DEF Queued
<1>10. CASE ~changed(f)
  <2>1. next_render(f) = timer["render"] /\ ~now
    BY <1>8, <1>10 DEF next_render, Sound, Delayed, Off
  <2>2. leds' = leds /\ dirty' = dirty /\ ~quiet
    BY <1>1, <1>10 DEF changed, Sound
  <2> QED
    BY <1>1, <1>2, <1>3, <1>5, <1>7, <1>9, <2>1, <2>2
<1>11. CASE changed(f)
  <2>1. next_render(f) = LED_MIN_PERIOD_MS - push_age
    BY <1>11 DEF next_render
  <2>2. dirty' = TRUE
    BY <1>1, <1>11
  <2>3. leds' \in Nat
    BY <1>1, <1>3, DarkAssumption DEF Frame
  <2>4. \/ push_age = LED_MIN_PERIOD_MS /\ now
        \/ push_age < LED_MIN_PERIOD_MS /\ ~now
    BY <1>8, <2>1, Times DEF Sound
  <2> QED
    BY <1>1, <1>2, <1>3, <1>5, <1>7, <1>9, <2>1, <2>2, <2>3, <2>4
<1> QED
  BY <1>10, <1>11

\* What a delayed item that runs does to the queue.
LEMMA RunDoes ==
  ASSUME Sound, NEW item \in Delayed, Runs(item), workq' = Tail(workq)
  PROVE  /\ busy = 0 /\ Queued(item) /\ workq # <<>> /\ Head(workq) = item
         /\ workq' \in Seq(Items) /\ Unique(workq')
         /\ \A x \in Items : Contains(workq', x) <=> Queued(x) /\ x # item
BY TailLeaves DEF Sound, Runs, Queued

\* What the arrival of a frame does to the queues.
LEMMA ArrivalDoes ==
  ASSUME Sound, NEW f \in Frame, frame_arrives(f)
  PROVE  /\ rxq' \in Seq(Frame) /\ rxq' # <<>>
         /\ workq' \in Seq(Items) /\ Unique(workq')
         /\ \A x \in Items : Contains(workq', x) <=> Queued(x) \/ x = "rx"
<1>1. rxq' = Append(rxq, f) /\ workq' = queued(workq, "rx")
  BY DEF frame_arrives
<1>2. rxq' \in Seq(Frame) /\ rxq' # <<>>
  BY <1>1 DEF Sound
<1>3. "rx" \in Items
  BY DEF Items
<1>4. /\ queued(workq, "rx") \in Seq(Items) /\ Unique(queued(workq, "rx"))
      /\ \A x \in Items : Contains(queued(workq, "rx"), x) <=> Queued(x) \/ x = "rx"
  BY <1>3, QueuedOnce DEF Sound, Queued
<1> QED
  BY <1>1, <1>2, <1>4

\* What a millisecond does to queue and timers.
LEMMA ElapseDoes ==
  ASSUME Sound, elapse
  PROVE  /\ \E s \in Seq(Items) :
              /\ workq' = workq \o s
              /\ \A x \in Items : Contains(s, x) => x \in Delayed /\ timer[x] = 1
         /\ workq' \in Seq(Items) /\ Unique(workq')
         /\ \A x \in Delayed : Contains(workq', x) <=> Queued(x) \/ timer[x] = 1
         /\ Contains(workq', "rx") <=> Queued("rx")
         /\ DOMAIN timer' = Delayed
         /\ \A x \in Delayed : timer'[x] = IF timer[x] > 1 THEN timer[x] - 1 ELSE Off
         /\ busy' \in 0..STALL
         /\ busy > 0 => busy' = busy - 1
         /\ busy = 0 => busy' = 0 /\ \A x \in Items : ~Queued(x)
<1> DEFINE due == {t \in {t \in DOMAIN timer : timer[t] = 1} : ~Contains(workq, t)}
<1>1. PICK s \in orders(due) : workq' = workq \o s
  BY DEF elapse
<1>2. \A t : t \in due <=> t \in Delayed /\ timer[t] = 1 /\ ~Contains(workq, t)
  BY DEF Sound
<1>3. due \in SUBSET Items
  BY <1>2 DEF Delayed, Items
<1> HIDE DEF due
<1>4. s \in Seq(Items) /\ Unique(s) /\ \A x : Contains(s, x) <=> x \in due
  BY <1>1, <1>3, OrderIsQueue
<1>5. /\ workq \o s \in Seq(Items) /\ Unique(workq \o s)
      /\ \A x : Contains(workq \o s, x) <=> Contains(workq, x) \/ Contains(s, x)
  BY <1>2, <1>4, Joined DEF Sound
<1>6. \A x \in Delayed : Contains(workq', x) <=> Queued(x) \/ timer[x] = 1
  BY <1>1, <1>2, <1>4, <1>5 DEF Queued
<1>7. Contains(workq', "rx") <=> Queued("rx")
  BY <1>1, <1>2, <1>4, <1>5 DEF Queued, Delayed
<1>8. /\ DOMAIN timer' = Delayed
      /\ \A x \in Delayed : timer'[x] = IF timer[x] > 1 THEN timer[x] - 1 ELSE Off
  BY DEF elapse, Sound
<1>9. /\ busy' \in 0..STALL
      /\ busy > 0 => busy' = busy - 1
      /\ busy = 0 => busy' = 0 /\ workq = <<>>
  BY Times DEF elapse, Sound
<1>10. workq = <<>> => \A x \in Items : ~Queued(x)
  BY DEF Queued, Contains
<1> QED
  BY <1>1, <1>2, <1>4, <1>5, <1>6, <1>7, <1>8, <1>9, <1>10

-----------------------------------------------------------------------------
(* The agreement holds *)

\* The service starts with no timer armed and nothing queued, which is Sound.
LEMMA SoundInit == Init => Sound
<1> SUFFICES ASSUME Init PROVE Sound
  OBVIOUS
<1>1. timer = [render |-> Off, quiet |-> Off, stale |-> Off]
  BY DEF Init
<1>2. DOMAIN timer = Delayed /\ \A t \in Delayed : timer[t] = Off
  BY <1>1 DEF Delayed
<1>3. rxq = <<>> /\ workq = <<>> /\ busy = 0
  BY DEF Init
<1>4. /\ rxq \in Seq(Frame) /\ workq \in Seq(Items) /\ Unique(workq)
      /\ \A x \in Items : ~Queued(x)
  BY <1>3 DEF Unique, Queued, Contains
<1>5. /\ leds \in Nat /\ strip \in Nat /\ busy \in 0..STALL
      /\ push_age \in 0..LED_MIN_PERIOD_MS /\ render_age = push_age
      /\ age \in 0..AgeMax /\ gap \in 0..PWR_STALE_MS
      /\ push_age = LED_MIN_PERIOD_MS
  BY Times DEF Init
<1>6. dirty = FALSE /\ quiet = FALSE /\ rail_on = FALSE /\ healthy = TRUE
  BY DEF Init
<1> QED
  BY <1>2, <1>3, <1>4, <1>5, <1>6 DEF Sound, Items, Delayed

\* Sound is inductive: the handlers, a frame's arrival and the clock keep the
\* agreement of the work queue, the delayed works and the message queue.
LEMMA SoundStep ==
  ASSUME Sound, [Next]_vars
  PROVE  Sound'
<1>1. CASE output_svc_rx
  <2>1. /\ rxq' \in Seq(Frame) /\ workq' \in Seq(Items) /\ Unique(workq')
        /\ Queued("rx")' <=> rxq' # <<>>
        /\ DOMAIN timer' = Delayed
    BY <1>1, RxDoes
  <2>2. /\ leds' \in Nat /\ strip' = strip /\ push_age' = push_age
        /\ render_age' = render_age /\ age' = 0 /\ gap' = gap /\ busy' = busy
        /\ quiet' = quiet /\ rail_on' = TRUE
    BY <1>1, RxDoes DEF output_svc_rx, submit, note_valid_rx, Sound
  <2>3. healthy' \in BOOLEAN
    BY <1>1 DEF output_svc_rx, note_valid_rx, Sound
  <2>4. dirty' \in BOOLEAN
    BY <1>1, RxDoes DEF Sound
  <2>5. /\ \A t \in Delayed : timer'[t] = Off \/ timer'[t] \in Nat \ {0}
        /\ timer'["render"] # Off => timer'["render"] + push_age = LED_MIN_PERIOD_MS
    <3>1. /\ timer["render"] = Off \/ timer["render"] \in Nat \ {0}
          /\ timer["render"] # Off => timer["render"] + push_age = LED_MIN_PERIOD_MS
          /\ push_age \in 0..LED_MIN_PERIOD_MS
      BY DEF Sound, Delayed
    <3>2. /\ timer'["quiet"] = LED_QUIET_MS /\ timer'["stale"] = PWR_STALE_MS
          /\ \/ timer'["render"] = timer["render"]
             \/ timer'["render"] = Off
             \/ /\ push_age < LED_MIN_PERIOD_MS
                /\ timer'["render"] = LED_MIN_PERIOD_MS - push_age
      BY <1>1, RxDoes
    <3>3. /\ timer'["render"] = Off \/ timer'["render"] \in Nat \ {0}
          /\ timer'["render"] # Off => timer'["render"] + push_age = LED_MIN_PERIOD_MS
      BY <3>1, <3>2, Times
    <3> QED
      BY <3>2, <3>3, Times DEF Delayed
  <2>6. Queued("render")' => push_age = LED_MIN_PERIOD_MS
    BY <1>1, RxDoes DEF Sound
  <2>7. dirty' => timer'["render"] # Off \/ Queued("render")'
    <3>1. /\ push_age \in 0..LED_MIN_PERIOD_MS
          /\ dirty => timer["render"] # Off \/ Queued("render")
      BY DEF Sound
    <3>2. \/ timer'["render"] = timer["render"] /\ dirty' = dirty
             /\ (Queued("render")' <=> Queued("render"))
          \/ Queued("render")'
          \/ /\ push_age < LED_MIN_PERIOD_MS
             /\ timer'["render"] = LED_MIN_PERIOD_MS - push_age
      BY <1>1, RxDoes
    <3>3. push_age < LED_MIN_PERIOD_MS => LED_MIN_PERIOD_MS - push_age # Off
      BY <3>1, Times DEF Off
    <3> QED
      BY <3>1, <3>2, <3>3, Zenon
  <2> QED
    BY <2>1, <2>2, <2>3, <2>4, <2>5, <2>6, <2>7, Times DEF Sound
<1>2. CASE render_handler
  <2>1. Runs("render") /\ workq' = Tail(workq) /\ "render" \in Delayed
    BY <1>2 DEF render_handler, Delayed
  <2>2. /\ busy = 0 /\ workq' \in Seq(Items) /\ Unique(workq')
        /\ Queued("render") /\ ~Queued("render")' /\ (Queued("rx")' <=> Queued("rx"))
    BY <2>1, RunDoes DEF Items, Queued
  <2>3. /\ UNCHANGED <<rxq, busy, timer, leds, rail_on, age, gap, healthy>>
        /\ render_age' = push_age' /\ push_age' \in {push_age, 0}
        /\ strip' \in {strip, leds}
        /\ dirty' = FALSE
    BY <1>2 DEF render_handler, frame_history, Sound
  <2>4. quiet' \in BOOLEAN
    BY <1>2 DEF render_handler, Sound
  <2>5. timer["render"] = Off
    BY <2>2, Times DEF Sound, Delayed
  <2> QED
    <3>1. /\ strip' \in Nat
          /\ push_age' \in 0..LED_MIN_PERIOD_MS /\ render_age' = push_age'
      BY <2>3, Times DEF Sound
    <3> QED
      BY <2>2, <2>3, <2>4, <2>5, <3>1 DEF Sound
<1>3. CASE quiet_handler \/ stale_handler
  <2>1. PICK item \in {"quiet", "stale"} : Runs(item) /\ workq' = Tail(workq)
    BY <1>3 DEF quiet_handler, stale_handler
  <2>2. /\ busy = 0 /\ workq' \in Seq(Items) /\ Unique(workq')
        /\ (Queued("render")' <=> Queued("render"))
        /\ (Queued("rx")' <=> Queued("rx"))
    BY <2>1, RunDoes DEF Items, Queued, Delayed
  <2>3. /\ UNCHANGED <<rxq, busy, timer, leds, age, gap, push_age, render_age>>
        /\ strip' \in {strip, 0}
    BY <1>3 DEF quiet_handler, stale_handler, led_vars, history, frame_history
  <2>4. UNCHANGED <<dirty, healthy>>
    BY <1>3 DEF quiet_handler, stale_handler, led_vars, history, frame_history
  <2>5. quiet' \in BOOLEAN /\ rail_on' \in BOOLEAN
    BY <1>3 DEF quiet_handler, stale_handler, led_vars, Sound
  <2> QED
    BY <2>2, <2>3, <2>4, <2>5 DEF Sound
<1>4. ASSUME NEW f \in Frame, frame_arrives(f) PROVE Sound'
  <2>1. /\ rxq' \in Seq(Frame) /\ rxq' # <<>>
        /\ workq' \in Seq(Items) /\ Unique(workq')
        /\ Queued("rx")' /\ (Queued("render")' <=> Queued("render"))
    BY <1>4, ArrivalDoes DEF Items, Queued
  <2>2. /\ UNCHANGED <<busy, timer, leds, strip, age, push_age, render_age>>
        /\ gap' = 0
    BY <1>4 DEF frame_arrives, led_vars
  <2>3. UNCHANGED <<dirty, quiet, rail_on, healthy>>
    BY <1>4 DEF frame_arrives, led_vars
  <2> QED
    BY <2>1, <2>2, <2>3, Times DEF Sound
<1>5. CASE other_item
  <2>1. /\ UNCHANGED <<rxq, workq, timer, leds, strip, age, gap, push_age, render_age>>
        /\ busy' \in 1..STALL
    BY <1>5 DEF other_item, led_vars, history, frame_history
  <2>2. UNCHANGED <<dirty, quiet, rail_on, healthy>>
    BY <1>5 DEF other_item, led_vars, history, frame_history
  <2> QED
    BY <2>1, <2>2, Times DEF Sound, Queued
<1>6. CASE elapse
  <2>1. /\ workq' \in Seq(Items) /\ Unique(workq') /\ busy' \in 0..STALL
        /\ (Queued("render")' <=> Queued("render") \/ timer["render"] = 1)
        /\ (Queued("rx")' <=> Queued("rx"))
        /\ DOMAIN timer' = Delayed
        /\ \A t \in Delayed : timer'[t] = IF timer[t] > 1 THEN timer[t] - 1 ELSE Off
    BY <1>6, ElapseDoes DEF Queued, Delayed
  <2>2. /\ UNCHANGED <<rxq, leds, strip>>
        /\ push_age' = upto(push_age, LED_MIN_PERIOD_MS)
        /\ render_age' = upto(render_age, LED_MIN_PERIOD_MS)
        /\ age' = upto(age, AgeMax) /\ gap' = upto(gap, PWR_STALE_MS)
    BY <1>6 DEF elapse
  <2>3. UNCHANGED <<dirty, quiet, rail_on>> /\ healthy' \in BOOLEAN
    BY <1>6 DEF elapse, Sound
  <2>4. /\ push_age' \in 0..LED_MIN_PERIOD_MS /\ render_age' = push_age'
        /\ age' \in 0..AgeMax /\ gap' \in 0..PWR_STALE_MS
    <3>1. /\ push_age \in 0..LED_MIN_PERIOD_MS /\ render_age = push_age
          /\ age \in 0..AgeMax /\ gap \in 0..PWR_STALE_MS
      BY DEF Sound
    <3> QED
      BY <2>2, <3>1, Times DEF upto
  <2>5. \A t \in Delayed : timer'[t] = Off \/ timer'[t] \in Nat \ {0}
    <3>1. \A t \in Delayed : timer[t] = Off \/ timer[t] \in Nat \ {0}
      BY DEF Sound
    <3> QED
      BY <2>1, <3>1 DEF Off
  <2>6. /\ timer'["render"] # Off =>
             timer'["render"] + push_age' = LED_MIN_PERIOD_MS
        /\ Queued("render")' => push_age' = LED_MIN_PERIOD_MS
        /\ timer["render"] # Off => timer'["render"] # Off \/ timer["render"] = 1
    <3>1. /\ push_age \in 0..LED_MIN_PERIOD_MS
          /\ timer["render"] = Off \/ timer["render"] \in Nat \ {0}
          /\ timer["render"] # Off => timer["render"] + push_age = LED_MIN_PERIOD_MS
          /\ Queued("render") => push_age = LED_MIN_PERIOD_MS
      BY DEF Sound, Delayed
    <3>2. timer'["render"] = IF timer["render"] > 1 THEN timer["render"] - 1 ELSE Off
      BY <2>1 DEF Delayed
    <3>3. /\ timer'["render"] # Off =>
               timer'["render"] + push_age' = LED_MIN_PERIOD_MS
          /\ timer["render"] # Off => timer'["render"] # Off \/ timer["render"] = 1
      BY <2>2, <3>1, <3>2, Times DEF upto, Off
    <3>4. Queued("render") \/ timer["render"] = 1 => push_age' = LED_MIN_PERIOD_MS
      BY <2>2, <3>1, Times DEF upto, Off
    <3> QED
      BY <2>1, <3>3, <3>4
  <2> QED
    BY <2>1, <2>2, <2>3, <2>4, <2>5, <2>6 DEF Sound
<1>7. CASE UNCHANGED vars
  BY <1>7 DEF Sound, Queued, vars, queue_vars, led_vars, history, frame_history
<1> QED
  BY <1>1, <1>2, <1>3, <1>4, <1>5, <1>6, <1>7 DEF Next, workqueue

-----------------------------------------------------------------------------
(* The strip and the rail *)

\* Every quiet item waits behind a rendering.
RenderFirst(q) ==
  \A j \in 1..Len(q) :
     q[j] = "quiet" => \E i \in 1..Len(q) : i < j /\ q[i] = "render"

\* The three states of the quiet timer.  It runs, and longer than that of the
\* renderer; or it has expired and waits in the queue, behind whatever could
\* light the strip again; or it has put the strip out, and nothing will light
\* it before the next frame.
Pending ==
  /\ timer["quiet"] # Off /\ age + timer["quiet"] = LED_QUIET_MS
  /\ timer["render"] < timer["quiet"]
Expired ==
  /\ timer["quiet"] = Off /\ timer["render"] = Off
  /\ Queued("quiet") /\ age + busy <= LED_QUIET_MS + STALL
  /\ dirty => RenderFirst(workq)
Dark ==
  /\ timer["quiet"] = Off /\ timer["render"] = Off
  /\ strip = 0 /\ ~dirty

\* A timer that a frame has re-armed may run while the item of its previous
\* expiry waits, but only until the queue is empty.
Late == timer["quiet"] # Off /\ Queued("quiet") => busy = 0

\* The timer of the rail runs, or has expired and waits in the queue.
Powered ==
  rail_on =>
    \/ timer["stale"] # Off /\ age + timer["stale"] = PWR_STALE_MS
    \/ /\ timer["stale"] = Off /\ Queued("stale")
       /\ age + busy <= PWR_STALE_MS + STALL

LitInv == Sound /\ Late /\ (Pending \/ Expired \/ Dark) /\ Powered

\* A rendering stays before the quiet item when something else runs, and when
\* anything but a quiet item joins.
LEMMA RenderStaysFirst ==
  ASSUME NEW q \in Seq(Items), q # <<>>, RenderFirst(q)
  PROVE  /\ Head(q) # "quiet"
         /\ Head(q) # "render" => RenderFirst(Tail(q))
<1>1. /\ Tail(q) \in Seq(Items) /\ Len(Tail(q)) = Len(q) - 1
      /\ Len(q) \in Nat /\ Len(q) >= 1
      /\ \A i \in 1..Len(Tail(q)) : Tail(q)[i] = q[i + 1]
      /\ Head(q) = q[1]
  OBVIOUS
<1>2. q[1] # "quiet"
  BY <1>1 DEF RenderFirst
<1>3. ASSUME q[1] # "render", NEW j \in 1..Len(Tail(q)), Tail(q)[j] = "quiet"
      PROVE  \E i \in 1..Len(Tail(q)) : i < j /\ Tail(q)[i] = "render"
  <2>1. j + 1 \in 1..Len(q) /\ q[j + 1] = "quiet"
    BY <1>1, <1>3
  <2>2. PICK i \in 1..Len(q) : i < j + 1 /\ q[i] = "render"
    BY <2>1 DEF RenderFirst
  <2>3. i # 1 /\ i - 1 \in 1..Len(Tail(q)) /\ i - 1 < j /\ (i - 1) + 1 = i
    BY <1>1, <1>3, <2>2
  <2>4. Tail(q)[i - 1] = "render"
    BY <1>1, <2>2, <2>3
  <2> QED
    BY <2>3, <2>4
<1> QED
  BY <1>1, <1>2, <1>3 DEF RenderFirst

\* Works other than the quiet one may join such a queue, and any may join one
\* that holds the rendering and no quiet item.
LEMMA RenderBehind ==
  ASSUME NEW q \in Seq(Items), NEW s \in Seq(Items)
  PROVE  /\ RenderFirst(q) /\ ~Contains(s, "quiet") => RenderFirst(q \o s)
         /\ Contains(q, "render") /\ ~Contains(q, "quiet") => RenderFirst(q \o s)
<1>1. /\ q \o s \in Seq(Items) /\ Len(q \o s) = Len(q) + Len(s)
      /\ Len(q) \in Nat /\ Len(s) \in Nat
      /\ \A i \in 1..Len(q) : (q \o s)[i] = q[i]
      /\ \A i \in (Len(q) + 1)..(Len(q) + Len(s)) : (q \o s)[i] = s[i - Len(q)]
  OBVIOUS
<1>2. ASSUME NEW j \in 1..Len(q \o s), j \notin 1..Len(q)
      PROVE  /\ j \in (Len(q) + 1)..(Len(q) + Len(s)) /\ j - Len(q) \in 1..Len(s)
             /\ (q \o s)[j] = s[j - Len(q)]
  BY <1>1, <1>2
<1>3. ASSUME RenderFirst(q), ~Contains(s, "quiet"),
             NEW j \in 1..Len(q \o s), (q \o s)[j] = "quiet"
      PROVE  \E i \in 1..Len(q \o s) : i < j /\ (q \o s)[i] = "render"
  <2>1. j \in 1..Len(q)
    BY <1>2, <1>3 DEF Contains
  <2>2. PICK i \in 1..Len(q) : i < j /\ q[i] = "render"
    BY <1>1, <1>3, <2>1 DEF RenderFirst
  <2>3. i \in 1..Len(q \o s) /\ (q \o s)[i] = "render"
    BY <1>1, <2>2
  <2> QED
    BY <2>2, <2>3
<1>4. ASSUME Contains(q, "render"), ~Contains(q, "quiet"),
             NEW j \in 1..Len(q \o s), (q \o s)[j] = "quiet"
      PROVE  \E i \in 1..Len(q \o s) : i < j /\ (q \o s)[i] = "render"
  <2>1. j \notin 1..Len(q)
    BY <1>1, <1>4 DEF Contains
  <2>2. PICK i \in 1..Len(q) : q[i] = "render"
    BY <1>4 DEF Contains
  <2>3. i \in 1..Len(q \o s) /\ (q \o s)[i] = "render" /\ i < j
    BY <1>1, <2>1, <2>2
  <2> QED
    BY <2>3
<1> QED
  BY <1>3, <1>4 DEF RenderFirst

\* The first frame, and every other one, starts the timers anew.
LEMMA LitRx ==
  ASSUME LitInv, output_svc_rx
  PROVE  Late' /\ Pending' /\ Powered'
<1>1. Sound /\ push_age \in 0..LED_MIN_PERIOD_MS
      /\ (timer["render"] # Off => timer["render"] + push_age = LED_MIN_PERIOD_MS)
      /\ (timer["render"] = Off \/ timer["render"] \in Nat \ {0})
  BY DEF LitInv, Sound, Delayed
<1>2. busy' = 0 /\ age' = 0
  BY <1>1, RxDoes DEF output_svc_rx
<1>3. /\ timer'["quiet"] = LED_QUIET_MS /\ timer'["stale"] = PWR_STALE_MS
      /\ \/ timer'["render"] = timer["render"]
         \/ timer'["render"] = Off
         \/ /\ push_age < LED_MIN_PERIOD_MS
            /\ timer'["render"] = LED_MIN_PERIOD_MS - push_age
  BY <1>1, RxDoes
<1>4. timer'["render"] < timer'["quiet"]
  BY <1>1, <1>3, Times DEF Off
<1> QED
  BY <1>2, <1>3, <1>4, Times DEF Late, Pending, Powered, Off

\* Rendering keeps the three states of the quiet timer: it lights the strip only
\* while the timer still runs or its item waits behind.
LEMMA LitRender ==
  ASSUME LitInv, render_handler
  PROVE  Late' /\ (Pending \/ Expired \/ Dark)' /\ Powered'
<1>1. Sound /\ Runs("render") /\ workq' = Tail(workq) /\ "render" \in Delayed
  BY DEF LitInv, render_handler, Delayed
<1>2. /\ (Queued("quiet")' <=> Queued("quiet"))
      /\ (Queued("stale")' <=> Queued("stale"))
  BY <1>1, RunDoes DEF Items, Queued
<1>3. /\ UNCHANGED <<timer, busy, age>>
      /\ ~dirty => strip' = strip
  BY DEF render_handler, frame_history
<1>4. dirty' = FALSE /\ rail_on' = rail_on
  BY <1>1 DEF render_handler, Sound
<1>5. Late' /\ Powered'
  BY <1>2, <1>3, <1>4 DEF LitInv, Late, Powered
<1>6. CASE Pending
  BY <1>3, <1>5, <1>6 DEF Pending
<1>7. CASE Expired
  BY <1>2, <1>3, <1>4, <1>5, <1>7 DEF Expired
<1>8. CASE Dark
  BY <1>3, <1>4, <1>5, <1>8 DEF Dark
<1> QED
  BY <1>6, <1>7, <1>8 DEF LitInv

\* So does the quiet handler, which puts the strip out.
LEMMA LitQuiet ==
  ASSUME LitInv, quiet_handler
  PROVE  Late' /\ (Pending \/ Expired \/ Dark)' /\ Powered'
<1>1. Sound /\ Runs("quiet") /\ workq' = Tail(workq) /\ "quiet" \in Delayed
  BY DEF LitInv, quiet_handler, Delayed
<1>2. /\ ~Queued("quiet")' /\ (Queued("stale")' <=> Queued("stale"))
      /\ workq # <<>> /\ Head(workq) = "quiet"
  BY <1>1, RunDoes DEF Items, Queued
<1>3. UNCHANGED <<timer, busy, age>> /\ strip' = 0
  BY DEF quiet_handler, history, frame_history
<1>4. (dirty' <=> dirty) /\ (rail_on' <=> rail_on)
  BY DEF quiet_handler
<1>5. Late' /\ Powered'
  BY <1>2, <1>3, <1>4 DEF LitInv, Late, Powered
<1>6. CASE Pending
  BY <1>3, <1>5, <1>6 DEF Pending
<1>7. CASE Expired
  <2>1. ~dirty
    BY <1>1, <1>2, <1>7, RenderStaysFirst DEF Expired, Sound
  <2> QED
    BY <1>3, <1>4, <1>5, <1>7, <2>1 DEF Expired, Dark
<1>8. CASE Dark
  BY <1>3, <1>4, <1>5, <1>8 DEF Dark
<1> QED
  BY <1>6, <1>7, <1>8 DEF LitInv

\* So does the staleness handler, which switches the rail off and touches no
\* timer of the strip.
LEMMA LitStale ==
  ASSUME LitInv, stale_handler
  PROVE  Late' /\ (Pending \/ Expired \/ Dark)' /\ Powered'
<1>1. Sound /\ Runs("stale") /\ workq' = Tail(workq) /\ "stale" \in Delayed
  BY DEF LitInv, stale_handler, Delayed
<1>2. /\ (Queued("quiet")' <=> Queued("quiet"))
      /\ workq # <<>> /\ Head(workq) = "stale"
  BY <1>1, RunDoes DEF Items, Queued
<1>3. UNCHANGED <<timer, busy, age, strip>>
  BY DEF stale_handler, history, frame_history, led_vars
<1>4. (dirty' <=> dirty) /\ rail_on' = FALSE
  BY DEF stale_handler, led_vars
<1>5. Late' /\ Powered'
  BY <1>2, <1>3, <1>4 DEF LitInv, Late, Powered
<1>6. CASE Pending
  BY <1>3, <1>5, <1>6 DEF Pending
<1>7. CASE Expired
  <2>1. dirty' => RenderFirst(workq')
    BY <1>1, <1>2, <1>4, <1>7, RenderStaysFirst DEF Expired, Sound
  <2> QED
    BY <1>2, <1>3, <1>5, <1>7, <2>1 DEF Expired
<1>8. CASE Dark
  BY <1>3, <1>4, <1>5, <1>8 DEF Dark
<1> QED
  BY <1>6, <1>7, <1>8 DEF LitInv

\* So does a frame's arrival: only an rx item joins the queue.
LEMMA LitArrival ==
  ASSUME LitInv, NEW f \in Frame, frame_arrives(f)
  PROVE  Late' /\ (Pending \/ Expired \/ Dark)' /\ Powered'
<1>1. Sound /\ workq' = queued(workq, "rx") /\ workq \in Seq(Items)
  BY DEF LitInv, frame_arrives, Sound
<1>2. /\ (Queued("quiet")' <=> Queued("quiet"))
      /\ (Queued("stale")' <=> Queued("stale"))
  BY <1>1, ArrivalDoes DEF Items, Queued
<1>3. UNCHANGED <<timer, busy, age, strip>>
  BY DEF frame_arrives, led_vars
<1>4. (dirty' <=> dirty) /\ (rail_on' <=> rail_on)
  BY DEF frame_arrives, led_vars
<1>5. Late' /\ Powered'
  BY <1>2, <1>3, <1>4 DEF LitInv, Late, Powered
<1>6. CASE Pending
  BY <1>3, <1>5, <1>6 DEF Pending
<1>7. CASE Expired
  <2>1. ASSUME RenderFirst(workq) PROVE RenderFirst(workq')
    <3>1. CASE Contains(workq, "rx")
      BY <1>1, <2>1, <3>1 DEF queued
    <3>2. CASE ~Contains(workq, "rx")
      <4>1. "rx" \in Items /\ <<"rx">> \in Seq(Items)
        BY DEF Items
      <4>2. workq' = workq \o <<"rx">>
        BY <1>1, <3>2, <4>1, AppendIsConcat, Zenon DEF queued
      <4>3. ~Contains(<<"rx">>, "quiet")
        BY DEF Contains
      <4> QED
        BY <1>1, <2>1, <4>1, <4>2, <4>3, RenderBehind, Zenon
    <3> QED
      BY <3>1, <3>2
  <2> QED
    BY <1>2, <1>3, <1>4, <1>5, <1>7, <2>1 DEF Expired
<1>8. CASE Dark
  BY <1>3, <1>4, <1>5, <1>8 DEF Dark
<1> QED
  BY <1>6, <1>7, <1>8 DEF LitInv

\* The workqueue is empty when another item occupies it.
LEMMA LitOther ==
  ASSUME LitInv, other_item
  PROVE  Late' /\ (Pending \/ Expired \/ Dark)' /\ Powered'
<1>1. workq = <<>> /\ UNCHANGED <<workq, timer, age, strip>>
  BY DEF other_item, led_vars, history, frame_history
<1>2. (dirty' <=> dirty) /\ (rail_on' <=> rail_on)
  BY DEF other_item, led_vars, history, frame_history
<1>3. ~Queued("quiet") /\ ~Queued("stale")
  BY <1>1 DEF Queued, Contains
<1>4. ~Queued("quiet")'
  BY <1>1, <1>3 DEF Queued
<1>5. Late' /\ Powered'
  BY <1>1, <1>2, <1>3, <1>4 DEF LitInv, Late, Powered
<1>6. Pending \/ Dark
  BY <1>3 DEF LitInv, Expired
<1>7. CASE Pending
  BY <1>1, <1>5, <1>7 DEF Pending
<1>8. CASE Dark
  BY <1>1, <1>2, <1>5, <1>8 DEF Dark
<1> QED
  BY <1>6, <1>7, <1>8

\* So does a millisecond: age grows as the timers run down, and a timer that
\* runs out puts its item into the queue in the same step.
LEMMA LitElapse ==
  ASSUME LitInv, elapse
  PROVE  Late' /\ (Pending \/ Expired \/ Dark)' /\ Powered'
<1>1. /\ Sound /\ Late /\ (Pending \/ Expired \/ Dark) /\ Powered
      /\ busy \in 0..STALL /\ age \in 0..AgeMax
      /\ workq \in Seq(Items)
  BY DEF LitInv, Sound
<1>2. /\ timer["quiet"] = Off \/ timer["quiet"] \in Nat \ {0}
      /\ timer["stale"] = Off \/ timer["stale"] \in Nat \ {0}
      /\ timer["render"] = Off \/ timer["render"] \in Nat \ {0}
      /\ dirty => timer["render"] # Off \/ Queued("render")
  BY DEF LitInv, Sound, Delayed
<1>3. /\ age' = upto(age, AgeMax) /\ strip' = strip
      /\ busy > 0 => busy' = busy - 1
      /\ busy = 0 => busy' = 0 /\ ~Queued("quiet") /\ ~Queued("stale")
      /\ busy' \in 0..STALL
  BY <1>1, ElapseDoes DEF elapse, Items
<1>4. /\ (Queued("quiet")' <=> Queued("quiet") \/ timer["quiet"] = 1)
      /\ (Queued("stale")' <=> Queued("stale") \/ timer["stale"] = 1)
  BY <1>1, ElapseDoes DEF Delayed, Queued
<1>5. /\ timer'["quiet"] = IF timer["quiet"] > 1 THEN timer["quiet"] - 1 ELSE Off
      /\ timer'["stale"] = IF timer["stale"] > 1 THEN timer["stale"] - 1 ELSE Off
      /\ timer'["render"] = IF timer["render"] > 1 THEN timer["render"] - 1 ELSE Off
  BY <1>1, ElapseDoes DEF Delayed
<1>6. (dirty' <=> dirty) /\ (rail_on' <=> rail_on)
  BY DEF elapse
<1>7. PICK s \in Seq(Items) :
        /\ workq' = workq \o s
        /\ \A x \in Items : Contains(s, x) => x \in Delayed /\ timer[x] = 1
  BY <1>1, ElapseDoes
<1>8. Queued("quiet") => timer["quiet"] = Off
  BY <1>1, <1>3 DEF Late
<1>9. Late'
  <2>1. CASE Queued("quiet")
    <3>1. timer'["quiet"] = Off
      BY <1>5, <1>8, <2>1 DEF Off
    <3> QED
      BY <3>1 DEF Late
  <2>2. CASE ~Queued("quiet") /\ timer["quiet"] = 1
    <3>1. timer'["quiet"] = Off
      BY <1>5, <2>2
    <3> QED
      BY <3>1 DEF Late
  <2>3. CASE ~Queued("quiet") /\ timer["quiet"] # 1
    BY <1>4, <2>3 DEF Late
  <2> QED
    BY <2>1, <2>2, <2>3
<1>10. Powered'
  <2>1. CASE rail_on /\ timer["stale"] # Off /\ age + timer["stale"] = PWR_STALE_MS
    <3>1. age' = age + 1
      BY <1>1, <1>2, <1>3, <2>1, Times DEF upto
    <3>2. CASE timer["stale"] = 1
      <4>1. timer'["stale"] = Off /\ age' + busy' <= PWR_STALE_MS + STALL
        BY <1>3, <1>5, <2>1, <3>1, <3>2, Times
      <4> QED
        BY <1>4, <3>2, <4>1 DEF Powered
    <3>3. CASE timer["stale"] # 1
      <4>1. timer'["stale"] # Off /\ age' + timer'["stale"] = PWR_STALE_MS
        BY <1>1, <1>2, <1>5, <2>1, <3>1, <3>3, Times DEF Off
      <4> QED
        BY <4>1 DEF Powered
    <3> QED
      BY <3>2, <3>3
  <2>2. CASE /\ timer["stale"] = Off /\ Queued("stale")
             /\ age + busy <= PWR_STALE_MS + STALL
    <3>1. age' = age + 1 /\ busy' = busy - 1 /\ timer'["stale"] = Off
      BY <1>1, <1>3, <1>5, <2>2, Times DEF upto, Off
    <3>2. age' + busy' <= PWR_STALE_MS + STALL
      BY <1>1, <2>2, <3>1, Times
    <3> QED
      BY <1>4, <2>2, <3>1, <3>2 DEF Powered
  <2>3. CASE ~rail_on
    BY <1>6, <2>3 DEF Powered
  <2> QED
    BY <1>1, <2>1, <2>2, <2>3 DEF Powered
<1>11. CASE Pending
  <2>1. /\ timer["quiet"] # Off /\ age + timer["quiet"] = LED_QUIET_MS
        /\ timer["render"] < timer["quiet"]
    BY <1>11 DEF Pending
  <2>2. age' = age + 1
    BY <1>1, <1>2, <1>3, <2>1, Times DEF upto
  <2>3. CASE timer["quiet"] = 1
    <3>1. timer'["quiet"] = Off /\ timer'["render"] = Off /\ timer["render"] = Off
          /\ age' + busy' <= LED_QUIET_MS + STALL
      BY <1>2, <1>3, <1>5, <2>1, <2>2, <2>3, Times DEF Off
    <3>2. ~Queued("quiet")
      BY <1>8, <2>1
    <3>3. dirty' => RenderFirst(workq')
      BY <1>1, <1>2, <1>6, <1>7, <3>1, <3>2, RenderBehind DEF Queued
    <3> QED
      BY <1>4, <1>9, <1>10, <2>3, <3>1, <3>3 DEF Expired
  <2>4. CASE timer["quiet"] # 1
    <3>1. /\ timer'["quiet"] # Off /\ age' + timer'["quiet"] = LED_QUIET_MS
          /\ timer'["render"] < timer'["quiet"]
      BY <1>1, <1>2, <1>5, <2>1, <2>2, <2>4, Times DEF Off
    <3> QED
      BY <1>9, <1>10, <3>1 DEF Pending
  <2> QED
    BY <2>3, <2>4
<1>12. CASE Expired
  <2>1. /\ timer["quiet"] = Off /\ timer["render"] = Off /\ Queued("quiet")
        /\ age + busy <= LED_QUIET_MS + STALL
    BY <1>12 DEF Expired
  <2>2. timer'["quiet"] = Off /\ timer'["render"] = Off
        /\ age' = age + 1 /\ busy' = busy - 1
    BY <1>1, <1>3, <1>5, <2>1, Times DEF upto, Off
  <2>3. age' + busy' <= LED_QUIET_MS + STALL
    BY <1>1, <2>1, <2>2, Times
  <2>4. ~Contains(s, "quiet")
    BY <1>7, <2>1 DEF Items, Off
  <2>5. dirty' => RenderFirst(workq')
    BY <1>1, <1>6, <1>7, <1>12, <2>4, RenderBehind DEF Expired
  <2> QED
    BY <1>4, <1>9, <1>10, <2>1, <2>2, <2>3, <2>5 DEF Expired
<1>13. CASE Dark
  <2>1. timer'["quiet"] = Off /\ timer'["render"] = Off /\ strip' = 0 /\ ~dirty'
    BY <1>3, <1>5, <1>6, <1>13 DEF Dark, Off
  <2> QED
    BY <1>9, <1>10, <2>1 DEF Dark
<1> QED
  BY <1>1, <1>9, <1>10, <1>11, <1>12, <1>13

\* The three states of the quiet timer and those of the rail's timer hold
\* throughout.
LEMMA LitInvariant == Spec => []LitInv
<1>1. Init => LitInv
  <2> SUFFICES ASSUME Init PROVE LitInv
    OBVIOUS
  <2>1. timer = [render |-> Off, quiet |-> Off, stale |-> Off]
    BY DEF Init
  <2>2. timer["quiet"] = Off /\ timer["render"] = Off
    BY <2>1
  <2>3. strip = 0 /\ dirty = FALSE /\ rail_on = FALSE
    BY DEF Init
  <2> QED
    BY <2>2, <2>3, SoundInit DEF LitInv, Late, Dark, Powered
<1>2. LitInv /\ [Next]_vars => LitInv'
  <2> SUFFICES ASSUME LitInv, [Next]_vars PROVE LitInv'
    OBVIOUS
  <2>1. Sound'
    BY SoundStep DEF LitInv
  <2>2. CASE output_svc_rx
    BY <2>1, <2>2, LitRx DEF LitInv
  <2>3. CASE render_handler
    BY <2>1, <2>3, LitRender DEF LitInv
  <2>4. CASE quiet_handler
    BY <2>1, <2>4, LitQuiet DEF LitInv
  <2>5. CASE stale_handler
    BY <2>1, <2>5, LitStale DEF LitInv
  <2>6. ASSUME NEW f \in Frame, frame_arrives(f) PROVE LitInv'
    BY <2>1, <2>6, LitArrival DEF LitInv
  <2>7. CASE other_item
    BY <2>1, <2>7, LitOther DEF LitInv
  <2>8. CASE elapse
    BY <2>1, <2>8, LitElapse DEF LitInv
  <2>9. CASE UNCHANGED vars
    BY <2>1, <2>9 DEF LitInv, Late, Pending, Expired, Dark, Powered, Queued,
                      RenderFirst, vars, queue_vars, led_vars, history, frame_history
  <2> QED
    BY <2>2, <2>3, <2>4, <2>5, <2>6, <2>7, <2>8, <2>9 DEF Next, workqueue
<1> QED
  BY <1>1, <1>2, PTL DEF Spec

\* LEDs and rail go dark on a silent link: the strip is lit, and the output
\* rail on, only within the stale time, plus a stall of the workqueue, after a
\* valid frame, in whatever order the expired items run.
THEOREM DarkWhenSilent == Spec => []LitIsRecent
<1>1. LitInv => LitIsRecent
  <2> SUFFICES ASSUME LitInv PROVE LitIsRecent
    OBVIOUS
  <2>1. /\ busy \in 0..STALL /\ age \in 0..AgeMax
        /\ timer["quiet"] = Off \/ timer["quiet"] \in Nat \ {0}
        /\ timer["stale"] = Off \/ timer["stale"] \in Nat \ {0}
    BY DEF LitInv, Sound, Delayed
  <2>2. strip # 0 => age <= LED_QUIET_MS + STALL
    BY <2>1, Times DEF LitInv, Pending, Expired, Dark
  <2>3. rail_on => age <= PWR_STALE_MS + STALL
    <3>1. CASE timer["stale"] # Off /\ age + timer["stale"] = PWR_STALE_MS
      BY <2>1, <3>1, Times
    <3>2. CASE age + busy <= PWR_STALE_MS + STALL
      BY <2>1, <3>2, Times
    <3> QED
      BY <3>1, <3>2 DEF LitInv, Powered
  <2> QED
    BY <2>2, <2>3 DEF LitIsRecent
<1> QED
  BY <1>1, LitInvariant, PTL

\* led_svc_submit and its render item keep the rate of the strip: a rendering
\* that was asked for early waits, and one that waits is not overtaken.
THEOREM RateIsKept == Spec => RateLimited
<1>1. LitInv => (render_handler /\ dirty => render_age >= LED_MIN_PERIOD_MS)
  <2> SUFFICES ASSUME LitInv, render_handler PROVE render_age >= LED_MIN_PERIOD_MS
    OBVIOUS
  <2>1. Sound /\ Runs("render") /\ workq' = Tail(workq) /\ "render" \in Delayed
    BY DEF LitInv, render_handler, Delayed
  <2>2. Queued("render")
    BY <2>1, RunDoes
  <2> QED
    BY <2>1, <2>2, Times DEF Sound
<1> QED
  BY <1>1, LitInvariant, PTL DEF RateLimited

\* A strip with nothing outstanding shows the frame submitted last: quiet and
\* dirty are kept apart by every handler; and a change that is outstanding has
\* its rendering scheduled.
THEOREM ShowsSubmitted == Spec => []ShownIsLatest
<1> DEFINE Shown == ~dirty /\ ~quiet => strip = leds
           IInv == /\ Shown
                   /\ dirty \in BOOLEAN
                   /\ quiet \in BOOLEAN
<1>1. Init => IInv
  BY DEF Init
<1>2. IInv /\ [Next]_vars => IInv'
  <2> SUFFICES ASSUME IInv, [Next]_vars PROVE IInv'
    OBVIOUS
  <2>1. CASE output_svc_rx
    <3>1. PICK f : submit(f)
      BY <2>1 DEF output_svc_rx
    <3> QED
      BY <3>1 DEF submit, changed
  <2>2. CASE render_handler
    BY <2>2 DEF render_handler
  <2>3. CASE quiet_handler
    BY <2>3 DEF quiet_handler
  <2>4. CASE stale_handler \/ (\E f \in Frame : frame_arrives(f)) \/ other_item
             \/ elapse \/ UNCHANGED vars
    BY <2>4 DEF stale_handler, frame_arrives, other_item, elapse, vars, led_vars
  <2> QED
    BY <2>1, <2>2, <2>3, <2>4 DEF Next, workqueue
<1>3. IInv /\ LitInv => ShownIsLatest
  <2> SUFFICES ASSUME Shown, Sound PROVE ShownIsLatest
    BY DEF LitInv
  <2>1. dirty => timer["render"] # Off \/ Contains(workq, "render")
    BY DEF Sound, Queued
  <2> QED
    BY <2>1 DEF ShownIsLatest
<1> QED
  BY <1>1, <1>2, <1>3, LitInvariant, PTL DEF Spec

-----------------------------------------------------------------------------
(* The rail during a healthy link *)

\* Since the last frame was processed: while none waits, no longer than since
\* the last one came; while one waits, short enough for the stall to end in
\* time.  So neither the timer expires nor its item waits.
since == PWR_STALE_MS - timer["stale"]

Steady ==
  rail_on /\ healthy =>
    /\ ~Queued("stale") /\ timer["stale"] # Off
    /\ rxq = <<>> => since <= gap
    /\ STALL < PWR_STALE_MS =>
         since + (IF rxq = <<>> THEN STALL ELSE busy) < PWR_STALE_MS

\* Steady is inductive: every frame handled re-arms the rail's timer, and the
\* next is handled before it runs out.
LEMMA SteadyStep ==
  ASSUME Sound, Steady, [Next]_vars
  PROVE  Steady'
<1>1. /\ busy \in 0..STALL /\ gap \in 0..PWR_STALE_MS
      /\ timer["stale"] = Off \/ timer["stale"] \in Nat \ {0}
  BY DEF Sound, Delayed
<1>2. CASE output_svc_rx
  <2>1. /\ (Queued("stale")' <=> Queued("stale")) /\ timer'["stale"] = PWR_STALE_MS
        /\ UNCHANGED <<busy, gap>> /\ busy = 0
    BY <1>2, RxDoes DEF output_svc_rx
  <2>2. healthy' => (rail_on /\ healthy) \/ ~Queued("stale")
    BY <1>2 DEF output_svc_rx, note_valid_rx, Queued
  <2>3. healthy' => ~Queued("stale")'
    BY <2>1, <2>2 DEF Steady
  <2>4. /\ timer'["stale"] # Off /\ since' <= gap'
        /\ STALL < PWR_STALE_MS => since' + STALL < PWR_STALE_MS
        /\ STALL < PWR_STALE_MS => since' + busy' < PWR_STALE_MS
    BY <1>1, <2>1, Times DEF since, Off
  <2> QED
    BY <2>3, <2>4 DEF Steady
<1>3. ASSUME NEW item \in {"render", "quiet"}, Runs(item), workq' = Tail(workq),
             UNCHANGED <<rxq, timer, busy, gap>>,
             rail_on' <=> rail_on, healthy' <=> healthy
      PROVE  Steady'
  <2>1. Queued("stale")' <=> Queued("stale")
    BY <1>3, RunDoes DEF Items, Delayed, Queued
  <2>2. since' = since
    BY <1>3 DEF since
  <2> QED
    BY <1>3, <2>1, <2>2 DEF Steady
<1>4. CASE render_handler
  BY <1>3, <1>4 DEF render_handler, frame_history
<1>5. CASE quiet_handler
  BY <1>3, <1>5 DEF quiet_handler, history, frame_history
<1>6. CASE stale_handler
  <2>1. rail_on' = FALSE
    BY <1>6 DEF stale_handler
  <2> QED
    BY <2>1 DEF Steady
<1>7. ASSUME NEW f \in Frame, frame_arrives(f) PROVE Steady'
  <2>1. /\ (Queued("stale")' <=> Queued("stale")) /\ rxq' # <<>>
    BY <1>7, ArrivalDoes DEF Items, Queued
  <2>2. UNCHANGED <<timer, busy>> /\ since' = since
    BY <1>7 DEF frame_arrives, since
  <2>3. (rail_on' <=> rail_on) /\ (healthy' <=> healthy)
    BY <1>7 DEF frame_arrives
  <2>4. ASSUME rail_on, healthy, STALL < PWR_STALE_MS
        PROVE  since + busy < PWR_STALE_MS
    <3>1. since + STALL < PWR_STALE_MS \/ since + busy < PWR_STALE_MS
      BY <2>4 DEF Steady
    <3>2. since \in Int
      BY <1>1, Times DEF since, Off
    <3> QED
      BY <1>1, <3>1, <3>2, Times
  <2> QED
    BY <2>1, <2>2, <2>3, <2>4 DEF Steady
<1>8. CASE other_item
  <2>1. rxq = <<>>
    <3>1. ~Queued("rx")
      BY <1>8 DEF other_item, Queued, Contains
    <3> QED
      BY <3>1 DEF Sound
  <2>2. UNCHANGED <<rxq, workq, timer, gap>> /\ since' = since
        /\ (Queued("stale")' <=> Queued("stale"))
    BY <1>8 DEF other_item, since, history, frame_history, Queued
  <2>3. (rail_on' <=> rail_on) /\ (healthy' <=> healthy)
    BY <1>8 DEF other_item, history, frame_history
  <2> QED
    BY <2>1, <2>2, <2>3 DEF Steady
<1>9. CASE elapse
  <2>1. /\ (Queued("stale")' <=> Queued("stale") \/ timer["stale"] = 1)
        /\ timer'["stale"] = IF timer["stale"] > 1 THEN timer["stale"] - 1 ELSE Off
        /\ busy > 0 => busy' = busy - 1
        /\ busy = 0 => ~Queued("rx")
    BY <1>9, ElapseDoes DEF Delayed, Items, Queued
  <2>2. rxq' = rxq /\ gap' = upto(gap, PWR_STALE_MS)
    BY <1>9 DEF elapse
  <2>3. (rail_on' <=> rail_on) /\ (healthy' => healthy /\ gap' < PWR_STALE_MS - STALL)
    BY <1>9 DEF elapse
  <2> SUFFICES ASSUME rail_on, healthy, gap' < PWR_STALE_MS - STALL
               PROVE  /\ ~Queued("stale")' /\ timer'["stale"] # Off
                      /\ rxq' = <<>> => since' <= gap'
                      /\ since' + (IF rxq' = <<>> THEN STALL ELSE busy') < PWR_STALE_MS
    BY <2>3 DEF Steady
  <2>4. gap' = gap + 1 /\ STALL < PWR_STALE_MS
    BY <1>1, <2>2, Times DEF upto
  <2>5. ~Queued("stale") /\ timer["stale"] \in Nat \ {0}
    BY <1>1 DEF Steady
  <2>6. CASE rxq = <<>>
    <3>1. since <= gap
      BY <2>6 DEF Steady
    <3>2. timer["stale"] # 1
      BY <1>1, <2>4, <2>5, <3>1, Times DEF since
    <3>3. timer'["stale"] = timer["stale"] - 1 /\ timer'["stale"] # Off
      BY <2>1, <2>5, <3>2 DEF Off
    <3>4. since' <= gap' /\ since' + STALL < PWR_STALE_MS
      BY <1>1, <2>4, <2>5, <3>1, <3>3, Times DEF since
    <3> QED
      BY <2>1, <2>2, <2>5, <2>6, <3>2, <3>3, <3>4
  <2>7. CASE rxq # <<>>
    <3>1. since + busy < PWR_STALE_MS /\ busy > 0 /\ busy' = busy - 1
      BY <1>1, <2>1, <2>4, <2>7 DEF Steady, Sound
    <3>2. timer["stale"] # 1
      BY <1>1, <2>5, <3>1, Times DEF since
    <3>3. timer'["stale"] = timer["stale"] - 1 /\ timer'["stale"] # Off
      BY <2>1, <2>5, <3>2 DEF Off
    <3>4. since' + busy' < PWR_STALE_MS
      BY <1>1, <2>5, <3>1, <3>3, Times DEF since
    <3> QED
      BY <2>1, <2>2, <2>5, <2>7, <3>2, <3>3, <3>4
  <2> QED
    BY <2>6, <2>7
<1>10. CASE UNCHANGED vars
  BY <1>10 DEF Steady, since, Queued, vars, queue_vars, history, frame_history
<1> QED
  BY <1>2, <1>4, <1>5, <1>6, <1>7, <1>8, <1>9, <1>10 DEF Next, workqueue

\* power_mgr's rail stays on while frames come more often than its stale time
\* less a stall of the workqueue: an expiry never overtakes a frame that waits.
THEOREM RailStaysOn == Spec => RailSteady
<1> DEFINE IInv == Sound /\ Steady
<1>1. Init => IInv
  BY SoundInit DEF Init, Steady
<1>2. IInv /\ [Next]_vars => IInv'
  BY SoundStep, SteadyStep
<1>3. IInv /\ [Next]_vars => [rail_on /\ healthy => rail_on']_vars
  <2> SUFFICES ASSUME IInv, Next, rail_on, healthy PROVE rail_on'
    OBVIOUS
  <2>1. CASE stale_handler
    <3>1. Runs("stale") /\ workq' = Tail(workq) /\ "stale" \in Delayed
      BY <2>1 DEF stale_handler, Delayed
    <3>2. Queued("stale")
      BY <3>1, RunDoes
    <3> QED
      BY <3>2 DEF Steady
  <2>2. CASE output_svc_rx
    BY <2>2 DEF output_svc_rx, note_valid_rx
  <2>3. CASE render_handler \/ quiet_handler \/ other_item \/ elapse
             \/ \E f \in Frame : frame_arrives(f)
    BY <2>3 DEF render_handler, quiet_handler, other_item, elapse, frame_arrives
  <2> QED
    BY <2>1, <2>2, <2>3 DEF Next, workqueue
<1> QED
  BY <1>1, <1>2, <1>3, PTL DEF Spec, RailSteady
=============================================================================
