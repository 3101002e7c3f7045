------------------------ MODULE ProcessBackendProofs ------------------------
(***************************************************************************)
(* The safety of the process adapter for every marker, every alphabet and  *)
(* every way in which the output is cut into reads.                        *)
(***************************************************************************)
EXTENDS ProcessBackend, TLAPS

-----------------------------------------------------------------------------
(* Sequences *)

\* What a concatenation holds.
LEMMA ConcatFacts ==
    ASSUME NEW s \in Seq(Bytes), NEW t \in Seq(Bytes)
    PROVE  /\ s \o t \in Seq(Bytes)
           /\ Len(s \o t) = Len(s) + Len(t)
           /\ \A i \in 1..Len(s) : (s \o t)[i] = s[i]
           /\ \A i \in 1..Len(t) : (s \o t)[Len(s) + i] = t[i]
  OBVIOUS

\* t ends s.
Suffix(t, s) ==
    /\ Len(t) <= Len(s)
    /\ \A i \in 1..Len(t) : t[i] = s[Len(s) - Len(t) + i]

\* The end of a sequence that tail.drain leaves.
LEMMA LastFacts ==
    ASSUME NEW s \in Seq(Bytes), NEW n \in Nat
    PROVE  /\ Last(s, n) \in Seq(Bytes)
           /\ Suffix(Last(s, n), s)
           /\ Last(s, n) = s \/ Len(Last(s, n)) = n
           /\ Len(Last(s, n)) <= n
<1>1. CASE Len(s) > n
  <2> DEFINE t == SubSeq(s, Len(s) - n + 1, Len(s))
  <2>1. t \in Seq(Bytes) /\ Len(t) = n
    BY <1>1
  <2>2. \A i \in 1..n : t[i] = s[Len(s) - n + i]
    BY <1>1
  <2>3. Last(s, n) = t
    BY <1>1 DEF Last
  <2> HIDE DEF t
  <2> QED
    BY <1>1, <2>1, <2>2, <2>3 DEF Suffix
<1>2. CASE ~(Len(s) > n)
  BY <1>2 DEF Last, Suffix
<1> QED
  BY <1>1, <1>2

\* A suffix of a suffix is a suffix.
LEMMA SuffixTransitive ==
    ASSUME NEW r \in Seq(Bytes), NEW s \in Seq(Bytes), NEW t \in Seq(Bytes),
           Suffix(t, s), Suffix(s, r)
    PROVE  Suffix(t, r)
<1>1. \A i \in 1..Len(t) : Len(s) - Len(t) + i \in 1..Len(s)
  BY DEF Suffix
<1>2. \A i \in 1..Len(t) : t[i] = r[Len(r) - Len(s) + (Len(s) - Len(t) + i)]
  BY <1>1 DEF Suffix
<1>3. \A i \in 1..Len(t) :
        Len(r) - Len(s) + (Len(s) - Len(t) + i) = Len(r) - Len(t) + i
  OBVIOUS
<1> QED
  BY <1>2, <1>3 DEF Suffix

\* Appending to both keeps a suffix a suffix.
LEMMA SuffixConcat ==
    ASSUME NEW s \in Seq(Bytes), NEW t \in Seq(Bytes), NEW c \in Seq(Bytes), Suffix(t, s)
    PROVE  Suffix(t \o c, s \o c)
<1>1. Len(t \o c) = Len(t) + Len(c) /\ Len(s \o c) = Len(s) + Len(c)
  BY ConcatFacts
<1>2. ASSUME NEW i \in 1..Len(t \o c)
      PROVE  (t \o c)[i] = (s \o c)[Len(s \o c) - Len(t \o c) + i]
  <2>1. CASE i \in 1..Len(t)
    <3>1. Len(s) - Len(t) + i \in 1..Len(s)
      BY <2>1 DEF Suffix
    <3>2. (s \o c)[Len(s) - Len(t) + i] = s[Len(s) - Len(t) + i]
      BY <3>1, ConcatFacts
    <3>3. (t \o c)[i] = s[Len(s) - Len(t) + i]
      BY <2>1, ConcatFacts DEF Suffix
    <3>4. Len(s \o c) - Len(t \o c) + i = Len(s) - Len(t) + i
      BY <1>1
    <3> QED
      BY <3>2, <3>3, <3>4
  <2>2. CASE i \notin 1..Len(t)
    <3> DEFINE k == i - Len(t)
    <3>1. k \in 1..Len(c) /\ i = Len(t) + k
      BY <1>1, <2>2
    <3>2. (t \o c)[i] = c[k]
      BY <3>1, ConcatFacts
    <3>3. (s \o c)[Len(s) + k] = c[k]
      BY <3>1, ConcatFacts
    <3>4. Len(s \o c) - Len(t \o c) + i = Len(s) + k
      BY <1>1
    <3> QED
      BY <3>2, <3>3, <3>4
  <2> QED
    BY <2>1, <2>2
<1> QED
  BY <1>1, <1>2 DEF Suffix

\* What a suffix holds the whole sequence holds.
LEMMA SuffixOccurs ==
    ASSUME NEW s \in Seq(Bytes), NEW t \in Seq(Bytes), Suffix(t, s), Occurs(t)
    PROVE  Occurs(s)
<1>1. Len(BOOT_MARKER) \in Nat
  BY MarkerAssumption
<1>2. PICK i \in 1..(Len(t) - Len(BOOT_MARKER) + 1) :
        \A j \in 1..Len(BOOT_MARKER) : t[i + j - 1] = BOOT_MARKER[j]
  BY DEF Occurs
<1> DEFINE k == Len(s) - Len(t) + i
<1>3. k \in 1..(Len(s) - Len(BOOT_MARKER) + 1)
  BY <1>1 DEF Suffix
<1>4. ASSUME NEW j \in 1..Len(BOOT_MARKER) PROVE s[k + j - 1] = BOOT_MARKER[j]
  <2>1. i + j - 1 \in 1..Len(t)
    BY <1>1
  <2>2. t[i + j - 1] = s[Len(s) - Len(t) + (i + j - 1)]
    BY <2>1 DEF Suffix
  <2>3. Len(s) - Len(t) + (i + j - 1) = k + j - 1
    BY <1>1
  <2> QED
    BY <1>2, <2>2, <2>3
<1> QED
  BY <1>3, <1>4 DEF Occurs

\* A banner that shows up with a chunk lies in the kept end and the chunk, if that
\* end is everything or one byte short of the marker.
LEMMA NewBanner ==
    ASSUME NEW s \in Seq(Bytes), NEW t \in Seq(Bytes), NEW c \in Seq(Bytes), Suffix(t, s),
           t = s \/ Len(t) >= Len(BOOT_MARKER) - 1, Occurs(s \o c)
    PROVE  Occurs(s) \/ Occurs(t \o c)
<1>1. Len(BOOT_MARKER) \in Nat
  BY MarkerAssumption
<1>2. Len(t \o c) = Len(t) + Len(c) /\ Len(s \o c) = Len(s) + Len(c)
  BY ConcatFacts
<1>3. PICK i \in 1..(Len(s \o c) - Len(BOOT_MARKER) + 1) :
        \A j \in 1..Len(BOOT_MARKER) : (s \o c)[i + j - 1] = BOOT_MARKER[j]
  BY DEF Occurs
<1>4. CASE t = s
  BY <1>4
<1>5. CASE i + Len(BOOT_MARKER) - 1 <= Len(s)
  <2>1. i \in 1..(Len(s) - Len(BOOT_MARKER) + 1)
    BY <1>1, <1>5
  <2>2. \A j \in 1..Len(BOOT_MARKER) : i + j - 1 \in 1..Len(s)
    BY <1>1, <2>1
  <2>3. \A j \in 1..Len(BOOT_MARKER) : s[i + j - 1] = BOOT_MARKER[j]
    BY <1>3, <2>2, ConcatFacts
  <2> QED
    BY <2>1, <2>3 DEF Occurs
<1>6. CASE Len(t) >= Len(BOOT_MARKER) - 1 /\ i + Len(BOOT_MARKER) - 1 > Len(s)
  <2> DEFINE k == i - (Len(s) - Len(t))
  <2>1. k \in 1..(Len(t \o c) - Len(BOOT_MARKER) + 1)
    BY <1>1, <1>2, <1>6 DEF Suffix
  <2>2. Suffix(t \o c, s \o c)
    BY SuffixConcat
  <2>3. ASSUME NEW j \in 1..Len(BOOT_MARKER) PROVE (t \o c)[k + j - 1] = BOOT_MARKER[j]
    <3>1. k + j - 1 \in 1..Len(t \o c)
      BY <1>1, <1>2, <2>1
    <3>2. (t \o c)[k + j - 1] = (s \o c)[Len(s \o c) - Len(t \o c) + (k + j - 1)]
      BY <2>2, <3>1 DEF Suffix
    <3>3. Len(s \o c) - Len(t \o c) + (k + j - 1) = i + j - 1
      BY <1>1, <1>2
    <3> QED
      BY <1>3, <3>2, <3>3
  <2> QED
    BY <2>1, <2>3 DEF Occurs
<1> QED
  BY <1>1, <1>4, <1>5, <1>6

\* More output does not unsay a banner.
LEMMA OccursKept ==
    ASSUME NEW s \in Seq(Bytes), NEW c \in Seq(Bytes), Occurs(s)
    PROVE  Occurs(s \o c)
<1>1. Len(BOOT_MARKER) \in Nat
  BY MarkerAssumption
<1>2. PICK i \in 1..(Len(s) - Len(BOOT_MARKER) + 1) :
        \A j \in 1..Len(BOOT_MARKER) : s[i + j - 1] = BOOT_MARKER[j]
  BY DEF Occurs
<1>3. \A j \in 1..Len(BOOT_MARKER) : i + j - 1 \in 1..Len(s)
  BY <1>1
<1>4. \A j \in 1..Len(BOOT_MARKER) : (s \o c)[i + j - 1] = BOOT_MARKER[j]
  BY <1>2, <1>3, ConcatFacts
<1>5. i \in 1..(Len(s \o c) - Len(BOOT_MARKER) + 1)
  BY <1>1, ConcatFacts
<1> QED
  BY <1>4, <1>5 DEF Occurs

\* A read returns some bytes.
LEMMA ChunkType ==
    ASSUME NEW chunk \in Chunk
    PROVE  chunk \in Seq(Bytes) /\ Len(chunk) \in 1..MaxChunk
<1>1. PICK n \in 1..MaxChunk : chunk \in [1..n -> Bytes]
  BY DEF Chunk
<1>2. n \in Nat
  BY OutputAssumption
<1>3. chunk \in Seq(Bytes) /\ Len(chunk) = n
  BY <1>1, <1>2
<1> QED
  BY <1>3

\* What the scanner keeps.
LEMMA KeptFacts ==
    ASSUME tail \in Seq(Bytes)
    PROVE  /\ Kept \in Seq(Bytes) /\ Suffix(Kept, tail)
           /\ Kept = tail \/ Len(Kept) >= Len(BOOT_MARKER) - 1
           /\ Len(Kept) < Len(BOOT_MARKER)
<1> DEFINE n == Len(BOOT_MARKER) - 1
<1>1. n \in Nat
  BY MarkerAssumption
<1>2. /\ Last(tail, n) \in Seq(Bytes) /\ Suffix(Last(tail, n), tail)
      /\ Last(tail, n) = tail \/ Len(Last(tail, n)) = n
      /\ Len(Last(tail, n)) <= n
  BY <1>1, LastFacts
<1>3. Kept = Last(tail, n)
  BY DEF Kept
<1> HIDE DEF n
<1>4. Kept = tail \/ Len(Kept) >= n
  BY <1>1, <1>2, <1>3
<1>5. Len(Kept) < n + 1
  BY <1>1, <1>2, <1>3
<1>6. n + 1 = Len(BOOT_MARKER)
  BY MarkerAssumption DEF n
<1> QED
  BY <1>2, <1>3, <1>4, <1>5, <1>6 DEF n

-----------------------------------------------------------------------------
(* Types *)

\* The initial state is well typed.
LEMMA InitType == Init => TypeOK
<1>1. <<>> \in Seq(Bytes) /\ Len(<<>>) = 0
  OBVIOUS
<1>2. Init => Len(tail) < Len(BOOT_MARKER)
                    + (IF scan \in {"scan", "notify"} THEN MaxChunk ELSE 0)
  BY <1>1, MarkerAssumption DEF Init
<1> QED
  BY <1>1, <1>2 DEF Init, TypeOK

\* Every step keeps the types.
LEMMA StepType == TypeOK /\ [Next]_vars => TypeOK'
<1> SUFFICES ASSUME TypeOK, [Next]_vars
             PROVE  TypeOK'
  OBVIOUS
<1> USE DEF TypeOK, Waiting, Stopping, process, banner, waiter, timers, signals
<1>0. Len(BOOT_MARKER) \in Nat \ {0} /\ MaxChunk \in Nat \ {0} /\ Len(tail) \in Nat
  BY MarkerAssumption, OutputAssumption
<1>1. CASE SpawnFails \/ Spawn
  <2>1. CASE SpawnFails
    BY <2>1 DEF SpawnFails
  <2>2. CASE Spawn
    BY <2>2 DEF Spawn
  <2> QED
    BY <1>1, <2>1, <2>2
<1>2. ASSUME NEW chunk \in Chunk, Mirror(chunk) PROVE TypeOK'
  <2>1. tail \o chunk \in Seq(Bytes) /\ output \o chunk \in Seq(Bytes)
    BY ChunkType, ConcatFacts
  <2>2. Len(tail \o chunk) < Len(BOOT_MARKER) + MaxChunk
    <3>1. Len(tail \o chunk) = Len(tail) + Len(chunk)
      BY ChunkType, ConcatFacts
    <3>2. Len(tail) < Len(BOOT_MARKER)
      BY <1>0, <1>2 DEF Mirror
    <3>3. Len(chunk) \in 1..MaxChunk
      BY ChunkType
    <3> QED
      BY <1>0, <3>1, <3>2, <3>3
  <2> QED
    BY <1>2, <2>1, <2>2 DEF Mirror
<1>3. CASE MirrorEnds \/ FindBanner
  <2>1. CASE MirrorEnds
    BY <2>1 DEF MirrorEnds
  <2>2. CASE FindBanner
    BY <2>2 DEF FindBanner
  <2> QED
    BY <1>3, <2>1, <2>2
<1>4. CASE ScanPast \/ notify_waiters
  <2>1. Kept \in Seq(Bytes) /\ Len(Kept) < Len(BOOT_MARKER) + 0
    BY <1>0, KeptFacts
  <2> QED
    BY <1>4, <2>1 DEF ScanPast, notify_waiters
<1>5. CASE Boot
  <2>1. CASE FirstCheck \/ SecondCheck \/ SelectReady
    BY <2>1 DEF FirstCheck, SecondCheck, LooksAgain, SelectReady
  <2>2. CASE Register
    BY <2>2 DEF Register
  <2>3. CASE SelectExited \/ BootTimesOut
    BY <2>3 DEF SelectExited, BootTimesOut, DropChild
  <2> QED
    BY <1>5, <2>1, <2>2, <2>3 DEF Boot
<1>6. CASE WaitErrors \/ GiveUp \/ has_exited \/ Stop
  BY <1>6 DEF WaitErrors, GiveUp, has_exited, Stop, DropChild
<1>7. CASE StopSteps \/ StopErrors
  <2>1. CASE AlreadyExited \/ ExitsInTime \/ Reap \/ StopErrors
    BY <2>1 DEF AlreadyExited, ExitsInTime, Reap, StopErrors, DropChild
  <2>2. CASE StillRunning \/ GraceExpires
    BY <2>2 DEF StillRunning, GraceExpires
  <2>3. CASE signal_terminate
    BY <2>3 DEF signal_terminate
  <2>4. CASE kill_backend
    BY <2>4 DEF kill_backend, KillGroup, Exits, Dead
  <2> QED
    BY <1>7, <2>1, <2>2, <2>3, <2>4 DEF StopSteps
<1>8. CASE Server \/ DeadlinePasses \/ GracePasses
  <2>1. CASE Server
    BY <2>1 DEF Server, Launch, LeaderExits, MemberExits
  <2>2. CASE DeadlinePasses
    BY <2>2 DEF DeadlinePasses
  <2>3. CASE GracePasses
    BY <2>3 DEF GracePasses
  <2> QED
    BY <1>8, <2>1, <2>2, <2>3
<1>9. CASE Over \/ UNCHANGED vars
  BY <1>9 DEF Over, vars
<1> QED
  BY <1>1, <1>2, <1>3, <1>4, <1>5, <1>6, <1>7, <1>8, <1>9 DEF Next, Scanner

\* Every variable of the adapter has its type, whatever the server prints.
THEOREM TypeCorrect == Spec => []TypeOK
  BY InitType, StepType, PTL DEF Spec

-----------------------------------------------------------------------------
(* The scanner *)

\* The tail ends the output, and it is all of it or long enough.
TailInv ==
    /\ Suffix(tail, output)
    /\ tail = output \/ Len(tail) >= Len(BOOT_MARKER) - 1

\* The flag is right, but for a banner in a chunk that has not been searched yet.
FlagInv ==
    /\ booted => Occurs(output)
    /\ scan = "read" => (Occurs(output) => booted)
    /\ scan = "scan" => (Occurs(output) => booted \/ Occurs(tail))
    /\ scan = "notify" => booted
    /\ step = "new" => scan = "ended" /\ output = <<>> /\ tail = <<>>

ScanInv == TailInv /\ FlagInv

\* Nothing has been printed yet.
LEMMA NothingOccurs == ~Occurs(<<>>)
<1>1. Len(BOOT_MARKER) \in Nat \ {0}
  BY MarkerAssumption
<1> QED
  BY <1>1 DEF Occurs

\* The scanner's invariant holds at the start.
LEMMA InitScan == Init => ScanInv
  BY DEF Init, ScanInv, TailInv, FlagInv, Suffix

\* Every step keeps the scanner's invariant.
LEMMA StepScan == TypeOK /\ ScanInv /\ [Next]_vars => ScanInv'
<1> SUFFICES ASSUME TypeOK, ScanInv, [Next]_vars
             PROVE  ScanInv'
  OBVIOUS
<1>t. tail \in Seq(Bytes) /\ output \in Seq(Bytes) /\ booted \in BOOLEAN
  BY DEF TypeOK
<1>1. CASE Spawn
  BY <1>1, NothingOccurs DEF Spawn, ScanInv, TailInv, FlagInv, Suffix
<1>2. ASSUME NEW chunk \in Chunk, Mirror(chunk) PROVE ScanInv'
  <2>1. chunk \in Seq(Bytes) /\ scan = "read" /\ scan' = "scan" /\ step # "new"
    BY <1>2, ChunkType DEF Mirror, ScanInv, FlagInv
  <2>2. tail' = tail \o chunk /\ output' = output \o chunk /\ UNCHANGED <<booted, step>>
    BY <1>2 DEF Mirror
  <2>3. Suffix(tail, output) /\ (tail = output \/ Len(tail) >= Len(BOOT_MARKER) - 1)
    BY <2>1 DEF ScanInv, TailInv
  <2>4. TailInv'
    <3>1. Suffix(tail', output')
      BY <1>t, <2>1, <2>2, <2>3, SuffixConcat
    <3>2. CASE tail = output
      BY <2>2, <3>1, <3>2 DEF TailInv
    <3>3. CASE Len(tail) >= Len(BOOT_MARKER) - 1
      <4>1. Len(tail') = Len(tail) + Len(chunk)
        BY <1>t, <2>1, <2>2, ConcatFacts
      <4>2. Len(tail') >= Len(BOOT_MARKER) - 1
        BY <1>t, <2>1, <3>3, <4>1, MarkerAssumption
      <4> QED
        BY <3>1, <4>2 DEF TailInv
    <3> QED
      BY <2>3, <3>2, <3>3
  <2>5. booted' => Occurs(output')
    BY <1>t, <2>1, <2>2, OccursKept DEF ScanInv, FlagInv
  <2>6. Occurs(output') => booted' \/ Occurs(tail')
    BY <1>t, <2>1, <2>2, <2>3, NewBanner DEF ScanInv, FlagInv
  <2> QED
    BY <2>1, <2>2, <2>4, <2>5, <2>6 DEF ScanInv, FlagInv
<1>3. CASE FindBanner
  <2>1. Occurs(output)
    BY <1>3, <1>t, SuffixOccurs DEF FindBanner, ScanInv, TailInv
  <2> QED
    BY <1>3, <2>1 DEF FindBanner, ScanInv, TailInv, FlagInv
<1>4. CASE ScanPast \/ notify_waiters
  <2>1. tail' = Kept /\ scan' = "read" /\ UNCHANGED <<output, booted, step>>
    BY <1>4 DEF ScanPast, notify_waiters
  <2>2. Kept \in Seq(Bytes) /\ Suffix(Kept, tail)
            /\ (Kept = tail \/ Len(Kept) >= Len(BOOT_MARKER) - 1)
    BY <1>t, KeptFacts
  <2>3. Suffix(tail', output')
    BY <1>t, <2>1, <2>2, SuffixTransitive DEF ScanInv, TailInv
  <2>4. tail' = output' \/ Len(tail') >= Len(BOOT_MARKER) - 1
    BY <2>1, <2>2 DEF ScanInv, TailInv
  <2>5. Occurs(output) => booted
    BY <1>4 DEF ScanPast, notify_waiters, ScanInv, FlagInv
  <2>6. step # "new"
    BY <1>4 DEF ScanPast, notify_waiters, ScanInv, FlagInv
  <2>7. FlagInv'
    BY <2>1, <2>5, <2>6 DEF ScanInv, FlagInv
  <2> QED
    BY <2>3, <2>4, <2>7 DEF ScanInv, TailInv
<1>5. CASE MirrorEnds
  BY <1>5 DEF MirrorEnds, ScanInv, TailInv, FlagInv
<1>6. CASE UNCHANGED banner /\ step' # "new"
  BY <1>6 DEF banner, ScanInv, TailInv, FlagInv
<1>7. CASE UNCHANGED <<banner, step>>
  BY <1>7 DEF banner, ScanInv, TailInv, FlagInv
<1>8. Next => \/ Spawn \/ FindBanner \/ ScanPast \/ notify_waiters \/ MirrorEnds
              \/ \E chunk \in Chunk : Mirror(chunk)
              \/ UNCHANGED banner /\ step' # "new"
              \/ UNCHANGED <<banner, step>>
  BY DEF Next, Scanner, SpawnFails, Boot, FirstCheck, Register, SecondCheck, LooksAgain,
     SelectReady, SelectExited, BootTimesOut, WaitErrors, GiveUp, has_exited, Stop, StopSteps,
     AlreadyExited, StillRunning, signal_terminate, ExitsInTime, GraceExpires, kill_backend, Reap,
     StopErrors, Server, Launch, LeaderExits, MemberExits, DeadlinePasses, GracePasses, Over, vars
<1> QED
  BY <1>1, <1>2, <1>3, <1>4, <1>5, <1>6, <1>7, <1>8 DEF vars

-----------------------------------------------------------------------------
(* The waiter and the group *)

\* Who waits is registered, who was woken was woken for a banner, and who is
\* ready saw the flag.
WaiterInv ==
    /\ step \in {"second", "select"} => registered
    /\ notified => booted
    /\ step = "ready" => booted
    /\ step = "new" => ~registered /\ ~notified /\ ~booted

GroupInv ==
    /\ KillReachesGroup
    /\ killed => step \notin {"new", "kill"}
    /\ step = "new" => leader = "none"

AdapterInv == TypeOK /\ ScanInv /\ WaiterInv /\ NoLostWakeup /\ GroupInv

\* The adapter's invariant holds at the start.
LEMMA InitAdapter == Init => AdapterInv
  BY InitType, InitScan
  DEF Init, AdapterInv, WaiterInv, NoLostWakeup, GroupInv, KillReachesGroup

\* Every step keeps what the waiter relies on.
LEMMA StepWaiter ==
    AdapterInv /\ [Next]_vars => (WaiterInv /\ NoLostWakeup)'
<1> SUFFICES ASSUME AdapterInv, [Next]_vars
             PROVE  (WaiterInv /\ NoLostWakeup)'
  OBVIOUS
<1> USE DEF AdapterInv, TypeOK, WaiterInv, NoLostWakeup
<1>1. CASE SpawnFails \/ Spawn
  BY <1>1 DEF SpawnFails, Spawn, banner, waiter, ScanInv, FlagInv
<1>2. CASE Scanner
  BY <1>2 DEF Scanner, Mirror, MirrorEnds, FindBanner, ScanPast, notify_waiters, waiter, ScanInv,
     FlagInv
<1>3. CASE Boot
  BY <1>3 DEF Boot, FirstCheck, Register, SecondCheck, LooksAgain, SelectReady, Woken,
     SelectExited, BootTimesOut, banner, waiter
<1>4. CASE WaitErrors \/ GiveUp \/ has_exited \/ Stop \/ StopSteps \/ StopErrors
  BY <1>4 DEF WaitErrors, GiveUp, has_exited, Stop, StopSteps, AlreadyExited, StillRunning,
     signal_terminate, ExitsInTime, GraceExpires, kill_backend, Reap, StopErrors, banner, waiter
<1>5. CASE Server \/ DeadlinePasses \/ GracePasses \/ Over \/ UNCHANGED vars
  BY <1>5 DEF Server, Launch, LeaderExits, MemberExits, DeadlinePasses, GracePasses, Over, vars,
     banner, waiter
<1> QED
  BY <1>1, <1>2, <1>3, <1>4, <1>5 DEF Next

\* Every step keeps what is known about the process group.
LEMMA StepGroup == TypeOK /\ GroupInv /\ [Next]_vars => GroupInv'
<1> SUFFICES ASSUME TypeOK, GroupInv, [Next]_vars
             PROVE  GroupInv'
  OBVIOUS
<1> USE DEF GroupInv, KillReachesGroup, TypeOK
<1>1. CASE SpawnFails \/ Spawn
  BY <1>1 DEF SpawnFails, Spawn, process, signals
<1>2. CASE Scanner
  BY <1>2 DEF Scanner, Mirror, MirrorEnds, FindBanner, ScanPast, notify_waiters, process, signals
<1>3. CASE Boot \/ WaitErrors \/ GiveUp
  BY <1>3 DEF Boot, FirstCheck, Register, SecondCheck, LooksAgain, SelectReady, SelectExited,
     BootTimesOut, WaitErrors, GiveUp, DropChild, process, signals
<1>4. CASE has_exited \/ Stop \/ StopSteps \/ StopErrors
  BY <1>4 DEF has_exited, Stop, StopSteps, AlreadyExited, StillRunning, signal_terminate,
     ExitsInTime, GraceExpires, kill_backend, KillGroup, Exits, Dead, Reap, StopErrors, DropChild,
     process, signals
<1>5. CASE Server \/ DeadlinePasses \/ GracePasses \/ Over \/ UNCHANGED vars
  BY <1>5 DEF Server, Launch, LeaderExits, MemberExits, DeadlinePasses, GracePasses, Over, vars,
     process, signals
<1> QED
  BY <1>1, <1>2, <1>3, <1>4, <1>5 DEF Next

\* The invariant is inductive.
LEMMA AdapterInvariance == Spec => []AdapterInv
<1>1. AdapterInv /\ [Next]_vars => AdapterInv'
  BY StepType, StepScan, StepWaiter, StepGroup DEF AdapterInv
<1> QED
  BY <1>1, InitAdapter, PTL DEF Spec

\* However the output is cut into reads, the scanner's flag says between two reads
\* exactly whether the banner was printed: the tail mirror_stdout keeps is enough.
THEOREM BannerIsFound == Spec => []BannerFound
<1>1. AdapterInv => BannerFound
  BY DEF AdapterInv, ScanInv, FlagInv, BannerFound
<1> QED
  BY <1>1, AdapterInvariance, PTL

\* wait_until_ready never sleeps on a banner that has been announced.
THEOREM WakeupSafe == Spec => []NoLostWakeup
<1>1. AdapterInv => NoLostWakeup
  BY DEF AdapterInv
<1> QED
  BY <1>1, AdapterInvariance, PTL

\* A backend is reported ready only after its banner was printed.
THEOREM ReadySafe == Spec => []ReadyMeansBooted
<1>1. AdapterInv => ReadyMeansBooted
  BY DEF AdapterInv, WaiterInv, ScanInv, FlagInv, ReadyMeansBooted
<1> QED
  BY <1>1, AdapterInvariance, PTL

\* Once stop had to kill, no process of the group is left running, and none comes
\* back.
THEOREM KillSafe == Spec => []KillReachesGroup
<1>1. AdapterInv => KillReachesGroup
  BY DEF AdapterInv, GroupInv
<1> QED
  BY <1>1, AdapterInvariance, PTL

-----------------------------------------------------------------------------
(* The contract *)

\* Steps the caller does not see.
Unseen == UNCHANGED <<callState, serverState>>

\* Every step of the adapter is one of the contract, or unseen.
LEMMA StepImplements == AdapterInv /\ [Next]_vars => [Trait!Next]_(Trait!vars)
<1> SUFFICES ASSUME AdapterInv, [Next]_vars
             PROVE  Trait!Next \/ Unseen
  BY DEF Unseen, Trait!vars
<1> USE DEF callState, serverState, Waiting, Stopping, Unseen
<1>1. CASE SpawnFails
  BY <1>1 DEF SpawnFails, process
<1>2. CASE Spawn
  BY <1>2 DEF Spawn, AdapterInv, GroupInv, Trait!Next, Trait!start
<1>3. CASE Scanner
  BY <1>3 DEF Scanner, Mirror, MirrorEnds, FindBanner, ScanPast, notify_waiters, process
<1>4. CASE FirstCheck \/ Register \/ SecondCheck \/ SelectReady
  BY <1>4 DEF FirstCheck, Register, SecondCheck, LooksAgain, SelectReady, process, Trait!Next,
     Trait!wait_until_ready
<1>5. CASE SelectExited \/ BootTimesOut \/ WaitErrors \/ GiveUp
  BY <1>5 DEF SelectExited, BootTimesOut, WaitErrors, GiveUp, DropChild, Trait!Next, Trait!Fail
<1>6. CASE has_exited \/ Stop
  BY <1>6 DEF has_exited, Stop, process, Trait!Next, Trait!has_exited, Trait!stop
<1>7. CASE AlreadyExited \/ ExitsInTime \/ Reap \/ StopErrors
  BY <1>7 DEF AlreadyExited, ExitsInTime, Reap, StopErrors, DropChild, Trait!Next, Trait!Stopped
<1>8. CASE StillRunning \/ signal_terminate \/ GraceExpires
  BY <1>8 DEF StillRunning, signal_terminate, GraceExpires, process
<1>9. CASE kill_backend \/ LeaderExits
  BY <1>9 DEF kill_backend, KillGroup, Exits, LeaderExits, Trait!Next, Trait!ServerExits
<1>10. CASE Launch \/ MemberExits \/ DeadlinePasses \/ GracePasses \/ Over \/ UNCHANGED vars
  BY <1>10 DEF Launch, MemberExits, DeadlinePasses, GracePasses, Over, vars, process
<1> QED
  BY <1>1, <1>2, <1>3, <1>4, <1>5, <1>6, <1>7, <1>8, <1>9, <1>10
  DEF Next, Boot, StopSteps, Server

\* The process adapter keeps the provider's side of the trait Backend: whichever
\* way an adapter is let go, the process it spawned is gone.
THEOREM AdapterImplements == Spec => ImplementsBackend
<1>1. Init => Trait!Init
  BY DEF Init, Trait!Init, callState, serverState, Waiting, Stopping
<1> QED
  BY <1>1, StepImplements, AdapterInvariance, PTL DEF Spec, ImplementsBackend, Trait!Spec
=============================================================================
