------------------------- MODULE InvalidationAhead ------------------------
(***************************************************************************)
(* Freed frames are unreachable and completed changes visible, for any     *)
(* number of threads, devices, domains, pages and frames and any hardware, *)
(* provided that the words fit (WordsFit, proved of the crates' words in   *)
(* InvalidationProofs).                                                    *)
(*                                                                         *)
(* The invariant follows what is still going to happen.  For each stale    *)
(* translation some thread has an invalidation ahead that covers it, and   *)
(* that thread does not finish before the invalidation is carried out.     *)
(***************************************************************************)
EXTENDS Invalidation, FiniteSetTheorems, SequenceTheorems, TLAPS

(* A sequence, of whatever. *)
IsSeq(s) == Len(s) \in Nat /\ s = [i \in 1 .. Len(s) |-> s[i]]

IsJob(j) ==
  j = [kind |-> j.kind, did |-> j.did, pages |-> j.pages, frames |-> j.frames,
       step |-> j.step, todo |-> j.todo, ticket |-> j.ticket]

---------------------------------------------------------------------------
(* What is ahead.  Of thread d: the queue, and behind it what d has still  *)
(* to append.                                                              *)
Signals(c, d) == Completes(c) /\ c.addr = Semaphore[d]

Unsent(d, i) ==
  IF job[d].todo[i].via = "queue" /\ ~ (i = 1 /\ job[d].step = 1)
  THEN job[d].todo[i].scope ELSE Nothing

Pipe(d, n) == IF n <= Len(queue) THEN queue[n] ELSE Unsent(d, n - Len(queue))

Ahead(d) == 1 .. (Len(queue) + Len(job[d].todo))

(* A covering invalidation, and later the completion that d waits for. *)
QueueDrops(d, did, page) ==
  \E m, n \in Ahead(d) :
    m < n /\ Covers(Pipe(d, m), did, page) /\ Signals(Pipe(d, n), d)

(* The register command i of thread d is not yet issued entirely. *)
Unissued(d, i) == i > 1 \/ job[d].step < Len(job[d].todo[i].writes)

(* The registers ask for it. *)
InIotlb(did, page) ==
  Start \in regs[IOTLB(hw)] /\ Covers(IotlbScope(hw, regs[hw.iva], regs[IOTLB(hw)]), did, page)

InCcmd(x) == Start \in regs[CCMD] /\ DropsContext(CcmdScope(regs[CCMD]), x)

InGsts == Gsts.WBFS \in regs[GSTS]

RegistersDrop(d, did, page) ==
  \E i \in 1 .. Len(job[d].todo) :
    /\ DropsByRegister(hw, job[d].todo[i], did, page)
    /\ Unissued(d, i) \/ InIotlb(did, page)

WillDrop(d, did, page) == QueueDrops(d, did, page) \/ RegistersDrop(d, did, page)

(* The context of device x is dropped, and only then every translation of  *)
(* the domain.                                                             *)
QueueForgets(d, x, did) ==
  \E i, j, k, n \in Ahead(d) :
    /\ i < j /\ j < k /\ k < n
    /\ DropsContext(Pipe(d, i), x)
    /\ Holds(Pipe(d, j))
    /\ \A p \in PageAddrs : Covers(Pipe(d, k), did, p)
    /\ Signals(Pipe(d, n), d)

RegistersForget(d, x, did) ==
  \E i, k \in 1 .. Len(job[d].todo) :
    /\ i < k
    /\ ForgetsByRegister(job[d].todo[i], x)
    /\ \A p \in PageAddrs : DropsByRegister(hw, job[d].todo[k], did, p)
    /\ Unissued(d, i) \/ InCcmd(x)

WillForget(d, x, did) == QueueForgets(d, x, did) \/ RegistersForget(d, x, did)

(* Translations to frame f are used, or cached although f is absent. *)
Usable(f) == f # None \/ "cm" \in hw.built

(* The commands after the first i drop it. *)
TodoDrops(h, d, todo, i, did, page) ==
  \/ \E m, n \in 1 .. Len(todo) :
       /\ i < m /\ m < n
       /\ todo[m].via = "queue" /\ Covers(todo[m].scope, did, page)
       /\ todo[n].via = "queue" /\ Signals(todo[n].scope, d)
  \/ \E k \in 1 .. Len(todo) : i < k /\ DropsByRegister(h, todo[k], did, page)

DropsAfter(d, i, did, page) == TodoDrops(hw, d, job[d].todo, i, did, page)

(* They drop the context, and only then every translation. *)
TodoForgets(h, d, todo, x, did) ==
  \/ \E i, j, k, n \in 1 .. Len(todo) :
       /\ i < j /\ j < k /\ k < n
       /\ todo[i].via = "queue" /\ DropsContext(todo[i].scope, x)
       /\ todo[j].via = "queue" /\ Holds(todo[j].scope)
       /\ todo[k].via = "queue" /\ \A p \in PageAddrs : Covers(todo[k].scope, did, p)
       /\ todo[n].via = "queue" /\ Signals(todo[n].scope, d)
  \/ \E i, k \in 1 .. Len(todo) :
       /\ i < k /\ ForgetsByRegister(todo[i], x)
       /\ \A p \in PageAddrs : DropsByRegister(h, todo[k], did, p)

(* The write buffers are emptied before the translations are dropped. *)
WillFlush(d, f, did, page) ==
  \E i \in 1 .. Len(job[d].todo) :
    /\ Flushes(job[d].todo[i])
    /\ Unissued(d, i) \/ InGsts
    /\ Usable(f) => DropsAfter(d, i, did, page)

---------------------------------------------------------------------------
(* The invariant. *)
Translation == [did : Dids, page : PageAddrs, frame : Frames \cup {None}]

Types ==
  /\ hw \in Hardware
  /\ context \in [Sids -> Dids \cup {None}]
  /\ table \in [Dids \X PageAddrs -> Frames \cup {None}]
  /\ seen \in [Dids \X PageAddrs -> Frames \cup {None}]
  /\ free \subseteq Frames
  /\ lock \in Drivers \cup {None}
  /\ sem \in [{Semaphore[d] : d \in Drivers} -> Tickets]
  /\ IsSeq(queue)
  /\ contexts \subseteq Sids \X Dids
  /\ tlb \subseteq Translation
  /\ walk \in [Sids -> Translation \cup {None}]
  /\ DOMAIN regs = {GSTS, CCMD, hw.iva, IOTLB(hw)}

Job(j) ==
  /\ IsJob(j) /\ IsSeq(j.todo)
  /\ j.step \in Nat /\ j.ticket \in Tickets
  /\ j.pages \subseteq PageAddrs /\ j.frames \subseteq Frames
  /\ j.kind = "idle" => j.pages = {} /\ j.frames = {} /\ j.todo = << >>
  /\ j.kind # "idle" => j.did \in Dids
  /\ j.kind = "detach" => j.pages = PageAddrs

Jobs == DOMAIN job = Drivers /\ \A d \in Drivers : Job(job[d])

(* No two threads work on the same page. *)
Apart ==
  \A d, e \in Drivers :
    d # e /\ job[d].did = job[e].did => job[d].pages \cap job[e].pages = {}

(* A frame is free, mapped once, or about to be given back by one thread. *)
Owned ==
  /\ \A t \in DOMAIN table : table[t] \notin free
  /\ \A t, u \in DOMAIN table : table[t] = table[u] /\ table[t] # None => t = u
  /\ \A d \in Drivers :
       /\ job[d].frames \cap free = {}
       /\ \A t \in DOMAIN table :
            table[t] \in job[d].frames => job[d].kind = "detach" /\ t[1] = job[d].did
       /\ \A e \in Drivers : d # e => job[d].frames \cap job[e].frames = {}

(* Waits: only the last command of a job is one; it carries the other      *)
(* ticket until it is sent.                                                *)
WaitsFor(d, j) ==
  \A i \in 1 .. Len(j.todo) :
    LET c == j.todo[i]
    IN  /\ c.op = "wait" => i = Len(j.todo)
        /\ c.via = "queue" /\ c.op # "wait" => ~ Completes(c.scope)
        /\ c.via = "queue" /\ c.op = "wait" =>
             /\ Signals(c.scope, d)
             /\ ~ (i = 1 /\ j.step = 1) => c.scope.data = Other(j.ticket)
        /\ c.via = "queue" /\ i = 1 => j.step = 0 \/ (j.step = 1 /\ c.op = "wait")

Waits == \A d \in Drivers : WaitsFor(d, job[d])

(* Semaphores: the ticket of a polling thread is on its way at most once,  *)
(* and not in memory then; without a poll it is in memory.                 *)
Semaphores ==
  /\ \A n \in 1 .. Len(queue) : Completes(queue[n]) => \E d \in Drivers : Signals(queue[n], d)
  /\ \A d \in Drivers :
       /\ ~ Polling(d) => Signalled(d)
       /\ \A n \in 1 .. Len(queue) : Signals(queue[n], d) =>
            /\ Polling(d) /\ ~ Signalled(d) /\ queue[n].data = job[d].ticket
            /\ \A m \in 1 .. Len(queue) : Signals(queue[m], d) => m = n

(* The lock is held from the first store to the end of the poll. *)
LockedFor(d) ==
  Working(d) /\ Command(d).via = "registers" /\ job[d].step > 0 =>
    /\ lock = d
    /\ Len(Command(d).writes) = 2 /\ Command(d).writes[1].at = hw.iva /\ job[d].step = 1
         => regs[hw.iva] = Command(d).writes[1].word

Locked == \A d \in Drivers : LockedFor(d)

Claims(d, did, page) == job[d].did = did /\ page \in job[d].pages

Leaves(d, f) == f \in job[d].frames \cup {None}

(* What walks find is in the tables, or about to be flushed. *)
Seen ==
  \A did \in Dids, p \in PageAddrs :
    seen[<<did, p>>] # table[<<did, p>>] =>
      \E d \in Drivers : /\ Claims(d, did, p) /\ Leaves(d, seen[<<did, p>>])
                         /\ WillFlush(d, seen[<<did, p>>], did, p)

(* What is cached or about to be is in the tables, or about to be dropped; *)
(* it will be dropped in any case if the domain is being given up.         *)
Stale ==
  \A e \in Translations :
    /\ Usable(e.frame) /\ e.frame # table[<<e.did, e.page>>] =>
         \E d \in Drivers : /\ Claims(d, e.did, e.page) /\ Leaves(d, e.frame)
                            /\ WillDrop(d, e.did, e.page)
    /\ e.frame # None =>
         \A d \in Drivers : job[d].kind = "detach" /\ job[d].did = e.did
                              => WillDrop(d, e.did, e.page)
    /\ e \in tlb => Usable(e.frame)

(* Cached contexts are true, or their thread will see them dropped first.  *)
Contexts ==
  /\ \A e \in contexts :
       e[2] # context[e[1]] =>
         \E d \in Drivers : /\ job[d].kind = "detach" /\ job[d].did = e[2]
                            /\ WillForget(d, e[1], e[2])
  /\ \A d \in Drivers : job[d].kind = "detach" => \A x \in Sids : context[x] # job[d].did

Inv ==
  /\ Types /\ Jobs /\ Apart /\ Owned
  /\ Waits /\ Semaphores /\ Locked
  /\ Seen /\ Stale /\ Contexts

---------------------------------------------------------------------------
(* Sequences. *)
LEMMA SeqOf ==
  ASSUME NEW s, IsSeq(s)
  PROVE  s \in Seq({s[i] : i \in 1 .. Len(s)})
  BY DEF IsSeq

LEMMA SeqIs ==
  ASSUME NEW S, NEW s \in Seq(S)
  PROVE  IsSeq(s)
  BY DEF IsSeq

LEMMA SeqTail ==
  ASSUME NEW s, IsSeq(s), s # << >>
  PROVE  /\ Len(s) >= 1 /\ Head(s) = s[1]
         /\ IsSeq(Tail(s)) /\ Len(Tail(s)) = Len(s) - 1
         /\ \A i \in 1 .. (Len(s) - 1) : Tail(s)[i] = s[i + 1]
<1>1. s \in Seq({s[i] : i \in 1 .. Len(s)})
  BY SeqOf
<1>2. Len(s) \in Nat /\ Len(s) >= 1
  BY <1>1 DEF IsSeq
<1>3. Tail(s) \in Seq({s[i] : i \in 1 .. Len(s)}) /\ Len(Tail(s)) = Len(s) - 1
  BY <1>1
<1>4. \A i \in 1 .. (Len(s) - 1) : Tail(s)[i] = s[i + 1]
  BY <1>1
<1>5. IsSeq(Tail(s))
  BY <1>3, SeqIs
<1> QED BY <1>1, <1>2, <1>3, <1>4, <1>5

LEMMA SeqEmpty ==
  ASSUME NEW s, IsSeq(s)
  PROVE  s = << >> <=> Len(s) = 0
<1>1. s \in Seq({s[i] : i \in 1 .. Len(s)})
  BY SeqOf
<1> QED BY <1>1

LEMMA SeqAppend ==
  ASSUME NEW s, IsSeq(s), NEW x
  PROVE  /\ IsSeq(Append(s, x)) /\ Len(Append(s, x)) = Len(s) + 1
         /\ \A i \in 1 .. Len(s) : Append(s, x)[i] = s[i]
         /\ Append(s, x)[Len(s) + 1] = x
<1> DEFINE S == {s[i] : i \in 1 .. Len(s)} \cup {x}
<1>1. s \in Seq(S) /\ x \in S /\ Len(s) \in Nat
  BY DEF IsSeq
<1> HIDE DEF S
<1>2. Append(s, x) \in Seq(S) /\ Len(Append(s, x)) = Len(s) + 1
  BY <1>1
<1>3. IsSeq(Append(s, x))
  BY <1>2, SeqIs
<1> QED BY <1>1, <1>2, <1>3

LEMMA SeqOne ==
  /\ IsSeq(<< >>) /\ Len(<< >>) = 0
  /\ \A x : IsSeq(<<x>>) /\ Len(<<x>>) = 1 /\ <<x>>[1] = x
<1>1. << >> \in Seq({}) /\ Len(<< >>) = 0
  OBVIOUS
<1>2. ASSUME NEW x PROVE IsSeq(<<x>>) /\ Len(<<x>>) = 1 /\ <<x>>[1] = x
  <2>1. <<x>> \in Seq({x}) /\ Len(<<x>>) = 1 /\ <<x>>[1] = x
    OBVIOUS
  <2> QED BY <2>1, SeqIs
<1> QED BY <1>1, <1>2, SeqIs

LEMMA SeqCat ==
  ASSUME NEW s, NEW t, IsSeq(s), IsSeq(t)
  PROVE  /\ IsSeq(s \o t) /\ Len(s \o t) = Len(s) + Len(t)
         /\ \A i \in 1 .. Len(s) : (s \o t)[i] = s[i]
         /\ \A i \in 1 .. Len(t) : (s \o t)[Len(s) + i] = t[i]
<1> DEFINE S == {s[i] : i \in 1 .. Len(s)} \cup {t[i] : i \in 1 .. Len(t)}
<1>1. s \in Seq(S) /\ Len(s) \in Nat
  BY DEF IsSeq
<1>2. t \in Seq(S) /\ Len(t) \in Nat
  BY DEF IsSeq
<1> HIDE DEF S
<1>3. PICK u : u = s \o t
  OBVIOUS
<1>4. u \in Seq(S) /\ Len(u) = Len(s) + Len(t)
  BY <1>1, <1>2, <1>3, ConcatProperties
<1>5. \A i \in 1 .. (Len(s) + Len(t)) : u[i] = IF i <= Len(s) THEN s[i] ELSE t[i - Len(s)]
  BY <1>1, <1>2, <1>3, ConcatProperties
<1>6. \A i \in 1 .. Len(s) : u[i] = s[i]
  BY <1>1, <1>2, <1>5
<1>7. ASSUME NEW i \in 1 .. Len(t) PROVE u[Len(s) + i] = t[i]
  <2>1. /\ Len(s) + i \in 1 .. (Len(s) + Len(t)) /\ ~ (Len(s) + i <= Len(s))
        /\ (Len(s) + i) - Len(s) = i
    BY <1>1, <1>2
  <2> QED BY <1>5, <2>1
<1>8. IsSeq(u)
  BY <1>4, SeqIs
<1> QED BY <1>3, <1>4, <1>6, <1>7, <1>8

Without(s, n) == SubSeq(s, 1, n - 1) \o SubSeq(s, n + 1, Len(s))

LEMMA SeqWithout ==
  ASSUME NEW s, IsSeq(s), NEW n \in 1 .. Len(s)
  PROVE  /\ IsSeq(Without(s, n)) /\ Len(Without(s, n)) = Len(s) - 1
         /\ \A i \in 1 .. (Len(s) - 1) : Without(s, n)[i] = IF i < n THEN s[i] ELSE s[i + 1]
<1> DEFINE S == {s[i] : i \in 1 .. Len(s)}
           a == SubSeq(s, 1, n - 1)
           b == SubSeq(s, n + 1, Len(s))
<1>1. s \in Seq(S) /\ Len(s) \in Nat
  BY DEF IsSeq
<1> HIDE DEF S
<1>2. a \in Seq(S) /\ Len(a) = n - 1 /\ \A i \in 1 .. (n - 1) : a[i] = s[i]
  BY <1>1
<1>3. b \in Seq(S) /\ Len(b) = Len(s) - n /\ \A i \in 1 .. (Len(s) - n) : b[i] = s[n + i]
  BY <1>1
<1> HIDE DEF a, b
<1> DEFINE c == a \o b
<1>4a. c \in Seq(S) /\ Len(c) = Len(a) + Len(b)
  BY <1>2, <1>3, ConcatProperties
<1>5a. \A i \in 1 .. (Len(a) + Len(b)) : c[i] = IF i <= Len(a) THEN a[i] ELSE b[i - Len(a)]
  BY <1>2, <1>3, ConcatProperties
<1> HIDE DEF c
<1>4. c \in Seq(S) /\ Len(c) = Len(s) - 1
  BY <1>1, <1>2, <1>3, <1>4a
<1>5. \A i \in 1 .. (Len(s) - 1) : c[i] = IF i < n THEN a[i] ELSE b[i - (n - 1)]
  BY <1>1, <1>2, <1>3, <1>5a
<1>6. ASSUME NEW i \in 1 .. (Len(s) - 1), i >= n PROVE b[i - (n - 1)] = s[i + 1]
  BY <1>1, <1>3, <1>6
<1>7. IsSeq(c)
  BY <1>4, SeqIs
<1>8. Without(s, n) = c
  BY DEF Without, a, b, c
<1> QED BY <1>1, <1>2, <1>4, <1>5, <1>6, <1>7, <1>8

---------------------------------------------------------------------------
(* Steps of a thread. *)
Stepped(d, todo, step, ticket) ==
  /\ DOMAIN job' = Drivers
  /\ \A e \in Drivers \ {d} : job'[e] = job[e]
  /\ job'[d] = [kind |-> job[d].kind, did |-> job[d].did, pages |-> job[d].pages,
                frames |-> job[d].frames, step |-> step, todo |-> todo, ticket |-> ticket]

LEMMA AdvanceIs ==
  ASSUME Jobs, NEW d \in Drivers, Advance(d)
  PROVE  Stepped(d, Tail(job[d].todo), 0, job[d].ticket)
<1>1. DOMAIN job = Drivers /\ IsJob(job[d])
  BY DEF Jobs, Job
<1>2. /\ DOMAIN job' = Drivers
      /\ \A e \in Drivers \ {d} : job'[e] = job[e]
      /\ job'[d] = [job[d] EXCEPT !.todo = Tail(job[d].todo), !.step = 0]
  BY <1>1 DEF Advance
<1>3. job'[d] = [kind |-> job[d].kind, did |-> job[d].did, pages |-> job[d].pages,
                frames |-> job[d].frames, step |-> 0, todo |-> Tail(job[d].todo),
                ticket |-> job[d].ticket]
  BY <1>1, <1>2 DEF IsJob
<1> QED BY <1>2, <1>3 DEF Stepped

LEMMA SubmitIs ==
  ASSUME Jobs, NEW d \in Drivers, Submit(d)
  PROVE  IF Command(d).op = "wait"
         THEN Stepped(d, job[d].todo, 1, Other(job[d].ticket))
         ELSE Stepped(d, Tail(job[d].todo), 0, job[d].ticket)
<1>1. DOMAIN job = Drivers /\ IsJob(job[d])
  BY DEF Jobs, Job
<1>2. CASE Command(d).op = "wait"
  <2>1. /\ DOMAIN job' = Drivers
        /\ \A e \in Drivers \ {d} : job'[e] = job[e]
        /\ job'[d] = [job[d] EXCEPT !.step = 1, !.ticket = Other(job[d].ticket)]
    BY <1>1, <1>2 DEF Submit
  <2>2. job'[d] = [kind |-> job[d].kind, did |-> job[d].did, pages |-> job[d].pages,
                   frames |-> job[d].frames, step |-> 1, todo |-> job[d].todo,
                   ticket |-> Other(job[d].ticket)]
    BY <1>1, <2>1 DEF IsJob
  <2> QED BY <1>2, <2>1, <2>2 DEF Stepped
<1>3. CASE Command(d).op # "wait"
  BY <1>3, AdvanceIs DEF Submit
<1> QED BY <1>2, <1>3

LEMMA WriteIs ==
  ASSUME Jobs, NEW d \in Drivers, WriteRegister(d)
  PROVE  Stepped(d, job[d].todo, job[d].step + 1, job[d].ticket)
<1>1. DOMAIN job = Drivers /\ IsJob(job[d])
  BY DEF Jobs, Job
<1>2. /\ DOMAIN job' = Drivers
      /\ \A e \in Drivers \ {d} : job'[e] = job[e]
      /\ job'[d] = [job[d] EXCEPT !.step = job[d].step + 1]
  BY <1>1 DEF WriteRegister
<1>3. job'[d] = [kind |-> job[d].kind, did |-> job[d].did, pages |-> job[d].pages,
                 frames |-> job[d].frames, step |-> job[d].step + 1, todo |-> job[d].todo,
                 ticket |-> job[d].ticket]
  BY <1>1, <1>2 DEF IsJob
<1> QED BY <1>2, <1>3 DEF Stepped

(* The claims of all threads stay as they are. *)
SameClaims ==
  /\ DOMAIN job' = Drivers
  /\ \A d \in Drivers :
       /\ job'[d].kind = job[d].kind /\ job'[d].did = job[d].did
       /\ job'[d].pages = job[d].pages /\ job'[d].frames = job[d].frames

LEMMA SteppedJobs ==
  ASSUME Jobs, NEW d \in Drivers, NEW todo, NEW step \in Nat, NEW ticket \in Tickets,
         IsSeq(todo), job[d].kind = "idle" => todo = << >>,
         Stepped(d, todo, step, ticket)
  PROVE  Jobs' /\ SameClaims
<1>1. Job(job'[d])
  BY DEF Stepped, Jobs, Job, IsJob
<1>2. \A e \in Drivers \ {d} : Job(job'[e])
  BY DEF Stepped, Jobs
<1>3. Jobs'
  BY <1>1, <1>2 DEF Stepped, Jobs
<1> QED BY <1>3 DEF Stepped, SameClaims

(* Where position n of what is ahead goes when something is inserted or    *)
(* removed at a.                                                           *)
Shifted(a, k, n) == IF n < a THEN n ELSE n + k

(* The order of what is ahead survives: so does each chain in it of which  *)
(* no element was removed.                                                 *)
LEMMA PipeShift ==
  ASSUME NEW d, NEW a \in Int, NEW k \in {-1, 0, 1}, NEW S, S \subseteq Int, k = -1 => a \notin S,
         \A n \in S : Shifted(a, k, n) \in Ahead(d)' /\ Pipe(d, Shifted(a, k, n))' = Pipe(d, n)
  PROVE  /\ \A did, p :
              (\E m, n \in S : m < n /\ Covers(Pipe(d, m), did, p) /\ Signals(Pipe(d, n), d))
                => QueueDrops(d, did, p)'
         /\ \A x, did :
              (\E i, j, l, n \in S :
                 /\ i < j /\ j < l /\ l < n
                 /\ DropsContext(Pipe(d, i), x) /\ Holds(Pipe(d, j))
                 /\ \A p \in PageAddrs : Covers(Pipe(d, l), did, p)
                 /\ Signals(Pipe(d, n), d))
                => QueueForgets(d, x, did)'
<1>1. \A m, n \in S : m < n => Shifted(a, k, m) < Shifted(a, k, n)
  BY DEF Shifted
<1>2. ASSUME NEW did, NEW p, NEW m \in S, NEW n \in S, m < n,
             Covers(Pipe(d, m), did, p), Signals(Pipe(d, n), d)
      PROVE  QueueDrops(d, did, p)'
  <2>1. /\ Shifted(a, k, m) \in Ahead(d)' /\ Shifted(a, k, n) \in Ahead(d)'
        /\ Shifted(a, k, m) < Shifted(a, k, n)
        /\ Covers(Pipe(d, Shifted(a, k, m))', did, p)
        /\ Signals(Pipe(d, Shifted(a, k, n))', d)
    BY <1>1, <1>2
  <2> QED BY <2>1 DEF QueueDrops
<1>3. ASSUME NEW x, NEW did, NEW i \in S, NEW j \in S, NEW l \in S, NEW n \in S,
             i < j, j < l, l < n, DropsContext(Pipe(d, i), x), Holds(Pipe(d, j)),
             \A p \in PageAddrs : Covers(Pipe(d, l), did, p), Signals(Pipe(d, n), d)
      PROVE  QueueForgets(d, x, did)'
  <2>1. /\ Shifted(a, k, i) \in Ahead(d)' /\ Shifted(a, k, j) \in Ahead(d)'
        /\ Shifted(a, k, l) \in Ahead(d)' /\ Shifted(a, k, n) \in Ahead(d)'
        /\ Shifted(a, k, i) < Shifted(a, k, j) /\ Shifted(a, k, j) < Shifted(a, k, l)
        /\ Shifted(a, k, l) < Shifted(a, k, n)
    BY <1>1, <1>3
  <2>2. /\ DropsContext(Pipe(d, Shifted(a, k, i))', x)
        /\ Holds(Pipe(d, Shifted(a, k, j))')
        /\ \A p \in PageAddrs : Covers(Pipe(d, Shifted(a, k, l))', did, p)
        /\ Signals(Pipe(d, Shifted(a, k, n))', d)
    BY <1>3
  <2> QED BY <2>1, <2>2 DEF QueueForgets
<1> QED BY <1>2, <1>3

---------------------------------------------------------------------------
(* What is ahead in the queue, step by step. *)
KeepsQueue(e) ==
  /\ \A did, p : QueueDrops(e, did, p) => QueueDrops(e, did, p)'
  /\ \A x, did : QueueForgets(e, x, did) => QueueForgets(e, x, did)'

PipeMoves(e, a, k) ==
  \A n \in Ahead(e) :
    Shifted(a, k, n) \in Ahead(e)' /\ Pipe(e, Shifted(a, k, n))' = Pipe(e, n)

LEMMA PipeKept ==
  ASSUME NEW e \in Drivers, Types, Jobs, NEW a \in Int, NEW k \in {0, 1}, PipeMoves(e, a, k)
  PROVE  KeepsQueue(e)
<1>0. PICK S : S = Ahead(e)
  OBVIOUS
<1>1. S \subseteq Int
  BY <1>0 DEF Ahead, Types, IsSeq, Jobs, Job
<1>2. \A n \in S :
        Shifted(a, k, n) \in Ahead(e)' /\ Pipe(e, Shifted(a, k, n))' = Pipe(e, n)
  BY <1>0 DEF PipeMoves
<1>3. k \in {-1, 0, 1} /\ (k = -1 => a \notin S)
  OBVIOUS
<1>4. /\ \A did, p :
           (\E m, n \in S : m < n /\ Covers(Pipe(e, m), did, p) /\ Signals(Pipe(e, n), e))
             => QueueDrops(e, did, p)'
      /\ \A x, did :
           (\E i, j, l, n \in S :
              /\ i < j /\ j < l /\ l < n
              /\ DropsContext(Pipe(e, i), x) /\ Holds(Pipe(e, j))
              /\ \A p \in PageAddrs : Covers(Pipe(e, l), did, p)
              /\ Signals(Pipe(e, n), e))
             => QueueForgets(e, x, did)'
  BY <1>1, <1>2, <1>3, PipeShift
<1>5. ASSUME NEW did, NEW p, QueueDrops(e, did, p) PROVE QueueDrops(e, did, p)'
  BY <1>0, <1>4, <1>5 DEF QueueDrops
<1>6. ASSUME NEW x, NEW did, QueueForgets(e, x, did) PROVE QueueForgets(e, x, did)'
  BY <1>0, <1>4, <1>6 DEF QueueForgets
<1> QED BY <1>5, <1>6 DEF KeepsQueue

(* A command that the IOMMU ignores is never part of a chain. *)
LEMMA NothingIsNothing ==
  /\ \A did, p : ~ Covers(Nothing, did, p)
  /\ \A x : ~ DropsContext(Nothing, x)
  /\ ~ Holds(Nothing) /\ \A d : ~ Signals(Nothing, d)
<1>1. Nothing.op = "nothing"
  BY DEF Nothing
<1>2. \A did, p : ~ Covers(Nothing, did, p)
  BY <1>1 DEF Covers
<1> QED BY <1>1, <1>2 DEF DropsContext, Holds, Signals, Completes

LEMMA SubmitKeepsQueue ==
  ASSUME Types, Jobs, NEW d \in Drivers, Submit(d), NEW e \in Drivers
  PROVE  KeepsQueue(e)
<1>1. PICK L : L = Len(queue)
  OBVIOUS
<1>2. /\ L \in Nat /\ Len(queue') = L + 1 /\ queue'[L + 1] = Command(d).scope
      /\ \A n \in 1 .. L : queue'[n] = queue[n]
  BY <1>1, SeqAppend DEF Types, IsSeq, Submit
<1>3. /\ IsSeq(job[d].todo) /\ job[d].todo # << >> /\ job[d].step = 0
      /\ Len(job[d].todo) \in Nat /\ Len(job[d].todo) >= 1 /\ Command(d) = job[d].todo[1]
      /\ job[d].todo[1].via = "queue"
  BY SeqTail DEF Submit, Jobs, Job, IsSeq, Working, Command
<1>4. CASE e # d
  <2>1. job'[e] = job[e] /\ Len(job[e].todo) \in Nat
    BY <1>4, SubmitIs DEF Stepped, Jobs, Job, IsSeq
  <2>5. PICK T \in Nat : T = Len(job[e].todo)
    BY <2>1
  <2>6. Ahead(e)' = 1 .. (L + 1 + T) /\ Ahead(e) = 1 .. (L + T)
    BY <1>1, <1>2, <2>1, <2>5 DEF Ahead
  <2>2. \A i : Unsent(e, i)' = Unsent(e, i)
    BY <2>1 DEF Unsent
  <2>3. ASSUME NEW n \in Ahead(e)
        PROVE  Shifted(L + 1, 1, n) \in Ahead(e)' /\ Pipe(e, Shifted(L + 1, 1, n))' = Pipe(e, n)
    <3>1. n \in Int /\ 1 <= n /\ n <= L + T
      BY <1>2, <2>6
    <3>0. n \in Ahead(e)' /\ n + 1 \in Ahead(e)'
      BY <1>2, <2>6, <3>1
    <3>2. CASE n <= L
      <4>1. Shifted(L + 1, 1, n) = n
        BY <1>2, <3>1, <3>2 DEF Shifted
      <4>2. n \in Ahead(e)'
        BY <3>0
      <4>3. Pipe(e, n)' = Pipe(e, n)
        BY <1>1, <1>2, <3>1, <3>2 DEF Pipe
      <4> QED BY <4>1, <4>2, <4>3
    <3>3. CASE n > L
      <4>1. Shifted(L + 1, 1, n) = n + 1
        BY <1>2, <3>1, <3>3 DEF Shifted
      <4>2. Pipe(e, n) = Unsent(e, n - L)
        BY <1>1, <1>2, <3>1, <3>3 DEF Pipe
      <4>3. Pipe(e, n + 1)' = Unsent(e, n - L)'
        <5>1. ~ (n + 1 <= Len(queue')) /\ (n + 1) - Len(queue') = n - L
          BY <1>2, <3>1, <3>3
        <5> QED BY <5>1 DEF Pipe
      <4>4. n + 1 \in Ahead(e)'
        BY <3>0
      <4> QED BY <2>2, <4>1, <4>2, <4>3, <4>4
    <3> QED BY <1>2, <3>1, <3>2, <3>3
  <2>4. PipeMoves(e, L + 1, 1)
    BY <2>3 DEF PipeMoves
  <2> QED BY <1>2, <2>4, PipeKept
<1>5. CASE Command(d).op # "wait"
  <2>0. Stepped(d, Tail(job[d].todo), 0, job[d].ticket)
    BY <1>5, SubmitIs
  <2>1. job'[d].todo = Tail(job[d].todo) /\ job'[d].step = 0
    BY <2>0 DEF Stepped
  <2>2. /\ Len(job'[d].todo) = Len(job[d].todo) - 1
        /\ \A i \in 1 .. (Len(job[d].todo) - 1) : job'[d].todo[i] = job[d].todo[i + 1]
    BY <1>3, <2>1, SeqTail
  <2>6. Ahead(d)' = Ahead(d)
    <3>1. PICK T : T = Len(job[d].todo)
      OBVIOUS
    <3>2. T \in Nat /\ L \in Nat /\ Len(job'[d].todo) = T - 1 /\ Len(queue') = L + 1
      BY <1>2, <1>3, <2>2, <3>1
    <3>3. Ahead(d)' = 1 .. ((L + 1) + (T - 1)) /\ Ahead(d) = 1 .. (L + T)
      BY <1>1, <3>1, <3>2 DEF Ahead
    <3>4. (L + 1) + (T - 1) = L + T
      BY <3>2
    <3> QED BY <3>3, <3>4
  <2>3. ASSUME NEW n \in Ahead(d)
        PROVE  Shifted(L + 1, 0, n) \in Ahead(d)' /\ Pipe(d, Shifted(L + 1, 0, n))' = Pipe(d, n)
    <3>1. n \in Int /\ 1 <= n /\ n <= L + Len(job[d].todo)
      BY <1>1, <1>2, <1>3 DEF Ahead
    <3>2. Shifted(L + 1, 0, n) = n
      BY <3>1 DEF Shifted
    <3>3. n \in Ahead(d)'
      BY <2>6
    <3>4. CASE n <= L
      BY <1>1, <1>2, <3>1, <3>2, <3>3, <3>4 DEF Pipe
    <3>5. CASE n = L + 1
      <4>1. Pipe(d, n) = Unsent(d, 1)
        BY <1>1, <1>2, <3>5 DEF Pipe
      <4>2. Pipe(d, n)' = Command(d).scope
        BY <1>2, <3>5 DEF Pipe
      <4>3. Unsent(d, 1) = Command(d).scope
        BY <1>3 DEF Unsent
      <4> QED BY <3>2, <3>3, <4>1, <4>2, <4>3
    <3>6. CASE n > L + 1
      <4>1. Pipe(d, n) = Unsent(d, n - L) /\ n - L > 1
        BY <1>1, <1>2, <3>1, <3>6 DEF Pipe
      <4>2. Pipe(d, n)' = Unsent(d, n - L - 1)'
        <5>1. ~ (n <= Len(queue')) /\ n - Len(queue') = n - L - 1
          BY <1>2, <3>1, <3>6
        <5> QED BY <5>1 DEF Pipe
      <4>3. job'[d].todo[n - L - 1] = job[d].todo[n - L]
        <5>1. n - L - 1 \in 1 .. (Len(job[d].todo) - 1) /\ (n - L - 1) + 1 = n - L
          BY <1>2, <1>3, <3>1, <3>6
        <5> QED BY <2>2, <5>1
      <4>4. Unsent(d, n - L - 1)' = Unsent(d, n - L)
        BY <1>2, <2>1, <3>1, <3>6, <4>1, <4>3 DEF Unsent
      <4> QED BY <3>2, <3>3, <4>1, <4>2, <4>4
    <3> QED BY <1>2, <3>1, <3>4, <3>5, <3>6
  <2>4. PipeMoves(d, L + 1, 0)
    BY <2>3 DEF PipeMoves
  <2>5. KeepsQueue(d)
    BY <1>2, <2>4, PipeKept
  <2> QED BY <1>4, <2>5
<1>6. CASE Command(d).op = "wait"
  <2>0. Stepped(d, job[d].todo, 1, Other(job[d].ticket))
    BY <1>6, SubmitIs
  <2>1. job'[d].todo = job[d].todo /\ job'[d].step = 1
    BY <2>0 DEF Stepped
  <2>2. ASSUME NEW n \in Ahead(d)
        PROVE  Shifted(L + 2, 1, n) \in Ahead(d)' /\ Pipe(d, Shifted(L + 2, 1, n))' = Pipe(d, n)
    <3>1. n \in Int /\ 1 <= n /\ n <= L + Len(job[d].todo)
      BY <1>1, <1>2, <1>3 DEF Ahead
    <3>2. n \in Ahead(d)' /\ n + 1 \in Ahead(d)'
      <4>1. PICK T \in Nat : T = Len(job[d].todo)
        BY <1>3
      <4>2. Ahead(d)' = 1 .. (L + 1 + T)
        BY <1>2, <2>1, <4>1 DEF Ahead
      <4>3. L \in Nat /\ n \in Int /\ 1 <= n /\ n <= L + T
        BY <1>2, <3>1, <4>1
      <4>4. n \in 1 .. (L + 1 + T) /\ n + 1 \in 1 .. (L + 1 + T)
        BY <4>3
      <4> QED BY <4>2, <4>4
    <3>3. CASE n <= L
      <4>1. Shifted(L + 2, 1, n) = n
        BY <1>2, <3>1, <3>3 DEF Shifted
      <4>2. Pipe(d, n)' = Pipe(d, n)
        BY <1>1, <1>2, <3>1, <3>3 DEF Pipe
      <4> QED BY <3>2, <4>1, <4>2
    <3>4. CASE n = L + 1
      <4>1. Pipe(d, n) = Unsent(d, 1)
        BY <1>1, <1>2, <3>4 DEF Pipe
      <4>2. Pipe(d, n)' = Command(d).scope
        BY <1>2, <3>4 DEF Pipe
      <4>3. Unsent(d, 1) = Command(d).scope
        BY <1>3 DEF Unsent
      <4>4. Shifted(L + 2, 1, n) = n
        BY <1>2, <3>4 DEF Shifted
      <4> QED BY <3>2, <4>1, <4>2, <4>3, <4>4
    <3>5. CASE n > L + 1
      <4>1. Shifted(L + 2, 1, n) = n + 1
        BY <1>2, <3>1, <3>5 DEF Shifted
      <4>2. Pipe(d, n) = Unsent(d, n - L) /\ n - L > 1
        BY <1>1, <1>2, <3>1, <3>5 DEF Pipe
      <4>3. Pipe(d, n + 1)' = Unsent(d, n - L)'
        <5>1. ~ (n + 1 <= Len(queue')) /\ (n + 1) - Len(queue') = n - L
          BY <1>2, <3>1, <3>5
        <5> QED BY <5>1 DEF Pipe
      <4>4. Unsent(d, n - L)' = Unsent(d, n - L)
        BY <1>2, <2>1, <3>1, <4>2 DEF Unsent
      <4> QED BY <3>2, <4>1, <4>2, <4>3, <4>4
    <3> QED BY <1>2, <3>1, <3>3, <3>4, <3>5
  <2>3. PipeMoves(d, L + 2, 1)
    BY <2>2 DEF PipeMoves
  <2>4. KeepsQueue(d)
    BY <1>2, <2>3, PipeKept
  <2> QED BY <1>4, <2>4
<1> QED BY <1>5, <1>6

LEMMA SameKeepsQueue ==
  ASSUME NEW e \in Drivers, queue' = queue,
         job'[e].todo = job[e].todo,
         \A i : Unsent(e, i)' = Unsent(e, i)
  PROVE  KeepsQueue(e)
<1>1. \A n : Pipe(e, n)' = Pipe(e, n)
  BY DEF Pipe
<1>2. Ahead(e)' = Ahead(e)
  BY DEF Ahead
<1>3. ASSUME NEW did, NEW p, QueueDrops(e, did, p) PROVE QueueDrops(e, did, p)'
  BY <1>1, <1>2, <1>3 DEF QueueDrops
<1>4. ASSUME NEW x, NEW did, QueueForgets(e, x, did) PROVE QueueForgets(e, x, did)'
  BY <1>1, <1>2, <1>4 DEF QueueForgets
<1> QED BY <1>3, <1>4 DEF KeepsQueue

(* Position r is removed from what is ahead. *)
PipeLoses(e, r) ==
  \A n \in Ahead(e) \ {r} :
    Shifted(r, -1, n) \in Ahead(e)' /\ Pipe(e, Shifted(r, -1, n))' = Pipe(e, n)

LEMMA PipeKeptBut ==
  ASSUME NEW e \in Drivers, Types, Jobs, NEW r \in Int, PipeLoses(e, r)
  PROVE  /\ \A did, p :
              (\E m, n \in Ahead(e) \ {r} :
                 m < n /\ Covers(Pipe(e, m), did, p) /\ Signals(Pipe(e, n), e))
                => QueueDrops(e, did, p)'
         /\ \A x, did :
              (\E i, j, l, n \in Ahead(e) \ {r} :
                 /\ i < j /\ j < l /\ l < n
                 /\ DropsContext(Pipe(e, i), x) /\ Holds(Pipe(e, j))
                 /\ \A p \in PageAddrs : Covers(Pipe(e, l), did, p)
                 /\ Signals(Pipe(e, n), e))
                => QueueForgets(e, x, did)'
<1>0. PICK S : S = Ahead(e) \ {r}
  OBVIOUS
<1>1. S \subseteq Int /\ -1 \in {-1, 0, 1} /\ (-1 = -1 => r \notin S)
  BY <1>0 DEF Ahead, Types, IsSeq, Jobs, Job
<1>2. \A n \in S :
        Shifted(r, -1, n) \in Ahead(e)' /\ Pipe(e, Shifted(r, -1, n))' = Pipe(e, n)
  BY <1>0 DEF PipeLoses
<1>3. /\ \A did, p :
           (\E m, n \in S : m < n /\ Covers(Pipe(e, m), did, p) /\ Signals(Pipe(e, n), e))
             => QueueDrops(e, did, p)'
      /\ \A x, did :
           (\E i, j, l, n \in S :
              /\ i < j /\ j < l /\ l < n
              /\ DropsContext(Pipe(e, i), x) /\ Holds(Pipe(e, j))
              /\ \A p \in PageAddrs : Covers(Pipe(e, l), did, p)
              /\ Signals(Pipe(e, n), e))
             => QueueForgets(e, x, did)'
  BY <1>1, <1>2, PipeShift
<1> QED BY <1>0, <1>3

(* The first command, sent before or not for the queue, is struck off. *)
LEMMA AdvanceKeepsQueue ==
  ASSUME Types, Jobs, NEW d \in Drivers, Working(d), Advance(d), queue' = queue,
         Unsent(d, 1) = Nothing, NEW e \in Drivers
  PROVE  KeepsQueue(e)
<1>0. Stepped(d, Tail(job[d].todo), 0, job[d].ticket)
  BY AdvanceIs
<1>1. CASE e # d
  <2>1. job'[e] = job[e]
    BY <1>0, <1>1 DEF Stepped
  <2>2. \A i : Unsent(e, i)' = Unsent(e, i)
    BY <2>1 DEF Unsent
  <2> QED BY <2>1, <2>2, SameKeepsQueue
<1>2. KeepsQueue(d)
  <2>1. PICK L : L = Len(queue)
    OBVIOUS
  <2>2. /\ L \in Nat /\ Len(queue') = L /\ Len(job[d].todo) \in Nat /\ Len(job[d].todo) >= 1
        /\ job'[d].todo = Tail(job[d].todo) /\ job'[d].step = 0
        /\ Len(job'[d].todo) = Len(job[d].todo) - 1
    BY <1>0, <2>1, SeqTail DEF Stepped, Types, Jobs, Job, IsSeq, Working
  <2>3. \A i \in 1 .. (Len(job[d].todo) - 1) : job'[d].todo[i] = job[d].todo[i + 1]
    BY <2>2, SeqTail DEF Jobs, Job, Working
  <2>4. ASSUME NEW n \in Ahead(d) \ {L + 1}
        PROVE  Shifted(L + 1, -1, n) \in Ahead(d)' /\ Pipe(d, Shifted(L + 1, -1, n))' = Pipe(d, n)
    <3>1. n \in Int /\ 1 <= n /\ n <= L + Len(job[d].todo) /\ n # L + 1
      BY <2>1, <2>2 DEF Ahead
    <3>2. CASE n <= L
      <4>1. Shifted(L + 1, -1, n) = n
        BY <2>2, <3>1, <3>2 DEF Shifted
      <4>2. n \in Ahead(d)'
        BY <2>2, <3>1, <3>2 DEF Ahead
      <4>3. Pipe(d, n)' = Pipe(d, n)
        BY <2>1, <2>2, <3>1, <3>2 DEF Pipe
      <4> QED BY <4>1, <4>2, <4>3
    <3>3. CASE n > L + 1
      <4>1. Shifted(L + 1, -1, n) = n - 1
        BY <2>2, <3>1, <3>3 DEF Shifted
      <4>2. n - 1 \in Ahead(d)'
        BY <2>2, <3>1, <3>3 DEF Ahead
      <4>3. Pipe(d, n) = Unsent(d, n - L) /\ n - L > 1
        BY <2>1, <2>2, <3>1, <3>3 DEF Pipe
      <4>4. Pipe(d, n - 1)' = Unsent(d, n - L - 1)'
        <5>1. ~ (n - 1 <= Len(queue')) /\ (n - 1) - Len(queue') = n - L - 1
          BY <2>2, <3>1, <3>3
        <5> QED BY <5>1 DEF Pipe
      <4>5. job'[d].todo[n - L - 1] = job[d].todo[n - L]
        <5>1. n - L - 1 \in 1 .. (Len(job[d].todo) - 1) /\ (n - L - 1) + 1 = n - L
          BY <2>2, <3>1, <3>3
        <5> QED BY <2>3, <5>1
      <4>6. Unsent(d, n - L - 1)' = Unsent(d, n - L)
        BY <2>2, <3>1, <3>3, <4>3, <4>5 DEF Unsent
      <4> QED BY <4>1, <4>2, <4>3, <4>4, <4>6
    <3> QED BY <2>2, <3>1, <3>2, <3>3
  <2>5. PICK r : r = L + 1
    OBVIOUS
  <2>6. r \in Int /\ PipeLoses(d, r)
    BY <2>2, <2>4, <2>5 DEF PipeLoses
  <2>7. Pipe(d, r) = Nothing
    BY <2>1, <2>2, <2>5 DEF Pipe
  <2>8. ASSUME NEW did, NEW p, QueueDrops(d, did, p) PROVE QueueDrops(d, did, p)'
    <3>1. PICK m \in Ahead(d), n \in Ahead(d) :
            m < n /\ Covers(Pipe(d, m), did, p) /\ Signals(Pipe(d, n), d)
      BY <2>8 DEF QueueDrops
    <3>2. m # r /\ n # r
      BY <2>7, <3>1, NothingIsNothing
    <3> QED BY <2>6, <3>1, <3>2, PipeKeptBut
  <2>9. ASSUME NEW x, NEW did, QueueForgets(d, x, did) PROVE QueueForgets(d, x, did)'
    <3>1. PICK i \in Ahead(d), j \in Ahead(d), l \in Ahead(d), n \in Ahead(d) :
           /\ i < j /\ j < l /\ l < n
           /\ DropsContext(Pipe(d, i), x) /\ Holds(Pipe(d, j))
           /\ \A p \in PageAddrs : Covers(Pipe(d, l), did, p)
           /\ Signals(Pipe(d, n), d)
      BY <2>9 DEF QueueForgets
    <3>2. i # r /\ j # r /\ l # r /\ n # r
      BY <2>7, <3>1, NothingIsNothing, InvalidationAssumption
    <3> QED BY <2>6, <3>1, <3>2, PipeKeptBut
  <2> QED BY <2>8, <2>9 DEF KeepsQueue
<1> QED BY <1>1, <1>2

LEMMA CoversIs ==
  ASSUME NEW c, NEW did, NEW p, Covers(c, did, p)
  PROVE  c.op \in {"all", "domain", "pages"}
  BY DEF Covers

(* The IOMMU carries out command r: what is ahead loses it, a covering one *)
(* has taken its translations, and no other is waited for.                 *)
LEMMA ExecuteKeepsQueue ==
  ASSUME Types, Jobs, NEW r \in 1 .. Len(queue), Execute(r), NEW e \in Drivers
  PROVE  /\ \A did, p : QueueDrops(e, did, p) =>
              QueueDrops(e, did, p)' \/ Covers(queue[r], did, p)
         /\ \A x, did : QueueForgets(e, x, did) =>
              QueueForgets(e, x, did)' \/ DropsContext(queue[r], x)
<1>1. PICK L : L = Len(queue)
  OBVIOUS
<1>2. /\ L \in Nat /\ r \in 1 .. L /\ Len(queue') = L - 1
      /\ \A i \in 1 .. (L - 1) : queue'[i] = IF i < r THEN queue[i] ELSE queue[i + 1]
  BY <1>1, SeqWithout DEF Types, IsSeq, Execute, Without
<1>3. job' = job /\ Len(job[e].todo) \in Nat
  BY DEF Execute, driver, Jobs, Job, IsSeq
<1>4. \A i : Unsent(e, i)' = Unsent(e, i)
  BY <1>3 DEF Unsent
<1>5. Ahead(e)' = 1 .. (L - 1 + Len(job[e].todo)) /\ Ahead(e) = 1 .. (L + Len(job[e].todo))
  BY <1>1, <1>2, <1>3 DEF Ahead
<1>6. ASSUME NEW n \in Ahead(e) \ {r}
      PROVE  Shifted(r, -1, n) \in Ahead(e)' /\ Pipe(e, Shifted(r, -1, n))' = Pipe(e, n)
  <2>1. n \in Int /\ 1 <= n /\ n <= L + Len(job[e].todo) /\ n # r
    BY <1>2, <1>3, <1>5
  <2>2. CASE n < r
    <3>1. Shifted(r, -1, n) = n /\ n \in 1 .. (L - 1) /\ n <= L
      BY <1>2, <2>1, <2>2 DEF Shifted
    <3>2. n \in Ahead(e)'
      BY <1>2, <1>3, <1>5, <3>1
    <3>3. Pipe(e, n)' = queue'[n] /\ Pipe(e, n) = queue[n]
      BY <1>1, <1>2, <3>1 DEF Pipe
    <3> QED BY <1>2, <2>2, <3>1, <3>2, <3>3
  <2>3. CASE n > r /\ n <= L
    <3>1. /\ Shifted(r, -1, n) = n - 1 /\ n - 1 \in 1 .. (L - 1) /\ n - 1 <= L - 1
          /\ ~ (n - 1 < r) /\ (n - 1) + 1 = n
      <4>1. L \in Nat /\ r \in 1 .. L
        BY <1>2
      <4> QED BY <2>1, <2>3, <4>1 DEF Shifted
    <3>2. n - 1 \in Ahead(e)'
      BY <1>2, <1>3, <1>5, <3>1
    <3>3. Pipe(e, n - 1)' = queue'[n - 1] /\ Pipe(e, n) = queue[n]
      BY <1>1, <1>2, <2>3, <3>1 DEF Pipe
    <3>4. queue'[n - 1] = queue[n]
      BY <1>2, <3>1
    <3> QED BY <3>1, <3>2, <3>3, <3>4
  <2>4. CASE n > L
    <3>1. Shifted(r, -1, n) = n - 1
      BY <1>2, <2>1, <2>4 DEF Shifted
    <3>2. n - 1 \in Ahead(e)'
      BY <1>2, <1>3, <1>5, <2>1, <2>4
    <3>3. Pipe(e, n) = Unsent(e, n - L)
      BY <1>1, <1>2, <2>1, <2>4 DEF Pipe
    <3>4. Pipe(e, n - 1)' = Unsent(e, n - L)'
      <4>1. ~ (n - 1 <= Len(queue')) /\ (n - 1) - Len(queue') = n - L
        BY <1>2, <2>1, <2>4
      <4> QED BY <4>1 DEF Pipe
    <3> QED BY <1>4, <3>1, <3>2, <3>3, <3>4
  <2> QED BY <1>2, <2>1, <2>2, <2>3, <2>4
<1>7. PipeLoses(e, r) /\ r \in Int
  BY <1>2, <1>6 DEF PipeLoses
<1>8. \A m \in 1 .. (r - 1) :
        /\ queue[r].op = "wait" => queue[m].op = "wait"
        /\ ~ Holds(queue[m])
  BY DEF Execute, Ready
<1>9. \A m \in Ahead(e) : m < r => Pipe(e, m) = queue[m] /\ m \in 1 .. (r - 1)
  BY <1>1, <1>2, <1>3, <1>5 DEF Pipe
<1>10. Pipe(e, r) = queue[r]
  BY <1>1, <1>2 DEF Pipe
<1>11. ASSUME NEW did, NEW p, QueueDrops(e, did, p), ~ Covers(queue[r], did, p)
       PROVE  QueueDrops(e, did, p)'
  <2>1. PICK m \in Ahead(e), n \in Ahead(e) :
          m < n /\ Covers(Pipe(e, m), did, p) /\ Signals(Pipe(e, n), e)
    BY <1>11 DEF QueueDrops
  <2>2. m # r
    BY <1>10, <1>11, <2>1
  <2>3. n # r
    <3>1. SUFFICES ASSUME n = r PROVE FALSE
      OBVIOUS
    <3>2. queue[r].op = "wait"
      BY <1>10, <2>1, <3>1 DEF Signals, Completes
    <3>3. Pipe(e, m).op = "wait"
      BY <1>8, <1>9, <2>1, <3>1, <3>2
    <3> QED BY <2>1, <3>3, CoversIs
  <2> QED BY <1>7, <2>1, <2>2, <2>3, PipeKeptBut
<1>12. ASSUME NEW x, NEW did, QueueForgets(e, x, did), ~ DropsContext(queue[r], x)
       PROVE  QueueForgets(e, x, did)'
  <2>1. PICK i \in Ahead(e), j \in Ahead(e), l \in Ahead(e), n \in Ahead(e) :
         /\ i < j /\ j < l /\ l < n
         /\ DropsContext(Pipe(e, i), x) /\ Holds(Pipe(e, j))
         /\ \A p \in PageAddrs : Covers(Pipe(e, l), did, p)
         /\ Signals(Pipe(e, n), e)
    BY <1>12 DEF QueueForgets
  <2>2. i # r
    BY <1>10, <1>12, <2>1
  <2>3. j # r
    <3>1. SUFFICES ASSUME j = r PROVE FALSE
      OBVIOUS
    <3>2. queue[r].op = "wait"
      BY <1>10, <2>1, <3>1 DEF Holds
    <3>3. Pipe(e, i).op = "wait"
      BY <1>8, <1>9, <2>1, <3>1, <3>2
    <3> QED BY <2>1, <3>3 DEF DropsContext
  <2>4. l # r
    BY <1>8, <1>9, <2>1
  <2>5. n # r
    <3>1. SUFFICES ASSUME n = r PROVE FALSE
      OBVIOUS
    <3>2. queue[r].op = "wait"
      BY <1>10, <2>1, <3>1 DEF Signals, Completes
    <3>3. Pipe(e, l).op = "wait"
      BY <1>8, <1>9, <2>1, <3>1, <3>2
    <3>4. PICK p \in PageAddrs : TRUE
      BY InvalidationAssumption
    <3> QED BY <2>1, <3>3, <3>4, CoversIs
  <2> QED BY <1>7, <2>1, <2>2, <2>3, <2>4, <2>5, PipeKeptBut
<1> QED BY <1>11, <1>12

---------------------------------------------------------------------------
(* What is ahead in the registers, step by step. *)
KeepsRegisters(e) ==
  /\ \A did, p : RegistersDrop(e, did, p) => RegistersDrop(e, did, p)'
  /\ \A x, did : RegistersForget(e, x, did) => RegistersForget(e, x, did)'
  /\ \A f, did, p : WillFlush(e, f, did, p) => WillFlush(e, f, did, p)'
RegistersSame ==
  /\ \A did, p : InIotlb(did, p) => InIotlb(did, p)'
  /\ \A x : InCcmd(x) => InCcmd(x)'
  /\ InGsts => InGsts'
LEMMA RegistersUnchanged ==
  ASSUME hw' = hw, regs' = regs
  PROVE  RegistersSame
<1>1. \A did, p : InIotlb(did, p) => InIotlb(did, p)'
  BY DEF InIotlb
<1>2. \A x : InCcmd(x) => InCcmd(x)'
  BY DEF InCcmd
<1>3. InGsts => InGsts'
  BY DEF InGsts
<1> QED BY <1>1, <1>2, <1>3 DEF RegistersSame
LEMMA RegisterCommand ==
  ASSUME NEW c
  PROVE  /\ \A h, did, p : DropsByRegister(h, c, did, p) =>
              c.via = "registers" /\ 0 < Len(c.writes) /\ Len(c.writes) \in {1, 2}
         /\ \A x : ForgetsByRegister(c, x) => c.via = "registers" /\ 0 < Len(c.writes)
         /\ Flushes(c) => c.via = "registers" /\ 0 < Len(c.writes)
<1>1. ASSUME NEW h, NEW did, NEW p, DropsByRegister(h, c, did, p)
      PROVE  c.via = "registers" /\ 0 < Len(c.writes) /\ Len(c.writes) \in {1, 2}
  <2>1. c.via = "registers" /\ Len(c.writes) \in {1, 2}
    BY <1>1 DEF DropsByRegister
  <2> QED BY <2>1
<1>2. ASSUME NEW x, ForgetsByRegister(c, x)
      PROVE  c.via = "registers" /\ 0 < Len(c.writes)
  <2>1. c.via = "registers" /\ Len(c.writes) = 1
    BY <1>2 DEF ForgetsByRegister
  <2> QED BY <2>1
<1>3. Flushes(c) => c.via = "registers" /\ Len(c.writes) = 1
  BY DEF Flushes
<1> QED BY <1>1, <1>2, <1>3
(* A thread that does not move, or moves at a command for the queue. *)
LEMMA SameKeepsRegisters ==
  ASSUME NEW e \in Drivers, hw' = hw, RegistersSame,
         job'[e].todo = job[e].todo,
         \/ job'[e].step = job[e].step
         \/ job[e].todo[1].via = "queue"
  PROVE  KeepsRegisters(e)
<1>1. ASSUME NEW i \in 1 .. Len(job[e].todo), job[e].todo[i].via = "registers", Unissued(e, i)
      PROVE  Unissued(e, i)'
  BY <1>1 DEF Unissued
<1>2. ASSUME NEW did, NEW p, RegistersDrop(e, did, p) PROVE RegistersDrop(e, did, p)'
  <2>1. PICK i \in 1 .. Len(job[e].todo) :
          /\ DropsByRegister(hw, job[e].todo[i], did, p)
          /\ Unissued(e, i) \/ InIotlb(did, p)
    BY <1>2 DEF RegistersDrop
  <2>2. job[e].todo[i].via = "registers"
    BY <2>1 DEF DropsByRegister
  <2>3. Unissued(e, i)' \/ InIotlb(did, p)'
    BY <1>1, <2>1, <2>2 DEF RegistersSame
  <2> QED BY <2>1, <2>3 DEF RegistersDrop
<1>3. ASSUME NEW x, NEW did, RegistersForget(e, x, did) PROVE RegistersForget(e, x, did)'
  <2>1. PICK i \in 1 .. Len(job[e].todo), k \in 1 .. Len(job[e].todo) :
          /\ i < k
          /\ ForgetsByRegister(job[e].todo[i], x)
          /\ \A p \in PageAddrs : DropsByRegister(hw, job[e].todo[k], did, p)
          /\ Unissued(e, i) \/ InCcmd(x)
    BY <1>3 DEF RegistersForget
  <2>2. job[e].todo[i].via = "registers"
    BY <2>1 DEF ForgetsByRegister
  <2>3. Unissued(e, i)' \/ InCcmd(x)'
    BY <1>1, <2>1, <2>2 DEF RegistersSame
  <2> QED BY <2>1, <2>3 DEF RegistersForget
<1>4. ASSUME NEW f, NEW did, NEW p, WillFlush(e, f, did, p) PROVE WillFlush(e, f, did, p)'
  <2>1. PICK i \in 1 .. Len(job[e].todo) :
          /\ Flushes(job[e].todo[i])
          /\ Unissued(e, i) \/ InGsts
          /\ Usable(f) => DropsAfter(e, i, did, p)
    BY <1>4 DEF WillFlush
  <2>2. job[e].todo[i].via = "registers"
    BY <2>1 DEF Flushes
  <2>3. Unissued(e, i)' \/ InGsts'
    BY <1>1, <2>1, <2>2 DEF RegistersSame
  <2>4. Usable(f)' = Usable(f) /\ (DropsAfter(e, i, did, p) => DropsAfter(e, i, did, p)')
    BY DEF Usable, DropsAfter, TodoDrops
  <2> QED BY <2>1, <2>3, <2>4 DEF WillFlush
<1> QED BY <1>2, <1>3, <1>4 DEF KeepsRegisters
(* The first command is over. *)
LEMMA AdvanceKeepsRegisters ==
  ASSUME Jobs, NEW d \in Drivers, Working(d), Advance(d), hw' = hw, regs' = regs,
         DOMAIN regs = {GSTS, CCMD, hw.iva, IOTLB(hw)},
         Command(d).via # "queue" =>
           /\ job[d].step = Len(Command(d).writes)
           /\ Command(d).busy.bit \notin ReadRegister(Command(d).busy.at)
  PROVE  KeepsRegisters(d)
<1>1. PICK T : T = Len(job[d].todo)
  OBVIOUS
<1>2. T \in Nat /\ T >= 1 /\ Command(d) = job[d].todo[1]
  BY <1>1, SeqTail DEF Jobs, Job, IsSeq, Working, Command
<1>3. Stepped(d, Tail(job[d].todo), 0, job[d].ticket)
  BY AdvanceIs
<1>4. job'[d].todo = Tail(job[d].todo) /\ job'[d].step = 0
  BY <1>3 DEF Stepped
<1>5. /\ Len(job'[d].todo) = T - 1
      /\ \A i \in 1 .. (T - 1) : job'[d].todo[i] = job[d].todo[i + 1]
  BY <1>1, <1>4, SeqTail DEF Jobs, Job, Working
<1>6. ASSUME NEW i \in 1 .. T, i # 1
      PROVE  /\ i - 1 \in 1 .. Len(job'[d].todo) /\ job'[d].todo[i - 1] = job[d].todo[i]
             /\ i \in Int
  <2>1. i \in Int /\ i - 1 \in 1 .. (T - 1) /\ (i - 1) + 1 = i
    BY <1>2, <1>6
  <2> QED BY <1>5, <2>1
<1>7. ASSUME NEW j, 0 < Len(job'[d].todo[j].writes)
      PROVE  Unissued(d, j)'
  BY <1>4, <1>7 DEF Unissued
<1>8. RegistersSame
  BY RegistersUnchanged
<1>9. ASSUME NEW did, NEW p, RegistersDrop(d, did, p) PROVE RegistersDrop(d, did, p)'
  <2>1. PICK i \in 1 .. T :
          /\ DropsByRegister(hw, job[d].todo[i], did, p)
          /\ Unissued(d, i) \/ InIotlb(did, p)
    BY <1>1, <1>9 DEF RegistersDrop
  <2>2. i # 1
    <3>1. SUFFICES ASSUME i = 1 PROVE FALSE
      OBVIOUS
    <3>2. /\ Command(d).via = "registers"
          /\ Command(d).busy = [at |-> IOTLB(hw), bit |-> Start]
      BY <1>2, <2>1, <3>1 DEF DropsByRegister
    <3>3. job[d].step = Len(job[d].todo[1].writes) /\ job[d].step \in Nat
      BY <1>2, <3>2 DEF Jobs, Job
    <3>4. InIotlb(did, p)
      BY <2>1, <3>1, <3>3 DEF Unissued
    <3> QED BY <3>2, <3>4 DEF InIotlb, ReadRegister
  <2>3. i - 1 \in 1 .. Len(job'[d].todo) /\ job'[d].todo[i - 1] = job[d].todo[i]
    BY <1>6, <2>2
  <2>4. DropsByRegister(hw', job'[d].todo[i - 1], did, p)
    BY <2>1, <2>3
  <2>5. 0 < Len(job'[d].todo[i - 1].writes)
    BY <2>4, RegisterCommand
  <2>6. Unissued(d, i - 1)'
    BY <1>7, <2>5
  <2> QED BY <2>3, <2>4, <2>6 DEF RegistersDrop
<1>10. ASSUME NEW x, NEW did, RegistersForget(d, x, did) PROVE RegistersForget(d, x, did)'
  <2>1. PICK i \in 1 .. T, k \in 1 .. T :
          /\ i < k
          /\ ForgetsByRegister(job[d].todo[i], x)
          /\ \A p \in PageAddrs : DropsByRegister(hw, job[d].todo[k], did, p)
          /\ Unissued(d, i) \/ InCcmd(x)
    BY <1>1, <1>10 DEF RegistersForget
  <2>2. i # 1
    <3>1. SUFFICES ASSUME i = 1 PROVE FALSE
      OBVIOUS
    <3>2. /\ Command(d).via = "registers"
          /\ Command(d).busy = [at |-> CCMD, bit |-> Start]
      BY <1>2, <2>1, <3>1 DEF ForgetsByRegister
    <3>3. job[d].step = Len(job[d].todo[1].writes) /\ job[d].step \in Nat
      BY <1>2, <3>2 DEF Jobs, Job
    <3>4. InCcmd(x)
      BY <2>1, <3>1, <3>3 DEF Unissued
    <3> QED BY <3>2, <3>4 DEF InCcmd, ReadRegister
  <2>3. k # 1 /\ i - 1 < k - 1
    BY <1>2, <2>1, <2>2
  <2>4. /\ i - 1 \in 1 .. Len(job'[d].todo) /\ job'[d].todo[i - 1] = job[d].todo[i]
        /\ k - 1 \in 1 .. Len(job'[d].todo) /\ job'[d].todo[k - 1] = job[d].todo[k]
    BY <1>6, <2>2, <2>3
  <2>5. /\ ForgetsByRegister(job'[d].todo[i - 1], x)
        /\ \A p \in PageAddrs : DropsByRegister(hw', job'[d].todo[k - 1], did, p)
    BY <2>1, <2>4
  <2>6. 0 < Len(job'[d].todo[i - 1].writes)
    BY <2>5, RegisterCommand
  <2>7. Unissued(d, i - 1)'
    BY <1>7, <2>6
  <2> QED BY <2>3, <2>4, <2>5, <2>7 DEF RegistersForget
<1>11. ASSUME NEW i \in 1 .. T, i # 1, NEW did, NEW p, DropsAfter(d, i, did, p)
       PROVE  DropsAfter(d, i - 1, did, p)'
  <2>1. CASE \E m, n \in 1 .. T :
               /\ i < m /\ m < n
               /\ job[d].todo[m].via = "queue" /\ Covers(job[d].todo[m].scope, did, p)
               /\ job[d].todo[n].via = "queue" /\ Signals(job[d].todo[n].scope, d)
    <3>1. PICK m \in 1 .. T, n \in 1 .. T :
               /\ i < m /\ m < n
               /\ job[d].todo[m].via = "queue" /\ Covers(job[d].todo[m].scope, did, p)
               /\ job[d].todo[n].via = "queue" /\ Signals(job[d].todo[n].scope, d)
      BY <2>1
    <3>2. m # 1 /\ n # 1 /\ i - 1 < m - 1 /\ m - 1 < n - 1
      BY <1>2, <1>11, <3>1
    <3>3. /\ m - 1 \in 1 .. Len(job'[d].todo) /\ job'[d].todo[m - 1] = job[d].todo[m]
          /\ n - 1 \in 1 .. Len(job'[d].todo) /\ job'[d].todo[n - 1] = job[d].todo[n]
      BY <1>6, <3>2
    <3> QED BY <3>1, <3>2, <3>3 DEF DropsAfter, TodoDrops
  <2>2. CASE \E k \in 1 .. T : i < k /\ DropsByRegister(hw, job[d].todo[k], did, p)
    <3>1. PICK k \in 1 .. T : i < k /\ DropsByRegister(hw, job[d].todo[k], did, p)
      BY <2>2
    <3>2. k # 1 /\ i - 1 < k - 1
      BY <1>2, <1>11, <3>1
    <3>3. k - 1 \in 1 .. Len(job'[d].todo) /\ job'[d].todo[k - 1] = job[d].todo[k]
      BY <1>6, <3>2
    <3>4. DropsByRegister(hw', job'[d].todo[k - 1], did, p)
      BY <3>1, <3>3
    <3> QED BY <3>2, <3>3, <3>4 DEF DropsAfter, TodoDrops
  <2> QED BY <1>1, <1>11, <2>1, <2>2 DEF DropsAfter, TodoDrops
<1>12. ASSUME NEW f, NEW did, NEW p, WillFlush(d, f, did, p) PROVE WillFlush(d, f, did, p)'
  <2>1. PICK i \in 1 .. T :
          /\ Flushes(job[d].todo[i])
          /\ Unissued(d, i) \/ InGsts
          /\ Usable(f) => DropsAfter(d, i, did, p)
    BY <1>1, <1>12 DEF WillFlush
  <2>2. i # 1
    <3>1. SUFFICES ASSUME i = 1 PROVE FALSE
      OBVIOUS
    <3>2. /\ Command(d).via = "registers"
          /\ Command(d).busy = [at |-> GSTS, bit |-> Gsts.WBFS]
      BY <1>2, <2>1, <3>1 DEF Flushes
    <3>3. job[d].step = Len(job[d].todo[1].writes) /\ job[d].step \in Nat
      BY <1>2, <3>2 DEF Jobs, Job
    <3>4. InGsts
      BY <2>1, <3>1, <3>3 DEF Unissued
    <3> QED BY <3>2, <3>4 DEF InGsts, ReadRegister
  <2>3. i - 1 \in 1 .. Len(job'[d].todo) /\ job'[d].todo[i - 1] = job[d].todo[i]
    BY <1>6, <2>2
  <2>4. Flushes(job'[d].todo[i - 1])
    BY <2>1, <2>3
  <2>5. 0 < Len(job'[d].todo[i - 1].writes)
    BY <2>4, RegisterCommand
  <2>6. Unissued(d, i - 1)'
    BY <1>7, <2>5
  <2>7. Usable(f)' => DropsAfter(d, i - 1, did, p)'
    BY <1>11, <2>1, <2>2 DEF Usable
  <2> QED BY <2>3, <2>4, <2>6, <2>7 DEF WillFlush
<1> QED BY <1>9, <1>10, <1>12 DEF KeepsRegisters
(* A whole domain is invalidated whatever IVA holds. *)
LEMMA IvaIgnored ==
  ASSUME NEW h, NEW w, IotlbScope(h, {}, w).op \in {"all", "domain"}, NEW iva
  PROVE  IotlbScope(h, iva, w) = IotlbScope(h, {}, w)
<1>1. ASSUME NEW g, NEW did, NEW a, NEW n, NEW b, NEW m,
             TranslationScope(h, g, did, a, n).op \in {"all", "domain"}
      PROVE  TranslationScope(h, g, did, b, m) = TranslationScope(h, g, did, a, n)
  <2>1. Pages(did, a, n).op = "pages" /\ Nothing.op = "nothing"
    BY DEF Pages, Nothing
  <2>2. g = Global \/ g = DomainWide
    BY <1>1, <2>1 DEF TranslationScope
  <2> QED BY <2>2 DEF TranslationScope
<1> QED BY <1>1 DEF IotlbScope
(* The next store of a register command. *)
LEMMA WriteKeepsRegisters ==
  ASSUME Types, Jobs, Locked, Fits(hw), NEW d \in Drivers, WriteRegister(d), NEW e \in Drivers
  PROVE  KeepsRegisters(e)
<1>1. /\ hw' = hw /\ lock \in {None, d} /\ Working(d) /\ Command(d).via = "registers"
      /\ job[d].step < Len(Command(d).writes)
      /\ regs' = Stored(Command(d).writes[job[d].step + 1])
  BY DEF WriteRegister
<1>2. Stepped(d, job[d].todo, job[d].step + 1, job[d].ticket)
  BY WriteIs
<1>3. /\ Command(d) = job[d].todo[1] /\ Len(job[d].todo) \in Nat /\ Len(job[d].todo) >= 1
      /\ job[d].step \in Nat
  BY <1>1, SeqTail DEF Jobs, Job, IsSeq, Working, Command
<1>4. DOMAIN regs = {GSTS, CCMD, hw.iva, IOTLB(hw)}
  BY DEF Types
<1>5. GSTS \notin {CCMD, hw.iva, IOTLB(hw)} /\ CCMD \notin {hw.iva, IOTLB(hw)} /\ hw.iva # IOTLB(hw)
  BY DEF Fits
<1>6. CASE e # d
  <2>1. job'[e] = job[e]
    BY <1>2, <1>6 DEF Stepped
  (* The registers hold nothing for e: d has the lock. *)
  <2>2. ASSUME NEW i \in 1 .. Len(job[e].todo),
               job[e].todo[i].via = "registers", 0 < Len(job[e].todo[i].writes)
        PROVE  Unissued(e, i)
    <3>1. SUFFICES ASSUME ~ Unissued(e, i) PROVE FALSE
      OBVIOUS
    <3>2. IsSeq(job[e].todo) /\ job[e].step \in Nat
      BY DEF Jobs, Job
    <3>3. i = 1 /\ ~ (job[e].step < Len(job[e].todo[1].writes))
      BY <3>1, <3>2 DEF Unissued, IsSeq
    <3>4. job[e].step > 0
      BY <2>2, <3>2, <3>3
    <3>5. job[e].todo # << >>
      BY <2>2, <3>2, SeqEmpty
    <3>6. Command(e) = job[e].todo[1]
      BY <3>2, <3>5, SeqTail DEF Command
    <3>7. lock = e
      BY <2>2, <3>3, <3>4, <3>5, <3>6 DEF Locked, LockedFor, Working
    <3> QED BY <1>1, <1>6, <3>7, InvalidationAssumption
  <2>3. \A i : Unissued(e, i)' = Unissued(e, i)
    BY <2>1 DEF Unissued
  <2>4. ASSUME NEW did, NEW p, RegistersDrop(e, did, p) PROVE RegistersDrop(e, did, p)'
    <3>1. PICK i \in 1 .. Len(job[e].todo) : DropsByRegister(hw, job[e].todo[i], did, p)
      BY <2>4 DEF RegistersDrop
    <3>2. Unissued(e, i)'
      BY <2>2, <2>3, <3>1, RegisterCommand
    <3> QED BY <1>1, <2>1, <3>1, <3>2 DEF RegistersDrop
  <2>5. ASSUME NEW x, NEW did, RegistersForget(e, x, did) PROVE RegistersForget(e, x, did)'
    <3>1. PICK i \in 1 .. Len(job[e].todo), k \in 1 .. Len(job[e].todo) :
            /\ i < k /\ ForgetsByRegister(job[e].todo[i], x)
            /\ \A p \in PageAddrs : DropsByRegister(hw, job[e].todo[k], did, p)
      BY <2>5 DEF RegistersForget
    <3>2. Unissued(e, i)'
      BY <2>2, <2>3, <3>1, RegisterCommand
    <3> QED BY <1>1, <2>1, <3>1, <3>2 DEF RegistersForget
  <2>6. ASSUME NEW f, NEW did, NEW p, WillFlush(e, f, did, p) PROVE WillFlush(e, f, did, p)'
    <3>1. PICK i \in 1 .. Len(job[e].todo) :
            Flushes(job[e].todo[i]) /\ (Usable(f) => DropsAfter(e, i, did, p))
      BY <2>6 DEF WillFlush
    <3>2. Unissued(e, i)'
      BY <2>2, <2>3, <3>1, RegisterCommand
    <3>3. Usable(f)' => DropsAfter(e, i, did, p)'
      BY <1>1, <2>1, <3>1 DEF Usable, DropsAfter, TodoDrops
    <3> QED BY <2>1, <3>1, <3>2, <3>3 DEF WillFlush
  <2> QED BY <2>4, <2>5, <2>6 DEF KeepsRegisters
<1>7. ASSUME e = d PROVE KeepsRegisters(d)
  <2>1. job'[d].todo = job[d].todo /\ job'[d].step = job[d].step + 1
    BY <1>2 DEF Stepped
  <2>2. \A i : i > 1 => Unissued(d, i)'
    BY DEF Unissued
  <2>3. ASSUME NEW i \in 1 .. Len(job[d].todo), ~ Unissued(d, i)'
        PROVE  i = 1 /\ job[d].step + 1 = Len(Command(d).writes)
    <3>1. i = 1 /\ ~ (job[d].step + 1 < Len(Command(d).writes))
      BY <1>3, <2>1, <2>3 DEF Unissued
    <3> QED BY <1>1, <1>3, <3>1
  <2>4. ASSUME NEW did, NEW p, RegistersDrop(d, did, p) PROVE RegistersDrop(d, did, p)'
    <3>1. PICK i \in 1 .. Len(job[d].todo) : DropsByRegister(hw, job[d].todo[i], did, p)
      BY <2>4 DEF RegistersDrop
    <3>2. Unissued(d, i)' \/ InIotlb(did, p)'
      <4>1. SUFFICES ASSUME ~ Unissued(d, i)' PROVE InIotlb(did, p)'
        OBVIOUS
      <4>2. i = 1 /\ job[d].step + 1 = Len(Command(d).writes)
        BY <2>3, <4>1
      <4>3. DropsByRegister(hw, Command(d), did, p)
        BY <1>3, <3>1, <4>2
      <4>4. PICK w : w = Command(d).writes[Len(Command(d).writes)]
        OBVIOUS
      <4>5. w.at = IOTLB(hw) /\ Start \in w.word
        BY <4>3, <4>4 DEF DropsByRegister
      <4>6. regs' = Stored(w)
        BY <1>1, <4>2, <4>4
      <4>7. regs'[IOTLB(hw)] = w.word /\ regs'[hw.iva] = regs[hw.iva]
        BY <1>4, <1>5, <4>5, <4>6 DEF Stored
      <4>8. Covers(IotlbScope(hw, regs[hw.iva], w.word), did, p)
        <5>1. CASE Len(Command(d).writes) = 1
          <6>1. /\ IotlbScope(hw, {}, w.word).op \in {"all", "domain"}
                /\ Covers(IotlbScope(hw, {}, w.word), did, p)
            BY <4>3, <4>4, <5>1 DEF DropsByRegister
          <6>2. IotlbScope(hw, regs[hw.iva], w.word) = IotlbScope(hw, {}, w.word)
            BY <6>1, IvaIgnored
          <6> QED BY <6>1, <6>2
        <5>2. CASE Len(Command(d).writes) = 2
          <6>1. /\ Command(d).writes[1].at = hw.iva
                /\ Covers(IotlbScope(hw, Command(d).writes[1].word, w.word), did, p)
            BY <4>3, <4>4, <5>2 DEF DropsByRegister
          <6>2. job[d].step = 1
            BY <1>3, <4>2, <5>2
          <6>3. regs[hw.iva] = Command(d).writes[1].word
            BY <1>1, <5>2, <6>1, <6>2 DEF Locked, LockedFor
          <6> QED BY <6>1, <6>3
        <5> QED BY <4>3, <5>1, <5>2, RegisterCommand
      <4> QED BY <1>1, <4>5, <4>7, <4>8 DEF InIotlb
    <3> QED BY <1>1, <2>1, <3>1, <3>2 DEF RegistersDrop
  <2>5. ASSUME NEW x, NEW did, RegistersForget(d, x, did) PROVE RegistersForget(d, x, did)'
    <3>1. PICK i \in 1 .. Len(job[d].todo), k \in 1 .. Len(job[d].todo) :
            /\ i < k /\ ForgetsByRegister(job[d].todo[i], x)
            /\ \A p \in PageAddrs : DropsByRegister(hw, job[d].todo[k], did, p)
      BY <2>5 DEF RegistersForget
    <3>2. Unissued(d, i)' \/ InCcmd(x)'
      <4>1. SUFFICES ASSUME ~ Unissued(d, i)' PROVE InCcmd(x)'
        OBVIOUS
      <4>2. i = 1 /\ job[d].step + 1 = Len(Command(d).writes)
        BY <2>3, <4>1
      <4>3. ForgetsByRegister(Command(d), x)
        BY <1>3, <3>1, <4>2
      <4>4. PICK w : w = Command(d).writes[1]
        OBVIOUS
      <4>5. /\ Len(Command(d).writes) = 1 /\ w.at = CCMD /\ Start \in w.word
            /\ DropsContext(CcmdScope(w.word), x)
        BY <4>3, <4>4 DEF ForgetsByRegister
      <4>6. regs' = Stored(w)
        BY <1>1, <4>2, <4>4, <4>5
      <4>7. regs'[CCMD] = w.word
        BY <1>4, <1>5, <4>5, <4>6 DEF Stored
      <4> QED BY <4>5, <4>7 DEF InCcmd
    <3> QED BY <1>1, <2>1, <3>1, <3>2 DEF RegistersForget
  <2>6. ASSUME NEW f, NEW did, NEW p, WillFlush(d, f, did, p) PROVE WillFlush(d, f, did, p)'
    <3>1. PICK i \in 1 .. Len(job[d].todo) :
            Flushes(job[d].todo[i]) /\ (Usable(f) => DropsAfter(d, i, did, p))
      BY <2>6 DEF WillFlush
    <3>2. Unissued(d, i)' \/ InGsts'
      <4>1. SUFFICES ASSUME ~ Unissued(d, i)' PROVE InGsts'
        OBVIOUS
      <4>2. i = 1 /\ job[d].step + 1 = Len(Command(d).writes)
        BY <2>3, <4>1
      <4>3. Flushes(Command(d))
        BY <1>3, <3>1, <4>2
      <4>4. PICK w : w = Command(d).writes[1]
        OBVIOUS
      <4>5. Len(Command(d).writes) = 1 /\ w.at = GCMD /\ Gsts.WBFS \in w.word
        BY <4>3, <4>4 DEF Flushes
      <4>6. regs' = Stored(w)
        BY <1>1, <4>2, <4>4, <4>5
      <4>7. regs'[GSTS] = regs[GSTS] \cup w.word
        BY <1>4, <4>5, <4>6 DEF Stored
      <4> QED BY <4>5, <4>7 DEF InGsts
    <3>3. Usable(f)' => DropsAfter(d, i, did, p)'
      BY <1>1, <2>1, <3>1 DEF Usable, DropsAfter, TodoDrops
    <3> QED BY <2>1, <3>1, <3>2, <3>3 DEF WillFlush
  <2> QED BY <2>4, <2>5, <2>6 DEF KeepsRegisters
<1> QED BY <1>6, <1>7
(* The IOMMU does what a register asks for; the others are not affected. *)
LEMMA IommuKeepsRegisters ==
  ASSUME NEW e \in Drivers, hw' = hw, job' = job
  PROVE  /\ \A did, p : RegistersDrop(e, did, p) =>
              RegistersDrop(e, did, p)' \/ (InIotlb(did, p) /\ ~ InIotlb(did, p)')
         /\ \A x, did : RegistersForget(e, x, did) =>
              RegistersForget(e, x, did)' \/ (InCcmd(x) /\ ~ InCcmd(x)')
         /\ \A f, did, p : WillFlush(e, f, did, p) =>
              WillFlush(e, f, did, p)' \/ (InGsts /\ ~ InGsts')
<1>1. \A i : Unissued(e, i)' = Unissued(e, i)
  BY DEF Unissued
<1>2. ASSUME NEW did, NEW p, RegistersDrop(e, did, p), InIotlb(did, p) => InIotlb(did, p)'
      PROVE  RegistersDrop(e, did, p)'
  BY <1>1, <1>2 DEF RegistersDrop
<1>3. ASSUME NEW x, NEW did, RegistersForget(e, x, did), InCcmd(x) => InCcmd(x)'
      PROVE  RegistersForget(e, x, did)'
  BY <1>1, <1>3 DEF RegistersForget
<1>4. ASSUME NEW f, NEW did, NEW p, WillFlush(e, f, did, p), InGsts => InGsts'
      PROVE  WillFlush(e, f, did, p)'
  <2>1. Usable(f)' = Usable(f)
    BY DEF Usable
  <2>2. \A i : DropsAfter(e, i, did, p) => DropsAfter(e, i, did, p)'
    BY DEF DropsAfter, TodoDrops
  <2> QED BY <1>1, <1>4, <2>1, <2>2 DEF WillFlush
<1> QED BY <1>2, <1>3, <1>4
RegistersApart ==
  GSTS \notin {CCMD, hw.iva, IOTLB(hw)} /\ CCMD \notin {hw.iva, IOTLB(hw)} /\ hw.iva # IOTLB(hw)
LEMMA FlushKeepsOthers ==
  ASSUME Types, Fits(hw), DoFlush
  PROVE  (\A did, p : InIotlb(did, p) => InIotlb(did, p)') /\ (\A x : InCcmd(x) => InCcmd(x)')
<1>1. RegistersApart /\ DOMAIN regs = {GSTS, CCMD, hw.iva, IOTLB(hw)}
  BY DEF Types, Fits, RegistersApart
<1>2. hw' = hw /\ regs'[CCMD] = regs[CCMD] /\ regs'[hw.iva] = regs[hw.iva]
      /\ regs'[IOTLB(hw)] = regs[IOTLB(hw)]
  BY <1>1 DEF DoFlush, RegistersApart
<1>3. \A did, p : InIotlb(did, p) => InIotlb(did, p)'
  BY <1>2 DEF InIotlb
<1> QED BY <1>2, <1>3 DEF InCcmd
LEMMA CcmdKeepsOthers ==
  ASSUME Types, Fits(hw), DoCcmd
  PROVE  (\A did, p : InIotlb(did, p) => InIotlb(did, p)') /\ (InGsts => InGsts')
<1>1. RegistersApart /\ DOMAIN regs = {GSTS, CCMD, hw.iva, IOTLB(hw)}
  BY DEF Types, Fits, RegistersApart
<1>2. hw' = hw /\ regs'[GSTS] = regs[GSTS] /\ regs'[hw.iva] = regs[hw.iva]
      /\ regs'[IOTLB(hw)] = regs[IOTLB(hw)]
  BY <1>1 DEF DoCcmd, DoRegister, RegistersApart
<1>3. \A did, p : InIotlb(did, p) => InIotlb(did, p)'
  BY <1>2 DEF InIotlb
<1> QED BY <1>2, <1>3 DEF InGsts
LEMMA IotlbKeepsOthers ==
  ASSUME Types, Fits(hw), DoIotlb
  PROVE  (\A x : InCcmd(x) => InCcmd(x)') /\ (InGsts => InGsts')
<1>1. RegistersApart /\ DOMAIN regs = {GSTS, CCMD, hw.iva, IOTLB(hw)}
  BY DEF Types, Fits, RegistersApart
<1>2. regs'[GSTS] = regs[GSTS] /\ regs'[CCMD] = regs[CCMD]
  BY <1>1 DEF DoIotlb, DoRegister, RegistersApart
<1> QED BY <1>2 DEF InCcmd, InGsts
(* What an invalidation leaves. *)
LEMMA InvalidateDrops ==
  ASSUME Types, NEW c, Invalidate(c)
  PROVE  /\ \A t \in Translations' : t \in Translations /\ ~ Covers(c, t.did, t.page)
         /\ tlb' \subseteq tlb
         /\ \A t \in contexts' : t \in contexts /\ ~ DropsContext(c, t[1])
<1>1. tlb' = {t \in tlb : ~ Covers(c, t.did, t.page)}
  BY DEF Invalidate
<1>2. contexts' = {t \in contexts : ~ DropsContext(c, t[1])}
  BY DEF Invalidate
<1>3. ASSUME NEW x \in Sids, walk'[x] # None
      PROVE  walk'[x] = walk[x] /\ ~ Covers(c, walk[x].did, walk[x].page)
  BY <1>3 DEF Invalidate
<1>4. ASSUME NEW t \in Translations'
      PROVE  t \in Translations /\ ~ Covers(c, t.did, t.page)
  <2>1. CASE t \in tlb'
    BY <1>1, <2>1 DEF Translations
  <2>2. CASE t \notin tlb'
    <3>1. PICK x \in Sids : t = walk'[x] /\ t # None
      BY <2>2 DEF Translations
    <3>2. t = walk[x] /\ ~ Covers(c, t.did, t.page)
      BY <1>3, <3>1
    <3> QED BY <3>1, <3>2 DEF Translations
  <2> QED BY <2>1, <2>2
<1> QED BY <1>1, <1>2, <1>4

---------------------------------------------------------------------------
(* What follows from what is ahead. *)
Keeps(e) ==
  /\ \A did, p : WillDrop(e, did, p) => WillDrop(e, did, p)'
  /\ \A x, did : WillForget(e, x, did) => WillForget(e, x, did)'
  /\ \A f, did, p : WillFlush(e, f, did, p) => WillFlush(e, f, did, p)'

LEMMA KeepsBoth ==
  ASSUME NEW e, KeepsQueue(e), KeepsRegisters(e)
  PROVE  Keeps(e)
  BY DEF KeepsQueue, KeepsRegisters, Keeps, WillDrop, WillForget

LEMMA BystanderKeeps ==
  ASSUME NEW e \in Drivers, hw' = hw, queue' = queue, regs' = regs, job'[e] = job[e]
  PROVE  Keeps(e)
<1>1. \A i : Unsent(e, i)' = Unsent(e, i)
  BY DEF Unsent
<1>2. KeepsQueue(e)
  BY <1>1, SameKeepsQueue
<1>3. KeepsRegisters(e)
  BY SameKeepsRegisters, RegistersUnchanged
<1> QED BY <1>2, <1>3, KeepsBoth

(* A domain that is left loses its translations too. *)
LEMMA ForgetDrops ==
  ASSUME Jobs, NEW d \in Drivers, NEW x, NEW did, WillForget(d, x, did), NEW p \in PageAddrs
  PROVE  WillDrop(d, did, p)
<1>1. CASE QueueForgets(d, x, did)
  BY <1>1 DEF QueueForgets, QueueDrops, WillDrop
<1>2. CASE RegistersForget(d, x, did)
  <2>1. PICK i \in 1 .. Len(job[d].todo), k \in 1 .. Len(job[d].todo) :
          i < k /\ \A q \in PageAddrs : DropsByRegister(hw, job[d].todo[k], did, q)
    BY <1>2 DEF RegistersForget
  <2>2. k > 1
    BY <2>1 DEF Jobs, Job, IsSeq
  <2> QED BY <2>1, <2>2 DEF RegistersDrop, WillDrop, Unissued
<1> QED BY <1>1, <1>2 DEF WillForget

(* What comes after the first command is still ahead, and so is all of a   *)
(* fresh job.                                                              *)
LEMMA TodoAhead ==
  ASSUME IsSeq(queue), NEW d \in Drivers, IsSeq(job[d].todo),
         NEW m \in 1 .. Len(job[d].todo), m > 1 \/ job[d].step = 0,
         job[d].todo[m].via = "queue"
  PROVE  Len(queue) + m \in Ahead(d) /\ Pipe(d, Len(queue) + m) = job[d].todo[m].scope
<1>1. PICK T \in Nat : T = Len(job[d].todo)
  BY DEF IsSeq
<1>2. PICK L \in Nat : L = Len(queue)
  BY DEF IsSeq
<1>3. ~ (L + m <= L) /\ (L + m) - L = m /\ L + m \in 1 .. (L + T)
  BY <1>1
<1>4. Pipe(d, L + m) = Unsent(d, m)
  BY <1>2, <1>3 DEF Pipe
<1>5. Unsent(d, m) = job[d].todo[m].scope
  BY DEF Unsent
<1>6. L + m \in Ahead(d)
  BY <1>1, <1>2, <1>3 DEF Ahead
<1> QED BY <1>2, <1>4, <1>5, <1>6

LEMMA TodoWillDrop ==
  ASSUME IsSeq(queue), NEW d \in Drivers, IsSeq(job[d].todo), NEW i \in Nat,
         i >= 1 \/ job[d].step = 0, NEW did, NEW p, TodoDrops(hw, d, job[d].todo, i, did, p)
  PROVE  WillDrop(d, did, p)
<1>1. PICK T \in Nat : T = Len(job[d].todo)
  BY DEF IsSeq
<1>2. PICK L \in Nat : L = Len(queue)
  BY DEF IsSeq
<1>4. CASE \E m, n \in 1 .. T :
             /\ i < m /\ m < n
             /\ job[d].todo[m].via = "queue" /\ Covers(job[d].todo[m].scope, did, p)
             /\ job[d].todo[n].via = "queue" /\ Signals(job[d].todo[n].scope, d)
  <2>1. PICK m \in 1 .. T, n \in 1 .. T :
             /\ i < m /\ m < n
             /\ job[d].todo[m].via = "queue" /\ Covers(job[d].todo[m].scope, did, p)
             /\ job[d].todo[n].via = "queue" /\ Signals(job[d].todo[n].scope, d)
    BY <1>4
  <2>2. L + m < L + n /\ (m > 1 \/ job[d].step = 0) /\ n > 1
    BY <2>1
  <2>3. /\ L + m \in Ahead(d) /\ Pipe(d, L + m) = job[d].todo[m].scope
        /\ L + n \in Ahead(d) /\ Pipe(d, L + n) = job[d].todo[n].scope
    BY <1>1, <1>2, <2>1, <2>2, TodoAhead
  <2>4. QueueDrops(d, did, p)
    BY <2>1, <2>2, <2>3 DEF QueueDrops
  <2> QED BY <2>4 DEF WillDrop
<1>5. CASE \E k \in 1 .. T : i < k /\ DropsByRegister(hw, job[d].todo[k], did, p)
  <2>1. PICK k \in 1 .. T : i < k /\ DropsByRegister(hw, job[d].todo[k], did, p)
    BY <1>5
  <2>2. k > 1 \/ job[d].step = 0
    BY <2>1
  <2>3. Unissued(d, k)
    BY <2>1, <2>2, RegisterCommand DEF Unissued
  <2> QED BY <1>1, <2>1, <2>3 DEF RegistersDrop, WillDrop
<1> QED BY <1>1, <1>4, <1>5 DEF TodoDrops

LEMMA TodoWillForget ==
  ASSUME IsSeq(queue), NEW d \in Drivers, IsSeq(job[d].todo), job[d].step = 0,
         NEW x, NEW did, TodoForgets(hw, d, job[d].todo, x, did)
  PROVE  WillForget(d, x, did)
<1>1. PICK T \in Nat : T = Len(job[d].todo)
  BY DEF IsSeq
<1>2. PICK L \in Nat : L = Len(queue)
  BY DEF IsSeq
<1>3. PICK todo : todo = job[d].todo
  OBVIOUS
<1>4. CASE \E i, j, k, n \in 1 .. T :
             /\ i < j /\ j < k /\ k < n
             /\ todo[i].via = "queue" /\ DropsContext(todo[i].scope, x)
             /\ todo[j].via = "queue" /\ Holds(todo[j].scope)
             /\ todo[k].via = "queue" /\ \A p \in PageAddrs : Covers(todo[k].scope, did, p)
             /\ todo[n].via = "queue" /\ Signals(todo[n].scope, d)
  <2>1. PICK i \in 1 .. T, j \in 1 .. T, k \in 1 .. T, n \in 1 .. T :
             /\ i < j /\ j < k /\ k < n
             /\ todo[i].via = "queue" /\ DropsContext(todo[i].scope, x)
             /\ todo[j].via = "queue" /\ Holds(todo[j].scope)
             /\ todo[k].via = "queue" /\ \A p \in PageAddrs : Covers(todo[k].scope, did, p)
             /\ todo[n].via = "queue" /\ Signals(todo[n].scope, d)
    BY <1>4
  <2>2. L + i < L + j /\ L + j < L + k /\ L + k < L + n
    BY <2>1
  <2>3. \A m \in 1 .. T : todo[m].via = "queue" =>
           L + m \in Ahead(d) /\ Pipe(d, L + m) = todo[m].scope
    BY <1>1, <1>2, <1>3, TodoAhead
  <2>4. /\ L + i \in Ahead(d) /\ Pipe(d, L + i) = todo[i].scope
        /\ L + j \in Ahead(d) /\ Pipe(d, L + j) = todo[j].scope
        /\ L + k \in Ahead(d) /\ Pipe(d, L + k) = todo[k].scope
        /\ L + n \in Ahead(d) /\ Pipe(d, L + n) = todo[n].scope
    BY <2>1, <2>3
  <2>5. QueueForgets(d, x, did)
    BY <2>1, <2>2, <2>4 DEF QueueForgets
  <2> QED BY <2>5 DEF WillForget
<1>5. CASE \E i, k \in 1 .. T :
             /\ i < k /\ ForgetsByRegister(todo[i], x)
             /\ \A p \in PageAddrs : DropsByRegister(hw, todo[k], did, p)
  <2>1. PICK i \in 1 .. T, k \in 1 .. T :
             /\ i < k /\ ForgetsByRegister(todo[i], x)
             /\ \A p \in PageAddrs : DropsByRegister(hw, todo[k], did, p)
    BY <1>5
  <2>2. Unissued(d, i)
    BY <1>3, <2>1, RegisterCommand DEF Unissued
  <2> QED BY <1>1, <1>3, <2>1, <2>2 DEF RegistersForget, WillForget
<1> QED BY <1>1, <1>3, <1>4, <1>5 DEF TodoForgets

LEMMA FlushDrops ==
  ASSUME Types, Jobs, NEW d \in Drivers, NEW f, NEW did, NEW p,
         WillFlush(d, f, did, p), Usable(f)
  PROVE  WillDrop(d, did, p)
<1>1. PICK i \in 1 .. Len(job[d].todo) : TodoDrops(hw, d, job[d].todo, i, did, p)
  BY DEF WillFlush, DropsAfter
<1>2. i \in Nat /\ i >= 1
  BY DEF Jobs, Job, IsSeq
<1> QED BY <1>1, <1>2, TodoWillDrop DEF Types, Jobs, Job

(* The same of the state after a step. *)
LEMMA TodoWillDropNext ==
  (\A d \in Drivers : \A did, p :
     IsSeq(queue) /\ IsSeq(job[d].todo) /\ job[d].step = 0 /\ TodoDrops(hw, d, job[d].todo, 0, did, p)
       => WillDrop(d, did, p))'
<1>1. \A d \in Drivers : \A did, p :
     IsSeq(queue) /\ IsSeq(job[d].todo) /\ job[d].step = 0 /\ TodoDrops(hw, d, job[d].todo, 0, did, p)
       => WillDrop(d, did, p)
  BY TodoWillDrop
<1> QED BY <1>1, PTL

LEMMA TodoWillForgetNext ==
  (\A d \in Drivers : \A x, did :
     IsSeq(queue) /\ IsSeq(job[d].todo) /\ job[d].step = 0 /\ TodoForgets(hw, d, job[d].todo, x, did)
       => WillForget(d, x, did))'
<1>1. \A d \in Drivers : \A x, did :
     IsSeq(queue) /\ IsSeq(job[d].todo) /\ job[d].step = 0 /\ TodoForgets(hw, d, job[d].todo, x, did)
       => WillForget(d, x, did)
  BY TodoWillForget
<1> QED BY <1>1, PTL

(* A thread that has nothing left to do has nothing ahead. *)
LEMMA DoneAhead ==
  ASSUME Types, Jobs, Semaphores, NEW d \in Drivers, ~ Working(d)
  PROVE  /\ \A did, p : ~ WillDrop(d, did, p)
         /\ \A x, did : ~ WillForget(d, x, did)
         /\ \A f, did, p : ~ WillFlush(d, f, did, p)
<1>1. Len(job[d].todo) = 0
  BY SeqEmpty DEF Jobs, Job, Working
<1>2. PICK L \in Nat : L = Len(queue)
  BY DEF Types, IsSeq
<1>3. Ahead(d) = 1 .. L
  BY <1>1, <1>2 DEF Ahead
<1>4. ASSUME NEW n \in Ahead(d) PROVE ~ Signals(Pipe(d, n), d)
  <2>1. Pipe(d, n) = queue[n] /\ n \in 1 .. Len(queue)
    BY <1>2, <1>3 DEF Pipe
  <2> QED BY <2>1 DEF Semaphores, Polling
<1>5. 1 .. Len(job[d].todo) = {}
  BY <1>1
<1>6. \A did, p : ~ WillDrop(d, did, p)
  BY <1>4, <1>5 DEF WillDrop, QueueDrops, RegistersDrop
<1>7. \A x, did : ~ WillForget(d, x, did)
  BY <1>4, <1>5 DEF WillForget, QueueForgets, RegistersForget
<1>8. \A f, did, p : ~ WillFlush(d, f, did, p)
  BY <1>5 DEF WillFlush
<1> QED BY <1>6, <1>7, <1>8

---------------------------------------------------------------------------
(* The commands a job consists of, in order, and what they are worth when  *)
(* the words fit: the job drops what it has to, and waits for it.          *)

(* Plans: where each command is. *)
Before(h) == IF NeedsFlush(h) THEN 1 ELSE 0

LEMMA FlushShape ==
  ASSUME NEW h
  PROVE  /\ IsSeq(Flush(h)) /\ Len(Flush(h)) = Before(h) /\ Before(h) \in {0, 1}
         /\ NeedsFlush(h) => Flush(h)[1] = FlushWrites
<1>1. CASE NeedsFlush(h)
  BY <1>1, SeqOne DEF Flush, Before
<1>2. CASE ~ NeedsFlush(h)
  BY <1>2, SeqOne DEF Flush, Before
<1> QED BY <1>1, <1>2

LEMMA DoneShape ==
  ASSUME NEW h, NEW addr, NEW data
  PROVE  /\ IsSeq(Done(h, addr, data))
         /\ Queued(h) => Len(Done(h, addr, data)) = 1 /\ Done(h, addr, data)[1] = Wait(addr, data)
         /\ ~ Queued(h) => Len(Done(h, addr, data)) = 0
<1>1. CASE Queued(h)
  BY <1>1, SeqOne DEF Done
<1>2. CASE ~ Queued(h)
  BY <1>2, SeqOne DEF Done
<1> QED BY <1>1, <1>2

(* A sequence s, a command more. *)
LEMMA SeqThen ==
  ASSUME NEW s, IsSeq(s), NEW x
  PROVE  /\ IsSeq(s \o <<x>>) /\ Len(s \o <<x>>) = Len(s) + 1
         /\ \A i \in 1 .. Len(s) : (s \o <<x>>)[i] = s[i]
         /\ (s \o <<x>>)[Len(s) + 1] = x
<1>1. IsSeq(<<x>>) /\ Len(<<x>>) = 1 /\ <<x>>[1] = x
  BY SeqOne
<1>2. /\ IsSeq(s \o <<x>>) /\ Len(s \o <<x>>) = Len(s) + Len(<<x>>)
      /\ \A i \in 1 .. Len(s) : (s \o <<x>>)[i] = s[i]
      /\ \A i \in 1 .. Len(<<x>>) : (s \o <<x>>)[Len(s) + i] = <<x>>[i]
  BY <1>1, SeqCat
<1>3. 1 \in 1 .. Len(<<x>>)
  BY <1>1
<1>4. (s \o <<x>>)[Len(s) + 1] = <<x>>[1]
  BY <1>2, <1>3
<1> QED BY <1>1, <1>2, <1>4

LEMMA SeqThenNothing ==
  ASSUME NEW s, IsSeq(s), NEW e, IsSeq(e), Len(e) = 0
  PROVE  /\ IsSeq(s \o e) /\ Len(s \o e) = Len(s)
         /\ \A i \in 1 .. Len(s) : (s \o e)[i] = s[i]
<1>1. /\ IsSeq(s \o e) /\ Len(s \o e) = Len(s) + Len(e)
      /\ \A i \in 1 .. Len(s) : (s \o e)[i] = s[i]
  BY SeqCat
<1>2. Len(s) \in Nat
  BY DEF IsSeq
<1>3. Len(s) + Len(e) = Len(s)
  BY <1>2
<1> QED BY <1>1, <1>3

(* The plan p is s, and the wait for the end. *)
Ends(h, p, s, addr, data) ==
  /\ IsSeq(p) /\ IsSeq(s)
  /\ \A i \in 1 .. Len(s) : p[i] = s[i]
  /\ Queued(h) => Len(p) = Len(s) + 1 /\ p[Len(s) + 1] = Wait(addr, data)
  /\ ~ Queued(h) => Len(p) = Len(s)

LEMMA EndsDone ==
  ASSUME NEW h, NEW s, IsSeq(s), NEW addr, NEW data
  PROVE  Ends(h, s \o Done(h, addr, data), s, addr, data)
<1>1. CASE Queued(h)
  <2>1. Done(h, addr, data) = <<Wait(addr, data)>>
    BY <1>1 DEF Done
  <2> QED BY <1>1, <2>1, SeqThen DEF Ends
<1>2. CASE ~ Queued(h)
  BY <1>2, DoneShape, SeqThenNothing DEF Ends
<1> QED BY <1>1, <1>2

LEMMA RangeShape ==
  ASSUME NEW h, NEW did, NEW base, NEW order, NEW addr, NEW data
  PROVE  \E s : /\ Ends(h, RangePlan(h, did, base, order, addr, data), s, addr, data)
                /\ Len(s) = Before(h) + 1
                /\ NeedsFlush(h) => s[1] = FlushWrites
                /\ s[Before(h) + 1] =
                     IF PageSelective(h, order) THEN Pages(did, base, order) ELSE Domain(did)
<1>1. PICK x : x = IF PageSelective(h, order) THEN Pages(did, base, order) ELSE Domain(did)
  OBVIOUS
<1>2. PICK s : s = Flush(h) \o <<x>>
  OBVIOUS
<1>3. PICK f : f = Flush(h)
  OBVIOUS
<1>4. /\ IsSeq(f) /\ Len(f) = Before(h) /\ Before(h) \in {0, 1}
      /\ NeedsFlush(h) => f[1] = FlushWrites
  BY <1>3, FlushShape
<1>5. /\ IsSeq(s) /\ Len(s) = Len(f) + 1
      /\ \A i \in 1 .. Len(f) : s[i] = f[i]
      /\ s[Len(f) + 1] = x
  BY <1>2, <1>3, <1>4, SeqThen
<1>6. NeedsFlush(h) => 1 \in 1 .. Len(f)
  BY <1>4 DEF Before
<1>7. RangePlan(h, did, base, order, addr, data) = s \o Done(h, addr, data)
  BY <1>1, <1>2 DEF RangePlan
<1>8. Ends(h, s \o Done(h, addr, data), s, addr, data)
  BY <1>5, EndsDone
<1> QED BY <1>1, <1>4, <1>5, <1>6, <1>7, <1>8

LEMMA DetachShape ==
  ASSUME NEW h, NEW did, NEW x, NEW addr, NEW data
  PROVE  \E s : /\ Ends(h, DetachPlan(h, did, x, addr, data), s, addr, data)
                /\ NeedsFlush(h) => s[1] = FlushWrites
                /\ s[Before(h) + 1] = Context(did, x)
                /\ Queued(h) => /\ Len(s) = Before(h) + 3
                                /\ s[Before(h) + 2] = Fence /\ s[Before(h) + 3] = Domain(did)
                /\ ~ Queued(h) => Len(s) = Before(h) + 2 /\ s[Before(h) + 2] = Domain(did)
<1>1. PICK f : f = Flush(h)
  OBVIOUS
<1>2. PICK b \in {0, 1} : b = Before(h)
  BY FlushShape
<1>3. /\ IsSeq(f) /\ Len(f) = b
      /\ NeedsFlush(h) => f[1] = FlushWrites
  BY <1>1, <1>2, FlushShape
<1>4. PICK a : a = f \o <<Context(did, x)>>
  OBVIOUS
<1>5. /\ IsSeq(a) /\ Len(a) = b + 1
      /\ \A i \in 1 .. b : a[i] = f[i]
      /\ a[b + 1] = Context(did, x)
  BY <1>3, <1>4, SeqThen
<1>6. NeedsFlush(h) => 1 \in 1 .. b
  BY <1>2 DEF Before
<1>7. NeedsFlush(h) => a[1] = FlushWrites
  BY <1>3, <1>5, <1>6
<1>8. CASE Queued(h)
  <2>1. PICK c : c = a \o <<Fence>>
    OBVIOUS
  <2>2. PICK s : s = c \o <<Domain(did)>>
    OBVIOUS
  <2>3. /\ IsSeq(c) /\ Len(c) = Len(a) + 1 /\ \A i \in 1 .. Len(a) : c[i] = a[i]
        /\ c[Len(a) + 1] = Fence
    BY <1>5, <2>1, SeqThen
  <2>4. /\ IsSeq(s) /\ Len(s) = Len(c) + 1 /\ \A i \in 1 .. Len(c) : s[i] = c[i]
        /\ s[Len(c) + 1] = Domain(did)
    BY <2>2, <2>3, SeqThen
  <2>5. /\ Len(a) = b + 1 /\ Len(c) = b + 2 /\ Len(s) = b + 3
        /\ 1 \in 1 .. Len(a) /\ b + 1 \in 1 .. Len(a) /\ b + 1 \in 1 .. Len(c)
        /\ 1 \in 1 .. Len(c) /\ b + 2 \in 1 .. Len(c) /\ b + 2 = Len(a) + 1 /\ b + 3 = Len(c) + 1
    BY <1>2, <1>5, <2>3, <2>4
  <2>6. /\ s[1] = a[1] /\ s[b + 1] = Context(did, x) /\ s[b + 2] = Fence
        /\ s[b + 3] = Domain(did)
    BY <1>5, <2>3, <2>4, <2>5
  <2>7. DetachPlan(h, did, x, addr, data) = s \o Done(h, addr, data)
    BY <1>1, <1>4, <1>8, <2>1, <2>2 DEF DetachPlan
  <2>8. Ends(h, s \o Done(h, addr, data), s, addr, data)
    BY <2>4, EndsDone
  <2> QED BY <1>2, <1>7, <1>8, <2>5, <2>6, <2>7, <2>8
<1>9. CASE ~ Queued(h)
  <2>1. PICK c : c = a \o << >>
    OBVIOUS
  <2>2. PICK s : s = c \o <<Domain(did)>>
    OBVIOUS
  <2>3. /\ IsSeq(c) /\ Len(c) = Len(a) /\ \A i \in 1 .. Len(a) : c[i] = a[i]
    BY <1>5, <2>1, SeqThenNothing, SeqOne
  <2>4. /\ IsSeq(s) /\ Len(s) = Len(c) + 1 /\ \A i \in 1 .. Len(c) : s[i] = c[i]
        /\ s[Len(c) + 1] = Domain(did)
    BY <2>2, <2>3, SeqThen
  <2>5. /\ Len(a) = b + 1 /\ Len(c) = b + 1 /\ Len(s) = b + 2
        /\ 1 \in 1 .. Len(a) /\ b + 1 \in 1 .. Len(a) /\ b + 1 \in 1 .. Len(c)
        /\ 1 \in 1 .. Len(c) /\ b + 2 = Len(c) + 1
    BY <1>2, <1>5, <2>3, <2>4
  <2>6. s[1] = a[1] /\ s[b + 1] = Context(did, x) /\ s[b + 2] = Domain(did)
    BY <1>5, <2>3, <2>4, <2>5
  <2>7. DetachPlan(h, did, x, addr, data) = s \o Done(h, addr, data)
    BY <1>1, <1>4, <1>9, <2>1, <2>2 DEF DetachPlan
  <2>8. Ends(h, s \o Done(h, addr, data), s, addr, data)
    BY <2>4, EndsDone
  <2> QED BY <1>2, <1>7, <1>9, <2>5, <2>6, <2>7, <2>8
<1> QED BY <1>8, <1>9

(* Jobs, freshly prepared: only the last command waits, for data. *)
Fresh(d, todo, data) ==
  /\ IsSeq(todo)
  /\ \A i \in 1 .. Len(todo) :
       /\ todo[i].op = "wait" => i = Len(todo)
       /\ todo[i].via = "queue" /\ todo[i].op # "wait" => ~ Completes(todo[i].scope)
       /\ todo[i].via = "queue" /\ todo[i].op = "wait" =>
            Signals(todo[i].scope, d) /\ todo[i].scope.data = data

PreparedPlan(h, plan) == [i \in DOMAIN plan |-> Prepared(h, plan[i])]

LEMMA PreparedSeq ==
  ASSUME NEW h, NEW plan, IsSeq(plan)
  PROVE  /\ IsSeq(PreparedPlan(h, plan)) /\ Len(PreparedPlan(h, plan)) = Len(plan)
         /\ \A i \in 1 .. Len(plan) : PreparedPlan(h, plan)[i] = Prepared(h, plan[i])
<1>1. PICK N \in Nat : N = Len(plan)
  BY DEF IsSeq
<1>2. DOMAIN plan = 1 .. N
  BY <1>1 DEF IsSeq
<1>3. PICK t : t = [i \in 1 .. N |-> Prepared(h, plan[i])]
  OBVIOUS
<1>4. PreparedPlan(h, plan) = t
  BY <1>2, <1>3 DEF PreparedPlan
<1>5. t \in Seq({Prepared(h, plan[i]) : i \in 1 .. N}) /\ Len(t) = N
  BY <1>3
<1>6. IsSeq(t)
  BY <1>5, SeqIs
<1> QED BY <1>1, <1>3, <1>4, <1>5, <1>6

LEMMA PreparedIs ==
  ASSUME NEW h, NEW c
  PROVE  /\ Prepared(h, c).op = c.op
         /\ c.op # "flush" /\ Queued(h) => Prepared(h, c).via = "queue"
         /\ c.op = "flush" \/ ~ Queued(h) => Prepared(h, c).via = "registers"
  BY DEF Prepared

LEMMA CommandOps ==
  /\ \A did, base, order : Pages(did, base, order).op = "pages"
  /\ \A did : Domain(did).op = "domain"
  /\ \A did, x : Context(did, x).op = "context"
  /\ \A addr, data : Wait(addr, data).op = "wait"
  /\ Fence.op = "fence" /\ FlushWrites.op = "flush"
  BY DEF Pages, Domain, Context, Wait, Fence, FlushWrites

(* A command that does not complete anything. *)
Silent(h, c) ==
  c.op # "wait" /\ (Prepared(h, c).via = "queue" => ~ Completes(Prepared(h, c).scope))

LEMMA SilentFlush ==
  ASSUME NEW h
  PROVE  Silent(h, FlushWrites)
  BY PreparedIs, CommandOps DEF Silent

LEMMA SilentDrops ==
  ASSUME NEW h, NEW c, NEW did, NEW p, c.op # "wait", Drops(h, Prepared(h, c), did, p)
  PROVE  Silent(h, c)
<1>1. SUFFICES ASSUME Prepared(h, c).via = "queue" PROVE ~ Completes(Prepared(h, c).scope)
  BY DEF Silent
<1>2. Covers(Prepared(h, c).scope, did, p)
  BY <1>1 DEF Drops, DropsByRegister
<1> QED BY <1>2, CoversIs DEF Completes

LEMMA SilentForgets ==
  ASSUME NEW h, NEW c, NEW x, c.op # "wait", Forgets(Prepared(h, c), x)
  PROVE  Silent(h, c)
<1>1. SUFFICES ASSUME Prepared(h, c).via = "queue" PROVE ~ Completes(Prepared(h, c).scope)
  BY DEF Silent
<1>2. DropsContext(Prepared(h, c).scope, x)
  BY <1>1 DEF Forgets, ForgetsByRegister
<1> QED BY <1>2 DEF DropsContext, Completes

LEMMA PreparedEnds ==
  ASSUME NEW h, Fits(h), NEW d \in Drivers, NEW data \in Tickets, NEW plan, NEW s,
         Ends(h, plan, s, Semaphore[d], data), \A i \in 1 .. Len(s) : Silent(h, s[i]),
         NEW todo, todo = PreparedPlan(h, plan)
  PROVE  /\ Fresh(d, todo, data)
         /\ \A i \in 1 .. Len(s) : i \in 1 .. Len(todo) /\ todo[i] = Prepared(h, s[i])
         /\ Queued(h) => /\ Len(s) + 1 \in 1 .. Len(todo) /\ todo[Len(s) + 1].via = "queue"
                         /\ Signals(todo[Len(s) + 1].scope, d)
<1>1. PICK N \in Nat : N = Len(s)
  BY DEF Ends, IsSeq
<1>2. /\ IsSeq(todo) /\ Len(todo) = Len(plan)
      /\ \A i \in 1 .. Len(plan) : todo[i] = Prepared(h, plan[i])
  BY PreparedSeq DEF Ends
<1>3. /\ \A i \in 1 .. N : plan[i] = s[i]
      /\ Queued(h) => Len(plan) = N + 1 /\ plan[N + 1] = Wait(Semaphore[d], data)
      /\ ~ Queued(h) => Len(plan) = N
  BY <1>1 DEF Ends
<1>4. PICK M : M = Len(todo)
  OBVIOUS
<1>5. (Queued(h) => M = N + 1) /\ (~ Queued(h) => M = N)
  BY <1>2, <1>3, <1>4
<1>6. \A i \in 1 .. N : i \in 1 .. M
  BY <1>5
<1>7. Queued(h) => N + 1 \in 1 .. M
  BY <1>5
<1>8. \A i \in 1 .. N : todo[i] = Prepared(h, s[i])
  BY <1>2, <1>3, <1>4, <1>6
<1>9. Queued(h) => todo[N + 1] = Prepared(h, Wait(Semaphore[d], data))
  BY <1>2, <1>3, <1>4, <1>7
<1>10. ASSUME Queued(h)
       PROVE  /\ todo[N + 1].via = "queue" /\ todo[N + 1].op = "wait"
              /\ Signals(todo[N + 1].scope, d) /\ todo[N + 1].scope.data = data
  <2>1. todo[N + 1].via = "queue" /\ todo[N + 1].op = "wait"
    BY <1>9, <1>10, PreparedIs, CommandOps
  <2>2. PICK c : c = Prepared(h, Wait(Semaphore[d], data)).scope
    OBVIOUS
  <2>3. Completes(c) /\ c.addr = Semaphore[d] /\ c.data = data
    BY <1>10, <2>2 DEF Fits
  <2> QED BY <1>9, <1>10, <2>1, <2>2, <2>3 DEF Signals
<1>11. \A i \in 1 .. N : /\ todo[i].op # "wait"
                         /\ todo[i].via = "queue" => ~ Completes(todo[i].scope)
  <2>1. SUFFICES ASSUME NEW i \in 1 .. N
                 PROVE  /\ todo[i].op # "wait"
                        /\ todo[i].via = "queue" => ~ Completes(todo[i].scope)
    OBVIOUS
  <2>2. Silent(h, s[i]) /\ todo[i] = Prepared(h, s[i])
    BY <1>1, <1>8
  <2> QED BY <2>2, PreparedIs DEF Silent
<1>12. \A i \in 1 .. M : i \in 1 .. N \/ (Queued(h) /\ i = N + 1)
  BY <1>5
<1>13. Fresh(d, todo, data)
  <2>1. SUFFICES ASSUME NEW i \in 1 .. M
                 PROVE  /\ todo[i].op = "wait" => i = M
                        /\ todo[i].via = "queue" /\ todo[i].op # "wait" => ~ Completes(todo[i].scope)
                        /\ todo[i].via = "queue" /\ todo[i].op = "wait" =>
                             Signals(todo[i].scope, d) /\ todo[i].scope.data = data
    BY <1>2, <1>4 DEF Fresh
  <2>2. CASE i \in 1 .. N
    BY <1>11, <2>2
  <2>3. CASE Queued(h) /\ i = N + 1
    BY <1>5, <1>10, <2>3
  <2> QED BY <1>12, <2>2, <2>3
<1> QED BY <1>1, <1>4, <1>6, <1>7, <1>8, <1>10, <1>13

(* What an invalidated range is worth to the thread. *)
LEMMA RangeTodo ==
  ASSUME NEW h, Fits(h), NEW d \in Drivers, NEW data \in Tickets, NEW did \in Dids,
         NEW base, NEW order, NEW P \in SUBSET PageAddrs, P # {},
         \A p \in P : PageSelective(h, order) => Drops(h, Prepared(h, Pages(did, base, order)), did, p),
         NEW todo, todo = PreparedPlan(h, RangePlan(h, did, base, order, Semaphore[d], data))
  PROVE  /\ Fresh(d, todo, data)
         /\ \A p \in P : TodoDrops(h, d, todo, Before(h), did, p)
         /\ NeedsFlush(h) => 1 \in 1 .. Len(todo) /\ Flushes(todo[1])
<1>1. PICK x : x = IF PageSelective(h, order) THEN Pages(did, base, order) ELSE Domain(did)
  OBVIOUS
<1>2. PICK b \in {0, 1} : b = Before(h)
  BY FlushShape
<1>3. PICK plan : plan = RangePlan(h, did, base, order, Semaphore[d], data)
  OBVIOUS
<1>4. PICK s : /\ Ends(h, plan, s, Semaphore[d], data) /\ Len(s) = b + 1
               /\ NeedsFlush(h) => s[1] = FlushWrites
               /\ s[b + 1] = x
  BY <1>1, <1>2, <1>3, RangeShape
<1>5. \A p \in P : Drops(h, Prepared(h, x), did, p)
  <2>1. SUFFICES ASSUME NEW p \in P PROVE Drops(h, Prepared(h, x), did, p)
    OBVIOUS
  <2>2. Drops(h, Prepared(h, Domain(did)), did, p)
    BY DEF Fits
  <2> QED BY <1>1, <2>2
<1>6. x.op \in {"pages", "domain"}
  BY <1>1, CommandOps
<1>7. Silent(h, x)
  BY <1>5, <1>6, SilentDrops
<1>8. \A i \in 1 .. Len(s) : Silent(h, s[i])
  <2>1. SUFFICES ASSUME NEW i \in 1 .. (b + 1) PROVE Silent(h, s[i])
    BY <1>4
  <2>2. i = b + 1 \/ (i = 1 /\ b = 1)
    OBVIOUS
  <2>3. b = 1 => NeedsFlush(h)
    BY <1>2 DEF Before
  <2> QED BY <1>4, <1>7, <2>2, <2>3, SilentFlush
<1>9. /\ Fresh(d, todo, data)
      /\ \A i \in 1 .. Len(s) : i \in 1 .. Len(todo) /\ todo[i] = Prepared(h, s[i])
      /\ Queued(h) => /\ Len(s) + 1 \in 1 .. Len(todo) /\ todo[Len(s) + 1].via = "queue"
                      /\ Signals(todo[Len(s) + 1].scope, d)
  BY <1>3, <1>4, <1>8, PreparedEnds
<1>10. /\ b + 1 \in 1 .. Len(s) /\ 1 \in 1 .. Len(s) /\ b < b + 1 /\ b + 1 < b + 2
       /\ Len(s) + 1 = b + 2
  BY <1>4
<1>11. b + 1 \in 1 .. Len(todo) /\ todo[b + 1] = Prepared(h, x)
  BY <1>4, <1>9, <1>10
<1>12. ASSUME NEW p \in P PROVE TodoDrops(h, d, todo, b, did, p)
  <2>1. Drops(h, todo[b + 1], did, p)
    BY <1>5, <1>11
  <2>2. CASE Queued(h)
    <3>1. todo[b + 1].via = "queue"
      BY <1>6, <1>11, <2>2, PreparedIs
    <3>2. Covers(todo[b + 1].scope, did, p)
      BY <2>1, <3>1 DEF Drops, DropsByRegister
    <3>3. /\ b + 2 \in 1 .. Len(todo) /\ todo[b + 2].via = "queue"
          /\ Signals(todo[b + 2].scope, d)
      BY <1>9, <1>10, <2>2
    <3> QED BY <1>10, <1>11, <3>1, <3>2, <3>3 DEF TodoDrops
  <2>3. CASE ~ Queued(h)
    <3>1. todo[b + 1].via = "registers"
      BY <1>11, <2>3, PreparedIs
    <3>2. DropsByRegister(h, todo[b + 1], did, p)
      BY <2>1, <3>1 DEF Drops
    <3> QED BY <1>10, <1>11, <3>2 DEF TodoDrops
  <2> QED BY <2>2, <2>3
<1>13. ASSUME NeedsFlush(h) PROVE 1 \in 1 .. Len(todo) /\ Flushes(todo[1])
  <2>1. 1 \in 1 .. Len(todo) /\ todo[1] = Prepared(h, FlushWrites)
    BY <1>4, <1>9, <1>10, <1>13
  <2>2. Flushes(Prepared(h, FlushWrites))
    BY <1>13 DEF Fits
  <2> QED BY <2>1, <2>2
<1> QED BY <1>2, <1>9, <1>12, <1>13

LEMMA MapTodo ==
  ASSUME NEW h, Fits(h), NEW d \in Drivers, NEW data \in Tickets, NEW did \in Dids,
         NEW page \in PageAddrs,
         NEW todo, todo = PreparedPlan(h, MapPlan(h, did, page, Semaphore[d], data))
  PROVE  /\ Fresh(d, todo, data)
         /\ "cm" \in h.built => TodoDrops(h, d, todo, Before(h), did, page)
         /\ NeedsFlush(h) => 1 \in 1 .. Len(todo) /\ Flushes(todo[1])
<1>1. CASE InvalidateOnMap(h)
  <2>1. MapPlan(h, did, page, Semaphore[d], data) = RangePlan(h, did, page, 0, Semaphore[d], data)
    BY <1>1 DEF MapPlan
  <2>2. PICK r : r = [base |-> page, order |-> 0]
    OBVIOUS
  <2>3. InRange(page, r.base, r.order) /\ r.base = page /\ r.order = 0
    BY <2>2 DEF InRange
  <2>4. PageSelective(h, r.order) => Drops(h, Prepared(h, Pages(did, r.base, r.order)), did, page)
    BY <2>2, <2>3 DEF Fits
  <2>5. PICK P \in SUBSET PageAddrs : P = {page}
    OBVIOUS
  <2>6. P # {} /\ \A p \in P : PageSelective(h, 0) => Drops(h, Prepared(h, Pages(did, page, 0)), did, p)
    BY <2>3, <2>4, <2>5
  <2>7. /\ Fresh(d, todo, data)
        /\ \A p \in P : TodoDrops(h, d, todo, Before(h), did, p)
        /\ NeedsFlush(h) => 1 \in 1 .. Len(todo) /\ Flushes(todo[1])
    BY <2>1, <2>6, RangeTodo
  <2> QED BY <2>5, <2>7
<1>2. CASE ~ InvalidateOnMap(h)
  <2>1. MapPlan(h, did, page, Semaphore[d], data) = Flush(h)
    BY <1>2 DEF MapPlan
  <2>2. /\ IsSeq(Flush(h)) /\ Len(Flush(h)) = Before(h) /\ Before(h) \in {0, 1}
        /\ NeedsFlush(h) => Flush(h)[1] = FlushWrites
    BY FlushShape
  <2>3. /\ IsSeq(todo) /\ Len(todo) = Before(h)
        /\ \A i \in 1 .. Before(h) : todo[i] = Prepared(h, Flush(h)[i])
    BY <2>1, <2>2, PreparedSeq
  <2>4. ASSUME NeedsFlush(h)
        PROVE  /\ 1 \in 1 .. Len(todo) /\ Len(todo) = 1 /\ todo[1] = Prepared(h, FlushWrites)
    BY <2>2, <2>3, <2>4 DEF Before
  <2>5. ASSUME NEW i \in 1 .. Len(todo)
        PROVE  todo[i].via = "registers" /\ todo[i].op # "wait"
    <3>1. NeedsFlush(h)
      BY <2>3 DEF Before
    <3>2. i \in 1 .. 1
      BY <2>4, <3>1
    <3>3. i = 1
      BY <3>2
    <3> QED BY <2>4, <3>1, <3>3, PreparedIs, CommandOps
  <2>6. Fresh(d, todo, data)
    BY <2>3, <2>5 DEF Fresh
  <2>7. "cm" \notin h.built
    BY <1>2 DEF Fits
  <2>8. NeedsFlush(h) => Flushes(Prepared(h, FlushWrites))
    BY DEF Fits
  <2> QED BY <2>4, <2>6, <2>7, <2>8
<1> QED BY <1>1, <1>2

LEMMA DetachTodo ==
  ASSUME NEW h, Fits(h), NEW d \in Drivers, NEW data \in Tickets, NEW did \in Dids,
         NEW x \in Sids,
         NEW todo, todo = PreparedPlan(h, DetachPlan(h, did, x, Semaphore[d], data))
  PROVE  /\ Fresh(d, todo, data)
         /\ TodoForgets(h, d, todo, x, did)
         /\ \A p \in PageAddrs : TodoDrops(h, d, todo, 0, did, p)
<1>1. PICK b \in {0, 1} : b = Before(h)
  BY FlushShape
<1>2. PICK plan : plan = DetachPlan(h, did, x, Semaphore[d], data)
  OBVIOUS
<1>3. PICK s : /\ Ends(h, plan, s, Semaphore[d], data)
               /\ NeedsFlush(h) => s[1] = FlushWrites
               /\ s[b + 1] = Context(did, x)
               /\ Queued(h) => /\ Len(s) = b + 3 /\ s[b + 2] = Fence /\ s[b + 3] = Domain(did)
               /\ ~ Queued(h) => Len(s) = b + 2 /\ s[b + 2] = Domain(did)
  BY <1>1, <1>2, DetachShape
<1>4. Forgets(Prepared(h, Context(did, x)), x)
  BY DEF Fits
<1>5. \A p \in PageAddrs : Drops(h, Prepared(h, Domain(did)), did, p)
  BY DEF Fits
<1>6. Silent(h, Context(did, x))
  BY <1>4, SilentForgets, CommandOps
<1>7. Silent(h, Domain(did))
  <2>1. PICK p \in PageAddrs : TRUE
    BY InvalidationAssumption
  <2> QED BY <1>5, <2>1, SilentDrops, CommandOps
<1>8. Queued(h) => Silent(h, Fence)
  BY CommandOps DEF Fits, Silent
<1>9. b = 1 => NeedsFlush(h)
  BY <1>1 DEF Before
<1>10. CASE Queued(h)
  <2>1. \A i \in 1 .. Len(s) : Silent(h, s[i])
    <3>1. SUFFICES ASSUME NEW i \in 1 .. (b + 3) PROVE Silent(h, s[i])
      BY <1>3, <1>10
    <3>2. i = b + 1 \/ i = b + 2 \/ i = b + 3 \/ (i = 1 /\ b = 1)
      OBVIOUS
    <3> QED BY <1>3, <1>6, <1>7, <1>8, <1>9, <1>10, <3>2, SilentFlush
  <2>2. /\ Fresh(d, todo, data)
        /\ \A i \in 1 .. Len(s) : i \in 1 .. Len(todo) /\ todo[i] = Prepared(h, s[i])
        /\ Len(s) + 1 \in 1 .. Len(todo) /\ todo[Len(s) + 1].via = "queue"
        /\ Signals(todo[Len(s) + 1].scope, d)
    BY <1>2, <1>3, <1>10, <2>1, PreparedEnds
  <2>3. /\ b + 1 \in 1 .. Len(s) /\ b + 2 \in 1 .. Len(s) /\ b + 3 \in 1 .. Len(s)
        /\ Len(s) + 1 = b + 4
        /\ 0 < b + 3 /\ b + 1 < b + 2 /\ b + 2 < b + 3 /\ b + 3 < b + 4
    BY <1>3, <1>10
  <2>4. /\ b + 1 \in 1 .. Len(todo) /\ todo[b + 1] = Prepared(h, Context(did, x))
        /\ b + 2 \in 1 .. Len(todo) /\ todo[b + 2] = Prepared(h, Fence)
        /\ b + 3 \in 1 .. Len(todo) /\ todo[b + 3] = Prepared(h, Domain(did))
    BY <1>3, <1>10, <2>2, <2>3
  <2>5. todo[b + 1].via = "queue" /\ todo[b + 2].via = "queue" /\ todo[b + 3].via = "queue"
    BY <1>10, <2>4, PreparedIs, CommandOps
  <2>6. DropsContext(todo[b + 1].scope, x)
    BY <1>4, <2>4, <2>5 DEF Forgets, ForgetsByRegister
  <2>7. Holds(todo[b + 2].scope)
    BY <1>10, <2>4 DEF Fits
  <2>8. \A p \in PageAddrs : Covers(todo[b + 3].scope, did, p)
    BY <1>5, <2>4, <2>5 DEF Drops, DropsByRegister
  <2>9. b + 4 \in 1 .. Len(todo) /\ todo[b + 4].via = "queue" /\ Signals(todo[b + 4].scope, d)
    BY <2>2, <2>3
  <2>10. TodoForgets(h, d, todo, x, did)
    BY <2>3, <2>4, <2>5, <2>6, <2>7, <2>8, <2>9 DEF TodoForgets
  <2>11. \A p \in PageAddrs : TodoDrops(h, d, todo, 0, did, p)
    BY <2>3, <2>4, <2>5, <2>8, <2>9 DEF TodoDrops
  <2> QED BY <2>2, <2>10, <2>11
<1>11. CASE ~ Queued(h)
  <2>1. \A i \in 1 .. Len(s) : Silent(h, s[i])
    <3>1. SUFFICES ASSUME NEW i \in 1 .. (b + 2) PROVE Silent(h, s[i])
      BY <1>3, <1>11
    <3>2. i = b + 1 \/ i = b + 2 \/ (i = 1 /\ b = 1)
      OBVIOUS
    <3> QED BY <1>3, <1>6, <1>7, <1>9, <1>11, <3>2, SilentFlush
  <2>2. /\ Fresh(d, todo, data)
        /\ \A i \in 1 .. Len(s) : i \in 1 .. Len(todo) /\ todo[i] = Prepared(h, s[i])
    BY <1>2, <1>3, <2>1, PreparedEnds
  <2>3. b + 1 \in 1 .. Len(s) /\ b + 2 \in 1 .. Len(s) /\ 0 < b + 2 /\ b + 1 < b + 2
    BY <1>3, <1>11
  <2>4. /\ b + 1 \in 1 .. Len(todo) /\ todo[b + 1] = Prepared(h, Context(did, x))
        /\ b + 2 \in 1 .. Len(todo) /\ todo[b + 2] = Prepared(h, Domain(did))
    BY <1>3, <1>11, <2>2, <2>3
  <2>5. todo[b + 1].via = "registers" /\ todo[b + 2].via = "registers"
    BY <1>11, <2>4, PreparedIs
  <2>6. ForgetsByRegister(todo[b + 1], x)
    BY <1>4, <2>4, <2>5 DEF Forgets
  <2>7. \A p \in PageAddrs : DropsByRegister(h, todo[b + 2], did, p)
    BY <1>5, <2>4, <2>5 DEF Drops
  <2>8. TodoForgets(h, d, todo, x, did)
    BY <2>3, <2>4, <2>6, <2>7 DEF TodoForgets
  <2>9. \A p \in PageAddrs : TodoDrops(h, d, todo, 0, did, p)
    BY <2>3, <2>4, <2>7 DEF TodoDrops
  <2> QED BY <2>2, <2>8, <2>9
<1> QED BY <1>10, <1>11
===========================================================================
