---------------------------- MODULE Invalidation ----------------------------
(***************************************************************************)
(* Translations change while devices use them.  Driver threads map and     *)
(* unmap pages of domains and take devices out of them; the IOMMU caches   *)
(* contexts and translations, and learns of a change only through the      *)
(* words of InvalidationWords.  A queue delivers them in order (that is    *)
(* DescriptorQueue's DeliversCommands), but the IOMMU may carry out what   *)
(* it fetched in any order that fences and waits allow.  The crates supply *)
(* every word and the capability getters; the threads and the IOMMU around *)
(* them are external.                                                      *)
(***************************************************************************)
EXTENDS InvalidationWords, FiniteSets

CONSTANTS
  Hardware,        \* the IOMMUs, see InvalidationWords
  Sids,            \* devices, by source id
  Dids,            \* domains, by id
  PageAddrs,       \* pages of a domain's address space
  Ranges,          \* [base, order]: the ranges unmapped at once
  Frames,          \* memory
  Drivers,         \* driver threads
  Semaphore,       \* Semaphore[d]: the qword thread d polls
  Tickets          \* the two values it waits for in turn

VARIABLES
  hw,
  context,         \* device -> its domain, or None
  table,           \* <<domain, page>> -> frame, or None, as stored
  seen,            \* table as a page walk finds it
  free,            \* frames that belong to nobody's domain
  job,             \* what each thread is doing
  queue,           \* commands as the IOMMU reads them, fetched or to be fetched
  regs,            \* register offset -> word
  lock,            \* the thread that uses the registers, or None
  sem,             \* the memory the IOMMU has written to
  contexts,        \* cache: <<device, domain>>
  tlb,             \* cache: [did, page, frame]
  walk             \* device -> translation found and not yet cached, or None

(* The IOTLB register follows IVA. *)
IOTLB(h) == h.iva \cup {3}

driver == <<context, table, free, job, lock>>
vars == <<hw, driver, seen, queue, regs, sem, contexts, tlb, walk>>

ASSUME InvalidationAssumption ==
  /\ Cardinality(Tickets) = 2
  /\ \A d, e \in Drivers : Semaphore[d] = Semaphore[e] => d = e
  /\ PageAddrs # {}
  /\ None \notin Frames /\ None \notin Dids /\ None \notin Drivers

(* What hardware must not conceal: write buffers (RWBF, bit 4 of the       *)
(* capability register) and caching mode (CM, bit 7); and what it must not *)
(* claim: page-selective invalidation (PSI, bit 39) or more pages at once  *)
(* (MAMV, bits 53:48) than it can do.  IRO (bits 17:8 of the extended      *)
(* capabilities) is where IVA is, in units of 16 bytes.                    *)
Honest(h) ==
  /\ "rwbf" \in h.built => 4 \in h.cap
  /\ "cm" \in h.built => 7 \in h.cap
  /\ 39 \in h.cap => "psi" \in h.built
  /\ \E n \in 0 .. 63 : n <= h.mamv /\ {b \in 0 .. 5 : b + 48 \in h.cap} = BitsOf(n)
  /\ \A b \in 0 .. 9 : b + 8 \in h.ecap <=> b + 4 \in h.iva

(* IVA and IOTLB are not where CCMD is (28h). *)
ASSUME HardwareAssumption ==
  \A h \in Hardware :
    /\ h.cap \subseteq U64 /\ h.ecap \subseteq U64 /\ h.mamv \in Nat
    /\ h.iva \subseteq 4 .. 13 /\ h.iva # {5}
    /\ \/ h.vendor = "amd" /\ "rwbf" \notin h.built /\ "cm" \notin h.built
       \/ h.vendor = "intel" /\ Honest(h)

(* Ids have 16 bits, addresses are those of pages, qwords and aligned      *)
(* ranges; QiWait stores 32 bits, CompletionWait 64.                       *)
ASSUME WidthAssumption ==
  /\ \A x \in Dids \cup Sids : x \subseteq U16
  /\ \A p \in PageAddrs : p \subseteq 12 .. 63
  /\ \A r \in Ranges : r.order \in 0 .. 52 /\ r.base \subseteq (12 + r.order) .. 63
  /\ \A d \in Drivers : Semaphore[d] \subseteq 3 .. 51
  /\ \A h \in Hardware, t \in Tickets : t \subseteq (IF h.vendor = "amd" THEN U64 ELSE U32)

(* A thread with nothing to do.  A job has the domain and pages nobody     *)
(* else may touch meanwhile, the frames to give back at the end, the       *)
(* commands left, how far the first of them got and the value waited for   *)
(* last.                                                                   *)
Idle(ticket) ==
  [kind |-> "idle", did |-> None, pages |-> {}, frames |-> {}, todo |-> << >>,
   step |-> 0, ticket |-> ticket]

FirstTicket == CHOOSE t \in Tickets : TRUE

Init ==
  /\ hw \in Hardware
  /\ context = [x \in Sids |-> None]
  /\ table = [t \in Dids \X PageAddrs |-> None]
  /\ seen = table
  /\ free = Frames
  /\ job = [d \in Drivers |-> Idle(FirstTicket)]
  /\ sem = [a \in {Semaphore[d] : d \in Drivers} |-> FirstTicket]
  /\ queue = << >>
  /\ regs = [r \in {GSTS, CCMD, hw.iva, IOTLB(hw)} |->
               IF r = GSTS THEN {Gsts.TES, Gsts.RTPS} ELSE {}]
  /\ lock = None
  /\ contexts = {} /\ tlb = {}
  /\ walk = [x \in Sids |-> None]

---------------------------------------------------------------------------
(* The driver. *)

Other(t) == CHOOSE u \in Tickets : u # t

(* Pages of a domain that no thread is working on. *)
Unclaimed(did, pages) ==
  \A d \in Drivers : job[d].did = did => job[d].pages \cap pages = {}

Starts(d, kind, did, pages, frames, plan) ==
  /\ job[d].kind = "idle"
  /\ Unclaimed(did, pages)
  /\ job' = [job EXCEPT ![d] = [kind |-> kind, did |-> did, pages |-> pages,
                                frames |-> frames, step |-> 0,
                                todo |-> [i \in DOMAIN plan |-> Prepared(hw, plan[i])],
                                ticket |-> job[d].ticket]]

(* Stores to the tables; without write buffers they are visible at once. *)
Stores(t) ==
  /\ table' = t
  /\ seen' = IF "rwbf" \in hw.built THEN seen ELSE t

Map(d, did, page, frame) ==
  /\ frame \in free
  /\ table[<<did, page>>] = None
  /\ Starts(d, "map", did, {page}, {},
            MapPlan(hw, did, page, Semaphore[d], Other(job[d].ticket)))
  /\ Stores([table EXCEPT ![<<did, page>>] = frame])
  /\ free' = free \ {frame}
  /\ UNCHANGED <<hw, context, queue, regs, lock, sem, contexts, tlb, walk>>

(* The frames come back when the job is done, not before. *)
Unmap(d, did, r) ==
  LET pages == {p \in PageAddrs : InRange(p, r.base, r.order)}
      frames == {table[<<did, p>>] : p \in pages} \ {None}
  IN  /\ frames # {}
      /\ Starts(d, "unmap", did, pages, frames,
                RangePlan(hw, did, r.base, r.order, Semaphore[d], Other(job[d].ticket)))
      /\ Stores([t \in DOMAIN table |-> IF t \in {did} \X pages THEN None ELSE table[t]])
      /\ UNCHANGED <<hw, context, free, queue, regs, lock, sem, contexts, tlb, walk>>

(* A device joins a domain nobody is working on. *)
Attach(x, did) ==
  /\ context[x] = None
  /\ Unclaimed(did, PageAddrs)
  /\ hw.vendor = "intel" => did \in domain_ids(hw.cap)
  /\ context' = [context EXCEPT ![x] = did]
  /\ UNCHANGED <<hw, table, seen, free, job, queue, regs, lock, sem, contexts, tlb, walk>>

(* The last device leaves and the domain is given up with all its frames;  *)
(* its tables stay in place until the job is done.                         *)
Detach(d, x) ==
  LET did == context[x]
  IN  /\ did # None
      /\ \A y \in Sids \ {x} : context[y] # did
      /\ Starts(d, "detach", did, PageAddrs, {table[<<did, p>>] : p \in PageAddrs} \ {None},
                DetachPlan(hw, did, x, Semaphore[d], Other(job[d].ticket)))
      /\ context' = [context EXCEPT ![x] = None]
      /\ UNCHANGED <<hw, table, seen, free, queue, regs, lock, sem, contexts, tlb, walk>>

Command(d) == Head(job[d].todo)

Working(d) == job[d].todo # << >>

Advance(d) == job' = [job EXCEPT ![d].todo = Tail(@), ![d].step = 0]

(* Append the command's words; a wait stays at the head until it is over.  *)
Submit(d) ==
  /\ Working(d) /\ Command(d).via = "queue" /\ job[d].step = 0
  /\ queue' = Append(queue, Command(d).scope)
  /\ IF Command(d).op = "wait"
     THEN job' = [job EXCEPT ![d].step = 1, ![d].ticket = Other(@)]
     ELSE Advance(d)
  /\ UNCHANGED <<hw, context, table, seen, free, regs, lock, sem, contexts, tlb, walk>>

Polling(d) == Working(d) /\ Command(d).via = "queue" /\ job[d].step = 1

Signalled(d) == sem[Semaphore[d]] = job[d].ticket

PollSemaphore(d) ==
  /\ Polling(d) /\ Signalled(d)
  /\ Advance(d)
  /\ UNCHANGED <<hw, context, table, seen, free, queue, regs, lock, sem, contexts, tlb, walk>>

(* The thread reads its semaphore in vain and goes on polling. *)
Spin(d) == Polling(d) /\ ~ Signalled(d) /\ UNCHANGED vars

(* Bits for GCMD are added to those set now, and what is stored there      *)
(* shows in GSTS, bit for bit.  A store to an offset without a register is *)
(* lost.                                                                   *)
Stored(w) ==
  [r \in DOMAIN regs |->
    IF w.at = GCMD /\ r = GSTS THEN regs[GSTS] \cup w.word
    ELSE IF r = w.at THEN w.word ELSE regs[r]]

(* The next store of a register command, under the lock. *)
WriteRegister(d) ==
  /\ Working(d) /\ Command(d).via = "registers" /\ lock \in {None, d}
  /\ job[d].step < Len(Command(d).writes)
  /\ regs' = Stored(Command(d).writes[job[d].step + 1])
  /\ lock' = d
  /\ job' = [job EXCEPT ![d].step = @ + 1]
  /\ UNCHANGED <<hw, context, table, seen, free, queue, sem, contexts, tlb, walk>>

ReadRegister(at) == IF at \in DOMAIN regs THEN regs[at] ELSE {}

PollRegister(d) ==
  /\ Working(d) /\ Command(d).via = "registers" /\ lock = d
  /\ job[d].step = Len(Command(d).writes)
  /\ Command(d).busy.bit \notin ReadRegister(Command(d).busy.at)
  /\ lock' = None
  /\ Advance(d)
  /\ UNCHANGED <<hw, context, table, seen, free, queue, regs, sem, contexts, tlb, walk>>

(* All commands are done: the frames are free, and a domain that was given *)
(* up starts over with empty tables.                                       *)
Finish(d) ==
  /\ job[d].kind # "idle" /\ ~ Working(d)
  /\ free' = free \cup job[d].frames
  /\ IF job[d].kind = "detach"
     THEN LET Emptied(f) == [t \in DOMAIN f |-> IF t[1] = job[d].did THEN None ELSE f[t]]
          IN  table' = Emptied(table) /\ seen' = Emptied(seen)
     ELSE UNCHANGED <<table, seen>>
  /\ job' = [job EXCEPT ![d] = Idle(@.ticket)]
  /\ UNCHANGED <<hw, context, queue, regs, lock, sem, contexts, tlb, walk>>

---------------------------------------------------------------------------
(* The IOMMU. *)

(* Invalidating drops cached translations and those a walk has found but   *)
(* not cached yet.                                                         *)
Invalidate(c) ==
  /\ tlb' = {e \in tlb : ~ Covers(c, e.did, e.page)}
  /\ walk' = [x \in Sids |->
                IF walk[x] # None /\ Covers(c, walk[x].did, walk[x].page) THEN None ELSE walk[x]]
  /\ contexts' = {e \in contexts : ~ DropsContext(c, e[1])}

(* Nothing overtakes a fence; a wait is over when everything before is.    *)
Ready(n) ==
  \A m \in 1 .. (n - 1) :
    /\ queue[n].op = "wait" => queue[m].op = "wait"
    /\ ~ Holds(queue[m])

Execute(n) ==
  /\ Ready(n)
  /\ Invalidate(queue[n])
  /\ sem' = IF Completes(queue[n])
            THEN [a \in DOMAIN sem \cup {queue[n].addr} |->
                    IF a = queue[n].addr THEN queue[n].data ELSE sem[a]]
            ELSE sem
  /\ queue' = SubSeq(queue, 1, n - 1) \o SubSeq(queue, n + 1, Len(queue))
  /\ UNCHANGED <<hw, driver, seen, regs>>

(* A flush empties the write buffers. *)
DoFlush ==
  /\ Gsts.WBFS \in regs[GSTS]
  /\ regs' = [regs EXCEPT ![GSTS] = @ \ {Gsts.WBFS}]
  /\ seen' = table
  /\ UNCHANGED <<hw, driver, queue, sem, contexts, tlb, walk>>

DoRegister(at, scope) ==
  /\ Start \in regs[at]
  /\ \E c \in {scope} : Invalidate(c)
  /\ regs' = [regs EXCEPT ![at] = @ \ {Start}]
  /\ UNCHANGED <<hw, driver, seen, queue, sem>>

DoCcmd == DoRegister(CCMD, CcmdScope(regs[CCMD]))

DoIotlb == DoRegister(IOTLB(hw), IotlbScope(hw, regs[hw.iva], regs[IOTLB(hw)]))

(* A store leaves the write buffer. *)
Drain(t) ==
  /\ seen[t] # table[t]
  /\ seen' = [seen EXCEPT ![t] = table[t]]
  /\ UNCHANGED <<hw, driver, queue, regs, sem, contexts, tlb, walk>>

CacheContext(x) ==
  /\ context[x] # None
  /\ \A e \in contexts : e[1] # x
  /\ contexts' = contexts \cup {<<x, context[x]>>}
  /\ UNCHANGED <<hw, driver, seen, queue, regs, sem, tlb, walk>>

(* A device's access misses the IOTLB: the tables are read now, and the    *)
(* result is cached (and used) later.                                      *)
StartWalk(x, e, page) ==
  /\ e \in contexts /\ e[1] = x
  /\ walk[x] = None
  /\ \A t \in tlb : ~ (t.did = e[2] /\ t.page = page)
  /\ walk' = [walk EXCEPT ![x] = [did |-> e[2], page |-> page, frame |-> seen[<<e[2], page>>]]]
  /\ UNCHANGED <<hw, driver, seen, queue, regs, sem, contexts, tlb>>

FinishWalk(x) ==
  /\ walk[x] # None
  /\ tlb' = IF walk[x].frame # None \/ "cm" \in hw.built THEN tlb \cup {walk[x]} ELSE tlb
  /\ walk' = [walk EXCEPT ![x] = None]
  /\ UNCHANGED <<hw, driver, seen, queue, regs, sem, contexts>>

(* A cache may drop an entry at any time. *)
Evict ==
  /\ \/ \E e \in tlb : tlb' = tlb \ {e} /\ UNCHANGED contexts
     \/ \E e \in contexts : contexts' = contexts \ {e} /\ UNCHANGED tlb
  /\ UNCHANGED <<hw, driver, seen, queue, regs, sem, walk>>

---------------------------------------------------------------------------
Change(d) ==
  \/ \E did \in Dids, p \in PageAddrs, f \in Frames : Map(d, did, p, f)
  \/ \E did \in Dids, r \in Ranges : Unmap(d, did, r)
  \/ \E x \in Sids : Detach(d, x)

Continue(d) ==
  \/ Submit(d) \/ PollSemaphore(d)
  \/ WriteRegister(d) \/ PollRegister(d)
  \/ Finish(d)

Registers == DoFlush \/ DoCcmd \/ DoIotlb

Oldest == queue # << >> /\ Execute(1)

Device ==
  \/ Evict
  \/ \E t \in DOMAIN seen : Drain(t)
  \/ \E x \in Sids : \/ CacheContext(x)
                     \/ \E e \in contexts, p \in PageAddrs : StartWalk(x, e, p)
                     \/ FinishWalk(x)

Next ==
  \/ \E d \in Drivers : Change(d) \/ Continue(d) \/ Spin(d)
  \/ \E x \in Sids, did \in Dids : Attach(x, did)
  \/ \E n \in DOMAIN queue : Execute(n)
  \/ Registers
  \/ Device

Spec == Init /\ [][Next]_vars

(* A thread runs on and gets the registers when it asks for them often     *)
(* enough; the IOMMU processes the oldest command and what its registers   *)
(* are asked for.                                                          *)
Fairness ==
  /\ \A d \in Drivers : SF_vars(Continue(d))
  /\ WF_vars(Oldest)
  /\ WF_vars(Registers)

FairSpec == Spec /\ Fairness

---------------------------------------------------------------------------
(* The IOMMU stores completions to the semaphores and nowhere else, and    *)
(* only values a driver waits for.                                         *)
TypeOK ==
  /\ context \in [Sids -> Dids \cup {None}]
  /\ DOMAIN table = Dids \X PageAddrs /\ DOMAIN seen = DOMAIN table
  /\ free \subseteq Frames
  /\ lock \in Drivers \cup {None}
  /\ sem \in [{Semaphore[d] : d \in Drivers} -> Tickets]
  /\ \A e \in tlb : e.did \in Dids /\ e.page \in PageAddrs /\ e.frame \in Frames \cup {None}

(* Hardware h, sent the prepared command c, flushes its write buffers;     *)
(* through the registers: and shows in the bit polled that it is at it.    *)
Flushes(c) ==
  /\ c.via = "registers" /\ c.busy = [at |-> GSTS, bit |-> Gsts.WBFS]
  /\ Len(c.writes) = 1 /\ c.writes[1].at = GCMD /\ Gsts.WBFS \in c.writes[1].word

(* ... drops the translation of a page.  A command that does not store to  *)
(* IVA must not depend on what is there.                                   *)
DropsByRegister(h, c, did, page) ==
  LET n == Len(c.writes)
      s == IotlbScope(h, IF n = 1 THEN {} ELSE c.writes[1].word, c.writes[n].word)
  IN  /\ c.via = "registers" /\ c.busy = [at |-> IOTLB(h), bit |-> Start]
      /\ n \in {1, 2} /\ c.writes[n].at = IOTLB(h) /\ Start \in c.writes[n].word
      /\ IF n = 1 THEN s.op \in {"all", "domain"} ELSE c.writes[1].at = h.iva
      /\ Covers(s, did, page)

Drops(h, c, did, page) ==
  (c.via = "queue" /\ Covers(c.scope, did, page)) \/ DropsByRegister(h, c, did, page)

(* ... drops the context of a device. *)
ForgetsByRegister(c, sid) ==
  /\ c.via = "registers" /\ c.busy = [at |-> CCMD, bit |-> Start]
  /\ Len(c.writes) = 1 /\ c.writes[1].at = CCMD /\ Start \in c.writes[1].word
  /\ DropsContext(CcmdScope(c.writes[1].word), sid)

Forgets(c, sid) == (c.via = "queue" /\ DropsContext(c.scope, sid)) \/ ForgetsByRegister(c, sid)

(* The capabilities are those built in, the registers are apart, and each  *)
(* word makes the IOMMU do what the driver prepared it for.                *)
Fits(h) ==
  /\ "rwbf" \in h.built => NeedsFlush(h)
  /\ "cm" \in h.built => InvalidateOnMap(h)
  /\ GSTS \notin {CCMD, h.iva, IOTLB(h)} /\ CCMD \notin {h.iva, IOTLB(h)} /\ h.iva # IOTLB(h)
  /\ NeedsFlush(h) => Flushes(Prepared(h, FlushWrites))
  /\ \A did \in Dids, p \in PageAddrs :
       /\ Drops(h, Prepared(h, Domain(did)), did, p)
       /\ \A r \in Ranges \cup {[base |-> p, order |-> 0]} :
            PageSelective(h, r.order) /\ InRange(p, r.base, r.order)
              => Drops(h, Prepared(h, Pages(did, r.base, r.order)), did, p)
  /\ \A did \in Dids, x \in Sids : Forgets(Prepared(h, Context(did, x)), x)
  /\ Queued(h) =>
       /\ Holds(Prepared(h, Fence).scope) /\ ~ Completes(Prepared(h, Fence).scope)
       /\ \A d \in Drivers, t \in Tickets :
            LET s == Prepared(h, Wait(Semaphore[d], t)).scope
            IN  Completes(s) /\ s.addr = Semaphore[d] /\ s.data = t

(* Capability getters, register offsets and words, taken one at a time,    *)
(* are what the IOMMUs expect: the driver is told what is built in, and    *)
(* each command built by the crates is read back as the one it stands for. *)
(* The hardware stays what it was at the start.                            *)
WordsFit == Fits(hw) /\ [][UNCHANGED hw]_vars

Translations == tlb \cup ({walk[x] : x \in Sids} \ {None})

(* No device can reach a frame after the driver has been told that its     *)
(* invalidation is complete and has given the frame back, whatever it has  *)
(* in the caches or under way.                                             *)
FreedFramesUnreachable == \A e \in Translations : e.frame \notin free

(* A device never uses another translation than the one in the tables,     *)
(* unless a thread is still working on that very page: a completed change  *)
(* has taken effect, for mappings (a cached `absent' is gone) as well as   *)
(* for unmappings.  An access under way that found nothing may still fault *)
(* once.                                                                   *)
CompletedChangesVisible ==
  \A e \in tlb \cup {t \in Translations : t.frame # None} :
    \/ e.frame = table[<<e.did, e.page>>]
    \/ ~ Unclaimed(e.did, {e.page})

(* Every change comes to an end: each thread sees its semaphore or         *)
(* register say so.                                                        *)
ChangesComplete == \A d \in Drivers : (job[d].kind # "idle") ~> (job[d].kind = "idle")
===========================================================================
