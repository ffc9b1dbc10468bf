------------------------ MODULE InvalidationProofs ------------------------
(***************************************************************************)
(* Each step of Invalidation preserves Inv, the crates' words fit, and Inv *)
(* implies the properties that the model is about.                         *)
(***************************************************************************)
EXTENDS InvalidationAhead, CodecProofs

---------------------------------------------------------------------------
(* Caches and tables.  A quiet step leaves the tables and all claims as    *)
(* they are, adds nothing to the caches, and whatever still needs to be    *)
(* dropped or flushed afterwards is still going to be.                     *)
QuietTables ==
  /\ SameClaims
  /\ hw' = hw /\ table' = table /\ free' = free
  /\ \A t \in Translations' : t \in Translations
  /\ \A t \in tlb' : t \in tlb \/ Usable(t.frame)
  /\ \A did \in Dids, p \in PageAddrs :
       seen'[<<did, p>>] \in {seen[<<did, p>>], table[<<did, p>>]}
  /\ \A e \in Drivers :
       /\ \A t \in Translations' : WillDrop(e, t.did, t.page) => WillDrop(e, t.did, t.page)'
       /\ \A did \in Dids, p \in PageAddrs :
            seen'[<<did, p>>] # table[<<did, p>>] =>
              \A f : WillFlush(e, f, did, p) => WillFlush(e, f, did, p)'

Quiet ==
  /\ QuietTables
  /\ context' = context /\ contexts' \subseteq contexts
  /\ \A e \in Drivers : \A t \in contexts' :
       WillForget(e, t[1], t[2]) => WillForget(e, t[1], t[2])'

Coherent == Apart /\ Owned /\ Seen /\ Stale /\ Contexts

LEMMA ClaimsKept ==
  ASSUME SameClaims, NEW d \in Drivers
  PROVE  /\ \A did, p : Claims(d, did, p)' = Claims(d, did, p)
         /\ \A f : Leaves(d, f)' = Leaves(d, f)
  BY DEF SameClaims, Claims, Leaves

LEMMA TablesCoherent ==
  ASSUME Coherent, QuietTables
  PROVE  Apart' /\ Owned' /\ Seen' /\ Stale'
<1> USE DEF Coherent
<1>1. Apart'
  BY DEF Apart, QuietTables, SameClaims
<1>2. Owned'
  BY DEF Owned, QuietTables, SameClaims
<1>3. Seen'
  <2>1. SUFFICES ASSUME NEW did \in Dids, NEW p \in PageAddrs,
                        seen'[<<did, p>>] # table'[<<did, p>>]
                 PROVE  \E d \in Drivers :
                          /\ Claims(d, did, p)' /\ Leaves(d, seen[<<did, p>>])'
                          /\ WillFlush(d, seen[<<did, p>>], did, p)'
    BY DEF Seen
  <2>2. PICK f : f = seen[<<did, p>>]
    OBVIOUS
  <2>3. seen'[<<did, p>>] = f /\ f # table[<<did, p>>] /\ table' = table
    BY <2>1, <2>2 DEF QuietTables
  <2>4. PICK d \in Drivers : Claims(d, did, p) /\ Leaves(d, f) /\ WillFlush(d, f, did, p)
    BY <2>2, <2>3 DEF Seen
  <2>5. WillFlush(d, f, did, p)'
    BY <2>1, <2>3, <2>4 DEF QuietTables
  <2>6. Claims(d, did, p)' /\ Leaves(d, f)'
    BY <2>4, ClaimsKept DEF QuietTables
  <2> QED BY <2>3, <2>5, <2>6
<1>4. Stale'
  <2>1. \A f : Usable(f)' = Usable(f)
    BY DEF Usable, QuietTables
  <2>2. ASSUME NEW t \in Translations', Usable(t.frame)', t.frame # table'[<<t.did, t.page>>]
        PROVE  \E d \in Drivers : /\ Claims(d, t.did, t.page)' /\ Leaves(d, t.frame)'
                                  /\ WillDrop(d, t.did, t.page)'
    <3>1. t \in Translations /\ t.frame # table[<<t.did, t.page>>] /\ Usable(t.frame)
      BY <2>1, <2>2 DEF QuietTables
    <3>2. PICK d \in Drivers : /\ Claims(d, t.did, t.page) /\ Leaves(d, t.frame)
                               /\ WillDrop(d, t.did, t.page)
      BY <3>1 DEF Stale
    <3>3. WillDrop(d, t.did, t.page)'
      BY <3>2 DEF QuietTables
    <3>4. Claims(d, t.did, t.page)' /\ Leaves(d, t.frame)'
      BY <3>2, ClaimsKept DEF QuietTables
    <3> QED BY <3>3, <3>4
  <2>3. ASSUME NEW t \in Translations', t.frame # None,
               NEW d \in Drivers, job'[d].kind = "detach", job'[d].did = t.did
        PROVE  WillDrop(d, t.did, t.page)'
    <3>1. t \in Translations /\ job[d].kind = "detach" /\ job[d].did = t.did
      BY <2>3 DEF QuietTables, SameClaims
    <3>2. WillDrop(d, t.did, t.page)
      BY <2>3, <3>1 DEF Stale
    <3> QED BY <3>2 DEF QuietTables
  <2>4. ASSUME NEW t \in Translations', t \in tlb' PROVE Usable(t.frame)'
    BY <2>1, <2>4 DEF QuietTables, Stale
  <2> QED BY <2>2, <2>3, <2>4 DEF Stale
<1> QED BY <1>1, <1>2, <1>3, <1>4

LEMMA QuietCoherent ==
  ASSUME Coherent, Quiet
  PROVE  Coherent'
<1> USE DEF Coherent
<1>1. Apart' /\ Owned' /\ Seen' /\ Stale'
  BY TablesCoherent DEF Quiet
<1>2. Contexts'
  <2>1. ASSUME NEW t \in contexts', t[2] # context'[t[1]]
        PROVE  \E d \in Drivers : /\ job'[d].kind = "detach" /\ job'[d].did = t[2]
                                  /\ WillForget(d, t[1], t[2])'
    <3>1. t \in contexts /\ t[2] # context[t[1]]
      BY <2>1 DEF Quiet, QuietTables
    <3>2. PICK d \in Drivers : /\ job[d].kind = "detach" /\ job[d].did = t[2]
                               /\ WillForget(d, t[1], t[2])
      BY <3>1 DEF Contexts
    <3>3. WillForget(d, t[1], t[2])'
      BY <3>2 DEF Quiet, QuietTables
    <3> QED BY <3>2, <3>3 DEF Quiet, QuietTables, SameClaims
  <2>2. ASSUME NEW d \in Drivers, job'[d].kind = "detach", NEW x \in Sids
        PROVE  context'[x] # job'[d].did
    BY <2>2 DEF Contexts, Quiet, QuietTables, SameClaims
  <2> QED BY <2>1, <2>2 DEF Contexts
<1> QED BY <1>1, <1>2

---------------------------------------------------------------------------
(* Quiet steps. *)
LEMMA TwoTickets ==
  /\ FirstTicket \in Tickets
  /\ \A t \in Tickets : Other(t) \in Tickets /\ Other(t) # t
<1>1. Cardinality(Tickets) = 2
  BY InvalidationAssumption
<1>2. Tickets # {}
  BY <1>1, FS_EmptySet
<1>3. ASSUME NEW t \in Tickets PROVE \E u \in Tickets : u # t
  <2>1. SUFFICES ASSUME \A u \in Tickets : u = t PROVE FALSE
    OBVIOUS
  <2>2. Tickets = {t}
    BY <2>1
  <2>3. Cardinality({t}) = 1
    BY FS_Singleton
  <2> QED BY <1>1, <2>2, <2>3
<1> QED BY <1>2, <1>3 DEF FirstTicket, Other

LEMMA SubmitKeeps ==
  ASSUME Inv, NEW d \in Drivers, Submit(d)
  PROVE  Jobs' /\ SameClaims /\ \A e \in Drivers : Keeps(e)
<1>1. IsSeq(job[d].todo) /\ job[d].todo # << >> /\ job[d].ticket \in Tickets
  BY DEF Inv, Jobs, Job, Submit, Working
<1>2. /\ Command(d) = job[d].todo[1] /\ Command(d).via = "queue"
      /\ IsSeq(Tail(job[d].todo)) /\ job[d].kind # "idle"
  BY <1>1, SeqTail DEF Inv, Jobs, Job, Submit, Command
<1>3. hw' = hw /\ regs' = regs
  BY DEF Submit
<1>4. \A e \in Drivers : KeepsQueue(e)
  BY SubmitKeepsQueue DEF Inv
<1>5. RegistersSame
  BY <1>3, RegistersUnchanged
<1>6. CASE Command(d).op = "wait"
  <2>1. Stepped(d, job[d].todo, 1, Other(job[d].ticket))
    BY <1>6, SubmitIs DEF Inv
  <2>2. Jobs' /\ SameClaims
    BY <1>1, <1>2, <2>1, SteppedJobs, TwoTickets DEF Inv
  <2>3. ASSUME NEW e \in Drivers PROVE KeepsRegisters(e)
    <3>1. job'[e].todo = job[e].todo
          /\ (job'[e].step = job[e].step \/ job[e].todo[1].via = "queue")
      BY <1>2, <2>1 DEF Stepped
    <3> QED BY <1>3, <1>5, <3>1, SameKeepsRegisters
  <2> QED BY <1>4, <2>2, <2>3, KeepsBoth
<1>7. CASE Command(d).op # "wait"
  <2>1. Stepped(d, Tail(job[d].todo), 0, job[d].ticket) /\ Advance(d)
    BY <1>7, SubmitIs DEF Inv, Submit
  <2>2. Jobs' /\ SameClaims
    BY <1>1, <1>2, <2>1, SteppedJobs DEF Inv
  <2>3. ASSUME NEW e \in Drivers, e # d PROVE KeepsRegisters(e)
    <3>1. job'[e] = job[e]
      BY <2>1, <2>3 DEF Stepped
    <3> QED BY <1>3, <1>5, <3>1, SameKeepsRegisters
  <2>4. KeepsRegisters(d)
    <3>1. Jobs /\ DOMAIN regs = {GSTS, CCMD, hw.iva, IOTLB(hw)} /\ Working(d)
      BY DEF Inv, Types, Submit
    <3> QED BY <1>2, <1>3, <2>1, <3>1, AdvanceKeepsRegisters
  <2> QED BY <1>4, <2>2, <2>3, <2>4, KeepsBoth
<1> QED BY <1>6, <1>7

LEMMA PollKeeps ==
  ASSUME Inv, NEW d \in Drivers, PollSemaphore(d) \/ PollRegister(d)
  PROVE  Jobs' /\ SameClaims /\ \A e \in Drivers : Keeps(e)
<1>1. IsSeq(job[d].todo) /\ job[d].todo # << >> /\ job[d].ticket \in Tickets
  BY DEF Inv, Jobs, Job, PollSemaphore, PollRegister, Polling, Working
<1>2. /\ Command(d) = job[d].todo[1] /\ IsSeq(Tail(job[d].todo)) /\ job[d].kind # "idle"
  BY <1>1, SeqTail DEF Inv, Jobs, Job, Command
<1>3. hw' = hw /\ regs' = regs /\ queue' = queue /\ Working(d) /\ Advance(d)
  BY DEF PollSemaphore, PollRegister, Polling
<1>4. Stepped(d, Tail(job[d].todo), 0, job[d].ticket)
  BY <1>3, AdvanceIs DEF Inv
<1>5. Jobs' /\ SameClaims
  BY <1>1, <1>2, <1>4, SteppedJobs DEF Inv
<1>6. Unsent(d, 1) = Nothing
  BY <1>2 DEF Unsent, PollSemaphore, PollRegister, Polling
<1>7. \A e \in Drivers : KeepsQueue(e)
  BY <1>3, <1>6, AdvanceKeepsQueue DEF Inv
<1>8. ASSUME NEW e \in Drivers, e # d PROVE KeepsRegisters(e)
  <2>1. job'[e] = job[e]
    BY <1>4, <1>8 DEF Stepped
  <2> QED BY <1>3, <2>1, SameKeepsRegisters, RegistersUnchanged
<1>9. KeepsRegisters(d)
  <2>1. Command(d).via # "queue" =>
           /\ job[d].step = Len(Command(d).writes)
           /\ Command(d).busy.bit \notin ReadRegister(Command(d).busy.at)
    BY DEF PollSemaphore, PollRegister, Polling
  <2>2. Jobs /\ DOMAIN regs = {GSTS, CCMD, hw.iva, IOTLB(hw)}
    BY DEF Inv, Types
  <2> QED BY <1>3, <2>1, <2>2, AdvanceKeepsRegisters
<1> QED BY <1>5, <1>7, <1>8, <1>9, KeepsBoth

LEMMA WriteKeeps ==
  ASSUME Inv, Fits(hw), NEW d \in Drivers, WriteRegister(d)
  PROVE  Jobs' /\ SameClaims /\ \A e \in Drivers : Keeps(e)
<1>1. IsSeq(job[d].todo) /\ job[d].ticket \in Tickets /\ job[d].step + 1 \in Nat
  BY DEF Inv, Jobs, Job
<1>2. job[d].kind # "idle" /\ job[d].todo # << >> /\ queue' = queue /\ Command(d).via = "registers"
  BY DEF Inv, Jobs, Job, WriteRegister, Working
<1>3. Stepped(d, job[d].todo, job[d].step + 1, job[d].ticket)
  BY WriteIs DEF Inv
<1>4. Jobs' /\ SameClaims
  BY <1>1, <1>2, <1>3, SteppedJobs DEF Inv
<1>5. job[d].todo[1].via = "registers"
  BY <1>1, <1>2, SeqTail DEF Command
<1>6. ASSUME NEW e \in Drivers PROVE KeepsQueue(e)
  <2>1. job'[e].todo = job[e].todo
    BY <1>3 DEF Stepped
  <2>2. \A i : Unsent(e, i)' = Unsent(e, i)
    <3>1. CASE e # d
      <4>1. job'[e] = job[e]
        BY <1>3, <3>1 DEF Stepped
      <4> QED BY <4>1 DEF Unsent
    <3>2. CASE e = d
      BY <1>5, <2>1, <3>2 DEF Unsent
    <3> QED BY <3>1, <3>2
  <2> QED BY <1>2, <2>1, <2>2, SameKeepsQueue
<1>7. \A e \in Drivers : KeepsRegisters(e)
  BY WriteKeepsRegisters DEF Inv
<1> QED BY <1>4, <1>6, <1>7, KeepsBoth

(* A thread goes on with its job. *)
LEMMA ThreadQuiet ==
  ASSUME Inv, Fits(hw), NEW d \in Drivers,
         Submit(d) \/ PollSemaphore(d) \/ WriteRegister(d) \/ PollRegister(d)
  PROVE  Jobs' /\ Quiet
<1>1. Jobs' /\ SameClaims /\ \A e \in Drivers : Keeps(e)
  BY SubmitKeeps, PollKeeps, WriteKeeps
<1>2. UNCHANGED <<hw, context, table, seen, free, contexts, tlb, walk>>
  BY DEF Submit, PollSemaphore, WriteRegister, PollRegister
<1>3. Translations' = Translations
  BY <1>2 DEF Translations
<1> QED BY <1>1, <1>2, <1>3 DEF Quiet, QuietTables, Keeps

LEMMA SameJobs ==
  ASSUME Jobs, job' = job
  PROVE  Jobs' /\ SameClaims
<1>1. Jobs'
  BY DEF Jobs
<1> QED BY DEF Jobs, SameClaims

(* The IOMMU carries out a command of the queue. *)
LEMMA ExecuteQuiet ==
  ASSUME Inv, NEW r \in 1 .. Len(queue), Execute(r)
  PROVE  Quiet
<1>1. job' = job /\ UNCHANGED <<hw, context, table, free, seen, regs>> /\ Invalidate(queue[r])
  BY DEF Execute, driver
<1>2. SameClaims
  BY <1>1, SameJobs DEF Inv
<1>3. /\ \A t \in Translations' : t \in Translations /\ ~ Covers(queue[r], t.did, t.page)
      /\ tlb' \subseteq tlb
      /\ \A t \in contexts' : t \in contexts /\ ~ DropsContext(queue[r], t[1])
  BY <1>1, InvalidateDrops DEF Inv
<1>4. ASSUME NEW e \in Drivers PROVE KeepsRegisters(e)
  BY <1>1, SameKeepsRegisters, RegistersUnchanged
<1>5. ASSUME NEW e \in Drivers, NEW t \in Translations', WillDrop(e, t.did, t.page)
      PROVE  WillDrop(e, t.did, t.page)'
  <2>1. CASE QueueDrops(e, t.did, t.page)
    <3>1. QueueDrops(e, t.did, t.page)' \/ Covers(queue[r], t.did, t.page)
      BY <2>1, ExecuteKeepsQueue DEF Inv
    <3> QED BY <1>3, <3>1 DEF WillDrop
  <2>2. CASE RegistersDrop(e, t.did, t.page)
    BY <1>4, <2>2 DEF KeepsRegisters, WillDrop
  <2> QED BY <1>5, <2>1, <2>2 DEF WillDrop
<1>6. ASSUME NEW e \in Drivers, NEW t \in contexts', WillForget(e, t[1], t[2])
      PROVE  WillForget(e, t[1], t[2])'
  <2>1. CASE QueueForgets(e, t[1], t[2])
    <3>1. QueueForgets(e, t[1], t[2])' \/ DropsContext(queue[r], t[1])
      BY <2>1, ExecuteKeepsQueue DEF Inv
    <3> QED BY <1>3, <3>1 DEF WillForget
  <2>2. CASE RegistersForget(e, t[1], t[2])
    BY <1>4, <2>2 DEF KeepsRegisters, WillForget
  <2> QED BY <1>6, <2>1, <2>2 DEF WillForget
<1>7. ASSUME NEW e \in Drivers, NEW f, NEW did, NEW p, WillFlush(e, f, did, p)
      PROVE  WillFlush(e, f, did, p)'
  BY <1>4, <1>7 DEF KeepsRegisters
<1> QED BY <1>1, <1>2, <1>3, <1>5, <1>6, <1>7 DEF Quiet, QuietTables

(* The IOMMU does what a register asks for. *)
LEMMA RegistersQuiet ==
  ASSUME Inv, Fits(hw), Registers
  PROVE  Quiet
<1>1. job' = job /\ UNCHANGED <<hw, context, table, free, queue>>
  BY DEF Registers, DoFlush, DoCcmd, DoIotlb, DoRegister, driver
<1>2. SameClaims
  BY <1>1, SameJobs DEF Inv
<1>3. ASSUME NEW e \in Drivers PROVE KeepsQueue(e)
  <2>1. \A i : Unsent(e, i)' = Unsent(e, i)
    BY <1>1 DEF Unsent
  <2> QED BY <1>1, <2>1, SameKeepsQueue
<1>4. CASE DoFlush
  <2>1. seen' = table /\ UNCHANGED <<contexts, tlb, walk>>
    BY <1>4 DEF DoFlush
  <2>2. Translations' = Translations
    BY <2>1 DEF Translations
  <2>3. ASSUME NEW e \in Drivers
        PROVE  /\ \A did, p : RegistersDrop(e, did, p) => RegistersDrop(e, did, p)'
               /\ \A x, did : RegistersForget(e, x, did) => RegistersForget(e, x, did)'
    BY <1>1, <1>4, IommuKeepsRegisters, FlushKeepsOthers DEF Inv
  <2>4. ASSUME NEW e \in Drivers
        PROVE  /\ \A did, p : WillDrop(e, did, p) => WillDrop(e, did, p)'
               /\ \A x, did : WillForget(e, x, did) => WillForget(e, x, did)'
    BY <1>3, <2>3 DEF KeepsQueue, WillDrop, WillForget
  <2> QED BY <1>1, <1>2, <2>1, <2>2, <2>4 DEF Quiet, QuietTables
<1>5. CASE DoCcmd
  <2>1. PICK c : c = CcmdScope(regs[CCMD])
    OBVIOUS
  <2>2. seen' = seen /\ Invalidate(c)
    BY <1>5, <2>1 DEF DoCcmd, DoRegister
  <2>3. /\ \A t \in Translations' : t \in Translations /\ ~ Covers(c, t.did, t.page)
        /\ tlb' \subseteq tlb
        /\ \A t \in contexts' : t \in contexts /\ ~ DropsContext(c, t[1])
    BY <2>2, InvalidateDrops DEF Inv
  <2>4. ASSUME NEW e \in Drivers
        PROVE  /\ \A did, p : RegistersDrop(e, did, p) => RegistersDrop(e, did, p)'
               /\ \A f, did, p : WillFlush(e, f, did, p) => WillFlush(e, f, did, p)'
               /\ \A x, did : RegistersForget(e, x, did) =>
                    RegistersForget(e, x, did)' \/ InCcmd(x)
    BY <1>1, <1>5, IommuKeepsRegisters, CcmdKeepsOthers DEF Inv
  <2>5. ASSUME NEW e \in Drivers, NEW t \in contexts', WillForget(e, t[1], t[2])
        PROVE  WillForget(e, t[1], t[2])'
    <3>1. ~ InCcmd(t[1])
      BY <2>1, <2>3 DEF InCcmd
    <3> QED BY <1>3, <2>4, <2>5, <3>1 DEF KeepsQueue, WillForget
  <2>6. ASSUME NEW e \in Drivers
        PROVE  \A did, p : WillDrop(e, did, p) => WillDrop(e, did, p)'
    BY <1>3, <2>4 DEF KeepsQueue, WillDrop
  <2> QED BY <1>1, <1>2, <2>2, <2>3, <2>4, <2>5, <2>6 DEF Quiet, QuietTables
<1>6. CASE DoIotlb
  <2>1. PICK c : c = IotlbScope(hw, regs[hw.iva], regs[IOTLB(hw)])
    OBVIOUS
  <2>2. seen' = seen /\ Invalidate(c)
    BY <1>6, <2>1 DEF DoIotlb, DoRegister
  <2>3. /\ \A t \in Translations' : t \in Translations /\ ~ Covers(c, t.did, t.page)
        /\ tlb' \subseteq tlb
        /\ \A t \in contexts' : t \in contexts /\ ~ DropsContext(c, t[1])
    BY <2>2, InvalidateDrops DEF Inv
  <2>4. ASSUME NEW e \in Drivers
        PROVE  /\ \A did, p : RegistersDrop(e, did, p) =>
                    RegistersDrop(e, did, p)' \/ InIotlb(did, p)
               /\ \A f, did, p : WillFlush(e, f, did, p) => WillFlush(e, f, did, p)'
               /\ \A x, did : RegistersForget(e, x, did) => RegistersForget(e, x, did)'
    BY <1>1, <1>6, IommuKeepsRegisters, IotlbKeepsOthers DEF Inv
  <2>5. ASSUME NEW e \in Drivers, NEW t \in Translations', WillDrop(e, t.did, t.page)
        PROVE  WillDrop(e, t.did, t.page)'
    <3>1. ~ InIotlb(t.did, t.page)
      BY <2>1, <2>3 DEF InIotlb
    <3> QED BY <1>3, <2>4, <2>5, <3>1 DEF KeepsQueue, WillDrop
  <2>6. ASSUME NEW e \in Drivers
        PROVE  \A x, did : WillForget(e, x, did) => WillForget(e, x, did)'
    BY <1>3, <2>4 DEF KeepsQueue, WillForget
  <2> QED BY <1>1, <1>2, <2>2, <2>3, <2>4, <2>5, <2>6 DEF Quiet, QuietTables
<1> QED BY <1>4, <1>5, <1>6 DEF Registers

(* Write buffers drain, caches drop entries, walks come to an end. *)
LEMMA DeviceQuiet ==
  ASSUME Inv, \/ Evict
              \/ \E t \in DOMAIN seen : Drain(t)
              \/ \E x \in Sids : FinishWalk(x)
  PROVE  Quiet
<1>1. job' = job /\ UNCHANGED <<hw, context, table, free, queue, regs>>
  BY DEF Evict, Drain, FinishWalk, driver
<1>2. SameClaims
  BY <1>1, SameJobs DEF Inv
<1>3. \A e \in Drivers : Keeps(e)
  BY <1>1, BystanderKeeps
<1>4. CASE Evict
  <2>1. tlb' \subseteq tlb /\ contexts' \subseteq contexts /\ walk' = walk /\ seen' = seen
    BY <1>4 DEF Evict
  <2>2. Translations' \subseteq Translations
    BY <2>1 DEF Translations
  <2> QED BY <1>1, <1>2, <1>3, <2>1, <2>2 DEF Quiet, QuietTables, Keeps
<1>5. CASE \E t \in DOMAIN seen : Drain(t)
  <2>1. PICK t \in DOMAIN seen : Drain(t)
    BY <1>5
  <2>2. seen' = [seen EXCEPT ![t] = table[t]] /\ UNCHANGED <<tlb, contexts, walk>>
    BY <2>1 DEF Drain
  <2>3. \A u \in Dids \X PageAddrs : seen'[u] \in {seen[u], table[u]}
    BY <2>2 DEF Inv, Types
  <2>4. Translations' = Translations
    BY <2>2 DEF Translations
  <2> QED BY <1>1, <1>2, <1>3, <2>2, <2>3, <2>4 DEF Quiet, QuietTables, Keeps
<1>6. CASE \E x \in Sids : FinishWalk(x)
  <2>1. PICK x \in Sids : FinishWalk(x)
    BY <1>6
  <2>2. /\ walk[x] # None /\ walk' = [walk EXCEPT ![x] = None]
        /\ tlb' = IF Usable(walk[x].frame) THEN tlb \cup {walk[x]} ELSE tlb
        /\ UNCHANGED <<seen, contexts>>
    BY <2>1 DEF FinishWalk, Usable
  <2>3. \A y \in Sids : walk'[y] = walk[y] \/ walk'[y] = None
    BY <2>2 DEF Inv, Types
  <2>4. walk[x] \in Translations
    BY <2>2 DEF Translations
  <2>5. \A t \in tlb' : t \in tlb \/ (t = walk[x] /\ Usable(t.frame))
    BY <2>2
  <2>6. \A t \in Translations' : t \in Translations
    BY <2>3, <2>4, <2>5 DEF Translations
  <2> QED BY <1>1, <1>2, <1>3, <2>2, <2>5, <2>6 DEF Quiet, QuietTables, Keeps
<1> QED BY <1>4, <1>5, <1>6

---------------------------------------------------------------------------
(* Steps that read the tables or change who uses them. *)

(* Only one thread at a time gives up a domain. *)
LEMMA OneDetach ==
  ASSUME Inv, NEW d \in Drivers, NEW e \in Drivers, job[d].kind = "detach",
         job[e].kind = "detach", job[d].did = job[e].did
  PROVE  d = e
  BY InvalidationAssumption DEF Inv, Jobs, Job, Apart

LEMMA StartWalkCoherent ==
  ASSUME Inv, NEW x \in Sids, NEW c \in contexts, NEW p \in PageAddrs, StartWalk(x, c, p)
  PROVE  Coherent'
<1>1. /\ job' = job
      /\ UNCHANGED <<hw, context, table, free, queue, regs, seen, contexts, tlb>>
  BY DEF StartWalk, driver
<1>2. PICK did : did = c[2]
  OBVIOUS
<1>3. did \in Dids /\ c[1] = x
  BY <1>2 DEF Inv, Types, StartWalk
<1>4. PICK f : f = seen[<<did, p>>]
  OBVIOUS
<1>5. PICK t : t = [did |-> did, page |-> p, frame |-> f]
  OBVIOUS
<1>6. t.did = did /\ t.page = p /\ t.frame = f
  BY <1>5
<1>7. walk' = [walk EXCEPT ![x] = t]
  BY <1>2, <1>4, <1>5 DEF StartWalk
<1>8. \A u \in Translations' : u \in Translations \/ u = t
  BY <1>1, <1>7 DEF Translations, Inv, Types
<1>9. \A e \in Drivers : Keeps(e)
  BY <1>1, BystanderKeeps
<1>10. SameClaims
  BY <1>1, SameJobs DEF Inv
<1>11. Apart' /\ Owned'
  BY <1>1 DEF Inv, Apart, Owned
<1>12. Seen'
  <2>1. \A e \in Drivers : \A g, i, q :
          /\ Claims(e, i, q)' = Claims(e, i, q) /\ Leaves(e, g)' = Leaves(e, g)
          /\ WillFlush(e, g, i, q) => WillFlush(e, g, i, q)'
    BY <1>9, <1>10, ClaimsKept DEF Keeps
  <2>2. SUFFICES ASSUME NEW i \in Dids, NEW q \in PageAddrs,
                        seen'[<<i, q>>] # table'[<<i, q>>]
                 PROVE  \E e \in Drivers :
                          /\ Claims(e, i, q)' /\ Leaves(e, seen[<<i, q>>])'
                          /\ WillFlush(e, seen[<<i, q>>], i, q)'
    BY DEF Seen
  <2>3. PICK g : g = seen[<<i, q>>]
    OBVIOUS
  <2>4. PICK e \in Drivers : Claims(e, i, q) /\ Leaves(e, g) /\ WillFlush(e, g, i, q)
    BY <1>1, <2>2, <2>3 DEF Inv, Seen
  <2>5. Claims(e, i, q)' /\ Leaves(e, g)' /\ WillFlush(e, g, i, q)'
    BY <2>1, <2>4
  <2> QED BY <1>1, <2>3, <2>5
<1>13. Contexts'
  <2>1. \A e \in Drivers : \A y, i : WillForget(e, y, i) => WillForget(e, y, i)'
    BY <1>9 DEF Keeps
  <2> QED BY <1>1, <2>1 DEF Inv, Contexts
<1>14. Stale'
  <2>1. \A g : Usable(g)' = Usable(g)
    BY <1>1 DEF Usable
  <2>2. ASSUME NEW u \in Translations', Usable(u.frame), u.frame # table[<<u.did, u.page>>]
        PROVE  \E d \in Drivers : /\ Claims(d, u.did, u.page) /\ Leaves(d, u.frame)
                                  /\ WillDrop(d, u.did, u.page)
    <3>1. CASE u \in Translations
      BY <2>2, <3>1 DEF Inv, Stale
    <3>2. CASE u = t
      <4>1. PICK d \in Drivers : /\ Claims(d, did, p) /\ Leaves(d, f) /\ WillFlush(d, f, did, p)
        BY <1>3, <1>4, <1>6, <2>2, <3>2 DEF Inv, Seen
      <4>2. WillDrop(d, did, p)
        BY <1>6, <2>2, <3>2, <4>1, FlushDrops DEF Inv
      <4> QED BY <1>6, <3>2, <4>1, <4>2
    <3> QED BY <1>8, <3>1, <3>2
  <2>3. ASSUME NEW u \in Translations', u.frame # None,
               NEW d \in Drivers, job[d].kind = "detach", job[d].did = u.did
        PROVE  WillDrop(d, u.did, u.page)
    <3>1. CASE u \in Translations
      BY <2>3, <3>1 DEF Inv, Stale
    <3>2. CASE u = t
      <4>1. c[2] # context[c[1]]
        BY <1>2, <1>3, <1>6, <2>3, <3>2 DEF Inv, Contexts
      <4>2. PICK e \in Drivers : /\ job[e].kind = "detach" /\ job[e].did = c[2]
                                 /\ WillForget(e, c[1], c[2])
        BY <4>1 DEF Inv, Contexts
      <4>3. e = d
        BY <1>2, <1>6, <2>3, <3>2, <4>2, OneDetach
      <4>4. WillDrop(d, did, p)
        BY <1>2, <4>2, <4>3, ForgetDrops DEF Inv
      <4> QED BY <1>6, <3>2, <4>4
    <3> QED BY <1>8, <3>1, <3>2
  <2>4. \A u \in Translations' : u \in tlb => Usable(u.frame)
    BY DEF Inv, Stale, Translations
  <2>5. \A d \in Drivers : \A i, q, g :
          /\ Claims(d, i, q)' = Claims(d, i, q) /\ Leaves(d, g)' = Leaves(d, g)
          /\ WillDrop(d, i, q) => WillDrop(d, i, q)'
    BY <1>9, <1>10, ClaimsKept DEF Keeps
  <2>6. ASSUME NEW u \in Translations', Usable(u.frame)', u.frame # table'[<<u.did, u.page>>]
        PROVE  \E d \in Drivers : /\ Claims(d, u.did, u.page)' /\ Leaves(d, u.frame)'
                                  /\ WillDrop(d, u.did, u.page)'
    BY <1>1, <2>1, <2>2, <2>5, <2>6
  <2> QED BY <1>1, <2>1, <2>3, <2>4, <2>5, <2>6 DEF Stale
<1> QED BY <1>11, <1>12, <1>13, <1>14 DEF Coherent

(* Contexts change or are cached; nothing else does. *)
LEMMA ContextCoherent ==
  ASSUME Inv, job' = job, UNCHANGED <<hw, table, free, queue, regs, seen, tlb, walk>>, Contexts'
  PROVE  Coherent'
<1>1. SameClaims
  BY SameJobs DEF Inv
<1>2. Translations' = Translations
  BY DEF Translations
<1>3. \A e \in Drivers : Keeps(e)
  BY BystanderKeeps
<1>4. QuietTables
  BY <1>1, <1>2, <1>3 DEF QuietTables, Keeps
<1> QED BY <1>4, TablesCoherent DEF Inv, Coherent

LEMMA CacheContextCoherent ==
  ASSUME Inv, NEW x \in Sids, CacheContext(x)
  PROVE  Coherent'
<1>1. job' = job /\ UNCHANGED <<hw, context, table, free, queue, regs, seen, tlb, walk>>
  BY DEF CacheContext, driver
<1>2. contexts' = contexts \cup {<<x, context[x]>>}
  BY DEF CacheContext
<1>3. \A e \in Drivers : \A y, i : WillForget(e, y, i) => WillForget(e, y, i)'
  BY <1>1, BystanderKeeps DEF Keeps
<1>4. Contexts'
  BY <1>1, <1>2, <1>3 DEF Inv, Contexts
<1> QED BY <1>1, <1>4, ContextCoherent

LEMMA AttachCoherent ==
  ASSUME Inv, NEW x \in Sids, NEW did \in Dids, Attach(x, did)
  PROVE  Coherent'
<1>1. /\ job' = job /\ UNCHANGED <<hw, table, free, queue, regs, seen, tlb, walk, contexts>>
      /\ context[x] = None /\ context' = [context EXCEPT ![x] = did] /\ Unclaimed(did, PageAddrs)
  BY DEF Attach
<1>2. \A e \in Drivers : \A y, i : WillForget(e, y, i) => WillForget(e, y, i)'
  BY <1>1, BystanderKeeps DEF Keeps
<1>3. ASSUME NEW t \in contexts, t[2] # context'[t[1]] PROVE t[2] # context[t[1]]
  <2>1. t[1] \in Sids /\ t[2] \in Dids /\ context \in [Sids -> Dids \cup {None}]
    BY DEF Inv, Types
  <2> QED BY <1>1, <1>3, <2>1, InvalidationAssumption
<1>4. ASSUME NEW d \in Drivers, job[d].kind = "detach" PROVE job[d].did # did
  BY <1>1, <1>4, InvalidationAssumption DEF Inv, Jobs, Job, Unclaimed
<1>5. ASSUME NEW d \in Drivers, job[d].kind = "detach", NEW y \in Sids
      PROVE  context'[y] # job[d].did
  <2>1. context[y] # job[d].did /\ context \in [Sids -> Dids \cup {None}]
    BY <1>5 DEF Inv, Contexts, Types
  <2> QED BY <1>1, <1>4, <1>5, <2>1
<1>6. Contexts'
  BY <1>1, <1>2, <1>3, <1>5 DEF Inv, Contexts
<1> QED BY <1>1, <1>6, ContextCoherent

---------------------------------------------------------------------------
(* Jobs begin. *)
Started(d, kind, did, pages, frames, todo) ==
  /\ DOMAIN job' = Drivers
  /\ \A e \in Drivers \ {d} : job'[e] = job[e]
  /\ job'[d] = [kind |-> kind, did |-> did, pages |-> pages, frames |-> frames,
                step |-> 0, todo |-> todo, ticket |-> job[d].ticket]

LEMMA StartsIs ==
  ASSUME Inv, NEW d \in Drivers, NEW kind, NEW did, NEW pages, NEW frames, NEW plan,
         Starts(d, kind, did, pages, frames, plan)
  PROVE  /\ Started(d, kind, did, pages, frames, PreparedPlan(hw, plan))
         /\ job[d].kind = "idle" /\ job[d].pages = {} /\ job[d].frames = {} /\ ~ Working(d)
         /\ Unclaimed(did, pages)
<1>1. DOMAIN job = Drivers /\ job[d].kind = "idle" /\ Unclaimed(did, pages)
  BY DEF Inv, Jobs, Starts
<1>2. Started(d, kind, did, pages, frames, PreparedPlan(hw, plan))
  BY <1>1 DEF Starts, Started, PreparedPlan
<1>3. job[d].pages = {} /\ job[d].frames = {} /\ ~ Working(d)
  BY <1>1 DEF Inv, Jobs, Job, Working
<1> QED BY <1>1, <1>2, <1>3

LEMMA StartedJobs ==
  ASSUME Inv, NEW d \in Drivers, NEW kind \in {"map", "unmap", "detach"}, NEW did \in Dids,
         NEW pages \in SUBSET PageAddrs, NEW frames \in SUBSET Frames, NEW todo,
         IsSeq(todo), kind = "detach" => pages = PageAddrs,
         Started(d, kind, did, pages, frames, todo), Unclaimed(did, pages)
  PROVE  Jobs' /\ Apart'
<1>1. /\ job'[d].kind = kind /\ job'[d].did = did /\ job'[d].pages = pages
      /\ job'[d].frames = frames /\ job'[d].step = 0 /\ job'[d].todo = todo
      /\ job'[d].ticket = job[d].ticket
  BY DEF Started
<1>2. Job(job'[d])
  <2>1. IsJob(job'[d])
    BY DEF IsJob, Started
  <2>2. job[d].ticket \in Tickets
    BY DEF Inv, Jobs, Job
  <2> QED BY <1>1, <2>1, <2>2 DEF Job
<1>3. Jobs'
  BY <1>2 DEF Inv, Jobs, Started
<1>4. Apart'
  <2>1. SUFFICES ASSUME NEW e \in Drivers, NEW g \in Drivers, e # g, job'[e].did = job'[g].did
                 PROVE  job'[e].pages \cap job'[g].pages = {}
    BY DEF Apart
  <2>2. CASE e # d /\ g # d
    BY <2>1, <2>2 DEF Inv, Apart, Started
  <2>3. CASE e = d
    <3>1. job'[g] = job[g]
      BY <2>1, <2>3 DEF Started
    <3>2. job[g].pages \cap pages = {}
      BY <1>1, <2>1, <2>3, <3>1 DEF Unclaimed
    <3> QED BY <1>1, <2>3, <3>1, <3>2
  <2>4. CASE g = d
    <3>1. job'[e] = job[e]
      BY <2>1, <2>4 DEF Started
    <3>2. job[e].pages \cap pages = {}
      BY <1>1, <2>1, <2>4, <3>1 DEF Unclaimed
    <3> QED BY <1>1, <2>4, <3>1, <3>2
  <2> QED BY <2>2, <2>3, <2>4
<1> QED BY <1>3, <1>4

(* The thread had no part in anything before, and the others go on. *)
LEMMA StartedOthers ==
  ASSUME Inv, NEW d \in Drivers, NEW kind, NEW did, NEW pages, NEW frames, NEW todo,
         Started(d, kind, did, pages, frames, todo), job[d].kind = "idle",
         hw' = hw, queue' = queue, regs' = regs, NEW e \in Drivers
  PROVE  /\ \A i, p : Claims(e, i, p) => e # d /\ Claims(e, i, p)'
         /\ job[e].kind = "detach" => e # d
         /\ e # d => /\ Keeps(e)
                     /\ \A i, p, f : /\ Claims(e, i, p)' = Claims(e, i, p)
                                     /\ Leaves(e, f)' = Leaves(e, f)
                     /\ job'[e] = job[e]
<1>1. job[d].pages = {}
  BY DEF Inv, Jobs, Job
<1>2. e # d => job'[e] = job[e]
  BY DEF Started
<1>3. e # d => Keeps(e)
  BY <1>2, BystanderKeeps
<1> QED BY <1>1, <1>2, <1>3 DEF Claims, Leaves

(* Nobody works on a page: what the caches and walks find is what is there. *)
LEMMA Settled ==
  ASSUME Inv, NEW did \in Dids, NEW pages \in SUBSET PageAddrs, Unclaimed(did, pages),
         NEW p \in pages
  PROVE  /\ \A d \in Drivers : ~ Claims(d, did, p)
         /\ seen[<<did, p>>] = table[<<did, p>>]
         /\ \A t \in Translations : t.did = did /\ t.page = p /\ Usable(t.frame)
              => t.frame = table[<<did, p>>]
<1>1. \A d \in Drivers : ~ Claims(d, did, p)
  BY DEF Unclaimed, Claims
<1>2. seen[<<did, p>>] = table[<<did, p>>]
  BY <1>1 DEF Inv, Seen
<1>3. ASSUME NEW t \in Translations, t.did = did, t.page = p, Usable(t.frame)
      PROVE  t.frame = table[<<did, p>>]
  BY <1>1, <1>3 DEF Inv, Stale
<1> QED BY <1>1, <1>2, <1>3

(* Thread d changes pages of a domain, and will flush and drop what was    *)
(* there.                                                                  *)
Changes(d, did, pages) ==
  /\ \A i \in Dids, q \in PageAddrs :
       ~ (i = did /\ q \in pages) => table'[<<i, q>>] = table[<<i, q>>]
  /\ seen' = seen \/ seen' = table'
  /\ \A q \in pages : table'[<<did, q>>] # table[<<did, q>>] =>
       \E f : /\ f = table[<<did, q>>]
              /\ Leaves(d, f)'
              /\ Usable(f) => WillDrop(d, did, q)'
              /\ seen' = table' \/ WillFlush(d, f, did, q)'

LEMMA ChangesCoherent ==
  ASSUME Inv, NEW d \in Drivers, NEW kind, NEW did \in Dids, NEW pages \in SUBSET PageAddrs,
         NEW frames, NEW todo, Started(d, kind, did, pages, frames, todo), job[d].kind = "idle",
         Unclaimed(did, pages), UNCHANGED <<hw, queue, regs, tlb, walk>>,
         Changes(d, did, pages),
         kind = "detach" => \A q \in PageAddrs : WillDrop(d, did, q)'
  PROVE  Seen' /\ Stale'
<1>1. /\ job'[d].kind = kind /\ job'[d].did = did /\ job'[d].pages = pages
      /\ \A q \in pages : Claims(d, did, q)'
  BY DEF Started, Claims
<1>2. Translations' = Translations /\ \A f : Usable(f)' = Usable(f)
  BY DEF Translations, Usable
<1>3. \A e \in Drivers : \A i, p : Claims(e, i, p) =>
        /\ e # d /\ Claims(e, i, p)'
        /\ \A f : Leaves(e, f) => Leaves(e, f)'
        /\ WillDrop(e, i, p) => WillDrop(e, i, p)'
        /\ \A f : WillFlush(e, f, i, p) => WillFlush(e, f, i, p)'
  BY StartedOthers DEF Keeps
<1>4. Seen'
  <2>1. SUFFICES ASSUME NEW i \in Dids, NEW q \in PageAddrs,
                        seen'[<<i, q>>] # table'[<<i, q>>]
                 PROVE  \E e \in Drivers :
                          /\ Claims(e, i, q)' /\ Leaves(e, seen[<<i, q>>])'
                          /\ WillFlush(e, seen[<<i, q>>], i, q)'
    BY DEF Seen
  <2>2. PICK g : g = seen[<<i, q>>]
    OBVIOUS
  <2>3. seen' = seen /\ g # table'[<<i, q>>]
    BY <2>1, <2>2 DEF Changes
  <2>4. CASE i = did /\ q \in pages
    <3>1. g = table[<<did, q>>]
      BY <2>2, <2>4, Settled
    <3>2. Leaves(d, g)' /\ WillFlush(d, g, did, q)'
      BY <2>1, <2>3, <2>4, <3>1 DEF Changes
    <3> QED BY <1>1, <2>2, <2>3, <2>4, <3>2
  <2>5. CASE ~ (i = did /\ q \in pages)
    <3>1. g # table[<<i, q>>]
      BY <2>3, <2>5 DEF Changes
    <3>2. PICK e \in Drivers : Claims(e, i, q) /\ Leaves(e, g) /\ WillFlush(e, g, i, q)
      BY <2>2, <3>1 DEF Inv, Seen
    <3>3. Claims(e, i, q)' /\ Leaves(e, g)' /\ WillFlush(e, g, i, q)'
      BY <1>3, <3>2
    <3> QED BY <2>2, <2>3, <3>3
  <2> QED BY <2>4, <2>5
<1>5. ASSUME NEW t \in Translations, Usable(t.frame), t.frame # table'[<<t.did, t.page>>]
      PROVE  \E e \in Drivers : /\ Claims(e, t.did, t.page)' /\ Leaves(e, t.frame)'
                                /\ WillDrop(e, t.did, t.page)'
  <2>1. t.did \in Dids /\ t.page \in PageAddrs
    BY DEF Inv, Types, Translations, Translation
  <2>2. CASE t.did = did /\ t.page \in pages
    <3>1. t.frame = table[<<did, t.page>>]
      BY <1>5, <2>2, Settled
    <3>2. Leaves(d, t.frame)' /\ WillDrop(d, did, t.page)'
      BY <1>5, <2>2, <3>1 DEF Changes
    <3> QED BY <1>1, <2>2, <3>2
  <2>3. CASE ~ (t.did = did /\ t.page \in pages)
    <3>1. t.frame # table[<<t.did, t.page>>]
      BY <1>5, <2>1, <2>3 DEF Changes
    <3>2. PICK e \in Drivers : /\ Claims(e, t.did, t.page) /\ Leaves(e, t.frame)
                               /\ WillDrop(e, t.did, t.page)
      BY <1>5, <3>1 DEF Inv, Stale
    <3> QED BY <1>3, <3>2
  <2> QED BY <2>2, <2>3
<1>6. ASSUME NEW t \in Translations, t.frame # None,
             NEW e \in Drivers, job'[e].kind = "detach", job'[e].did = t.did
      PROVE  WillDrop(e, t.did, t.page)'
  <2>1. t.page \in PageAddrs
    BY DEF Inv, Types, Translations, Translation
  <2>2. CASE e = d
    BY <1>1, <1>6, <2>1, <2>2
  <2>3. CASE e # d
    <3>1. job'[e] = job[e] /\ Keeps(e)
      BY <2>3, StartedOthers
    <3>2. WillDrop(e, t.did, t.page)
      BY <1>6, <3>1 DEF Inv, Stale
    <3> QED BY <3>1, <3>2 DEF Keeps
  <2> QED BY <2>2, <2>3
<1>7. ASSUME NEW t \in Translations, t \in tlb' PROVE Usable(t.frame)
  BY <1>7 DEF Inv, Stale
<1>8. Stale'
  BY <1>2, <1>5, <1>6, <1>7 DEF Stale
<1> QED BY <1>4, <1>8

LEMMA DropsLater ==
  ASSUME NEW h, NEW d, NEW todo, IsSeq(todo), NEW b \in {0, 1}, NEW did, NEW p,
         TodoDrops(h, d, todo, b, did, p)
  PROVE  TodoDrops(h, d, todo, 0, did, p)
<1>1. Len(todo) \in Nat
  BY DEF IsSeq
<1>2. \A m \in 1 .. Len(todo) : b < m => 0 < m
  BY <1>1
<1> QED BY <1>2 DEF TodoDrops

(* What a fresh job has ahead. *)
LEMMA StartedAhead ==
  ASSUME Inv, NEW d \in Drivers, NEW kind, NEW did \in Dids, NEW pages, NEW frames, NEW todo,
         Started(d, kind, did, pages, frames, todo), UNCHANGED <<hw, queue, regs>>, IsSeq(todo)
  PROVE  /\ \A q : (\E b \in {0, 1} : TodoDrops(hw, d, todo, b, did, q)) => WillDrop(d, did, q)'
         /\ \A x : TodoForgets(hw, d, todo, x, did) => WillForget(d, x, did)'
         /\ 1 \in 1 .. Len(todo) /\ Flushes(todo[1]) =>
              \A f, q : (Usable(f) => TodoDrops(hw, d, todo, 1, did, q)) => WillFlush(d, f, did, q)'
<1>1. job'[d].todo = todo /\ job'[d].step = 0 /\ IsSeq(queue')
  BY DEF Started, Inv, Types
<1>2. ASSUME NEW q, NEW b \in {0, 1}, TodoDrops(hw, d, todo, b, did, q)
      PROVE  WillDrop(d, did, q)'
  <2>1. TodoDrops(hw, d, todo, 0, did, q)
    BY <1>2, DropsLater
  <2>2. TodoDrops(hw', d, job'[d].todo, 0, did, q)
    BY <1>1, <2>1
  <2> QED BY <1>1, <2>2, TodoWillDropNext
<1>3. ASSUME NEW x, TodoForgets(hw, d, todo, x, did)
      PROVE  WillForget(d, x, did)'
  <2>1. TodoForgets(hw', d, job'[d].todo, x, did)
    BY <1>1, <1>3
  <2> QED BY <1>1, <2>1, TodoWillForgetNext
<1>4. ASSUME NEW f, NEW q, 1 \in 1 .. Len(todo), Flushes(todo[1]),
             Usable(f) => TodoDrops(hw, d, todo, 1, did, q)
      PROVE  WillFlush(d, f, did, q)'
  <2>1. Unissued(d, 1)'
    BY <1>1, <1>4, RegisterCommand DEF Unissued
  <2>2. Usable(f)' => DropsAfter(d, 1, did, q)'
    BY <1>1, <1>4 DEF Usable, DropsAfter
  <2> QED BY <1>1, <1>4, <2>1, <2>2 DEF WillFlush
<1> QED BY <1>2, <1>3, <1>4


LEMMA StartedChanges ==
  ASSUME Inv, Fits(hw), NEW d \in Drivers, NEW kind, NEW did \in Dids, NEW pages, NEW frames,
         NEW todo, Started(d, kind, did, pages, frames, todo), UNCHANGED <<hw, queue, regs>>,
         IsSeq(todo), NEW t, Stores(t), NEW q, NEW f,
         f \in frames \cup {None},
         Usable(f) => TodoDrops(hw, d, todo, Before(hw), did, q),
         NeedsFlush(hw) => 1 \in 1 .. Len(todo) /\ Flushes(todo[1])
  PROVE  /\ Leaves(d, f)'
         /\ Usable(f) => WillDrop(d, did, q)'
         /\ seen' = table' \/ WillFlush(d, f, did, q)'
<1>1. Leaves(d, f)'
  BY DEF Leaves, Started
<1>2. Usable(f) => WillDrop(d, did, q)'
  <2>1. Before(hw) \in {0, 1}
    BY FlushShape
  <2> QED BY <2>1, StartedAhead
<1>3. seen' = table' \/ WillFlush(d, f, did, q)'
  <2>1. CASE "rwbf" \notin hw.built
    BY <2>1 DEF Stores
  <2>2. CASE "rwbf" \in hw.built
    <3>1. NeedsFlush(hw)
      BY <2>2 DEF Fits
    <3>2. Before(hw) = 1
      BY <3>1 DEF Before
    <3>3. Usable(f) => TodoDrops(hw, d, todo, 1, did, q)
      BY <3>2
    <3> QED BY <3>1, <3>3, StartedAhead
  <2> QED BY <2>1, <2>2
<1> QED BY <1>1, <1>2, <1>3

LEMMA StartedContexts ==
  ASSUME Inv, NEW d \in Drivers, NEW kind, kind # "detach", NEW did, NEW pages, NEW frames,
         NEW todo, Started(d, kind, did, pages, frames, todo), job[d].kind = "idle",
         UNCHANGED <<hw, queue, regs, context, contexts>>
  PROVE  Contexts'
<1>1. \A e \in Drivers : job[e].kind = "detach" =>
        e # d /\ job'[e] = job[e] /\ \A x, i : WillForget(e, x, i) => WillForget(e, x, i)'
  BY StartedOthers DEF Keeps
<1>2. ASSUME NEW t \in contexts', t[2] # context'[t[1]]
      PROVE  \E e \in Drivers : /\ job'[e].kind = "detach" /\ job'[e].did = t[2]
                                /\ WillForget(e, t[1], t[2])'
  <2>1. PICK e \in Drivers : /\ job[e].kind = "detach" /\ job[e].did = t[2]
                             /\ WillForget(e, t[1], t[2])
    BY <1>2 DEF Inv, Contexts
  <2> QED BY <1>1, <2>1
<1>3. \A e \in Drivers : job'[e].kind = "detach" => e # d
  BY DEF Started
<1>4. ASSUME NEW e \in Drivers, job'[e].kind = "detach", NEW x \in Sids
      PROVE  context'[x] # job'[e].did
  <2>1. job'[e] = job[e]
    BY <1>3, <1>4 DEF Started
  <2> QED BY <1>4, <2>1 DEF Inv, Contexts
<1> QED BY <1>2, <1>4 DEF Contexts

(* A job has begun, and its only wait is for the next ticket. *)
Begun(d) ==
  \E kind, did, pages, frames, todo :
    /\ Started(d, kind, did, pages, frames, todo)
    /\ Fresh(d, todo, Other(job[d].ticket))
    /\ job[d].kind = "idle"

LEMMA MapCoherent ==
  ASSUME Inv, Fits(hw), NEW d \in Drivers, NEW did \in Dids, NEW page \in PageAddrs,
         NEW frame \in Frames, Map(d, did, page, frame)
  PROVE  Jobs' /\ Coherent' /\ Begun(d)
<1>1. PICK data : data = Other(job[d].ticket)
  OBVIOUS
<1>2. PICK todo : todo = PreparedPlan(hw, MapPlan(hw, did, page, Semaphore[d], data))
  OBVIOUS
<1>3. /\ frame \in free /\ table[<<did, page>>] = None
      /\ Starts(d, "map", did, {page}, {}, MapPlan(hw, did, page, Semaphore[d], data))
      /\ Stores([table EXCEPT ![<<did, page>>] = frame]) /\ free' = free \ {frame}
      /\ UNCHANGED <<hw, context, queue, regs, contexts, tlb, walk>>
  BY <1>1 DEF Map
<1>4. /\ Started(d, "map", did, {page}, {}, todo) /\ Unclaimed(did, {page})
      /\ job[d].kind = "idle"
  BY <1>2, <1>3, StartsIs
<1>5. data \in Tickets
  BY <1>1, TwoTickets DEF Inv, Jobs, Job
<1>6. /\ Fresh(d, todo, data)
      /\ "cm" \in hw.built => TodoDrops(hw, d, todo, Before(hw), did, page)
      /\ NeedsFlush(hw) => 1 \in 1 .. Len(todo) /\ Flushes(todo[1])
  BY <1>2, <1>5, MapTodo
<1>7. IsSeq(todo)
  BY <1>6 DEF Fresh
<1>8. {page} \in SUBSET PageAddrs /\ {} \in SUBSET Frames
  OBVIOUS
<1>9. Jobs' /\ Apart'
  BY <1>4, <1>7, <1>8, StartedJobs
<1>10. PICK t : t = [table EXCEPT ![<<did, page>>] = frame]
  OBVIOUS
<1>11. table \in [Dids \X PageAddrs -> Frames \cup {None}] /\ None \notin Frames
  BY InvalidationAssumption DEF Inv, Types
<1>12. /\ table' = t /\ Stores(t) /\ t[<<did, page>>] = frame
       /\ \A u \in Dids \X PageAddrs : u # <<did, page>> => t[u] = table[u]
       /\ DOMAIN t = Dids \X PageAddrs
  BY <1>3, <1>10, <1>11 DEF Stores
<1>13. Changes(d, did, {page})
  <2>1. \A i \in Dids, q \in PageAddrs :
          ~ (i = did /\ q \in {page}) => table'[<<i, q>>] = table[<<i, q>>]
    BY <1>12
  <2>2. seen' = seen \/ seen' = table'
    BY <1>12 DEF Stores
  <2>3. PICK f : f = None
    OBVIOUS
  <2>4. Usable(f) => TodoDrops(hw, d, todo, Before(hw), did, page)
    BY <1>6, <2>3 DEF Usable
  <2>5. /\ Leaves(d, f)'
        /\ Usable(f) => WillDrop(d, did, page)'
        /\ seen' = table' \/ WillFlush(d, f, did, page)'
    BY <1>3, <1>4, <1>6, <1>7, <1>12, <2>3, <2>4, StartedChanges
  <2> QED BY <1>3, <2>1, <2>2, <2>3, <2>5 DEF Changes
<1>14. Seen' /\ Stale'
  BY <1>3, <1>4, <1>8, <1>13, ChangesCoherent
<1>15. Contexts'
  BY <1>3, <1>4, StartedContexts
<1>16. Owned'
  <2>1. /\ \A u \in DOMAIN table : table[u] \notin free
        /\ \A u, v \in DOMAIN table : table[u] = table[v] /\ table[u] # None => u = v
        /\ \A e \in Drivers :
             /\ job[e].frames \cap free = {}
             /\ \A u \in DOMAIN table :
                  table[u] \in job[e].frames => job[e].kind = "detach" /\ u[1] = job[e].did
             /\ \A g \in Drivers : e # g => job[e].frames \cap job[g].frames = {}
    BY DEF Inv, Owned
  <2>2. \A e \in Drivers : job'[e].frames = {} \/ job'[e] = job[e]
    BY <1>4 DEF Started
  <2>3. DOMAIN table' = DOMAIN table /\ free' = free \ {frame} /\ frame \in free /\ frame # None
    BY <1>3, <1>11, <1>12
  <2>4. \A u \in DOMAIN table' : table'[u] \notin free'
    BY <1>11, <1>12, <2>1, <2>3
  <2>5. \A u, v \in DOMAIN table' : table'[u] = table'[v] /\ table'[u] # None => u = v
    BY <1>11, <1>12, <2>1, <2>3
  <2>6. ASSUME NEW e \in Drivers
        PROVE  /\ job'[e].frames \cap free' = {}
               /\ \A u \in DOMAIN table' :
                    table'[u] \in job'[e].frames => job'[e].kind = "detach" /\ u[1] = job'[e].did
    BY <1>11, <1>12, <2>1, <2>2, <2>3
  <2>7. \A e, g \in Drivers : e # g => job'[e].frames \cap job'[g].frames = {}
    BY <2>1, <2>2
  <2> QED BY <2>4, <2>5, <2>6, <2>7 DEF Owned
<1>17. Begun(d)
  BY <1>1, <1>4, <1>6 DEF Begun
<1> QED BY <1>9, <1>14, <1>15, <1>16, <1>17 DEF Coherent

LEMMA UnmapCoherent ==
  ASSUME Inv, Fits(hw), NEW d \in Drivers, NEW did \in Dids, NEW r \in Ranges, Unmap(d, did, r)
  PROVE  Jobs' /\ Coherent' /\ Begun(d)
<1>1. PICK data : data = Other(job[d].ticket)
  OBVIOUS
<1>2. PICK pages \in SUBSET PageAddrs : pages = {p \in PageAddrs : InRange(p, r.base, r.order)}
  OBVIOUS
<1>3. PICK frames : frames = {table[<<did, p>>] : p \in pages} \ {None}
  OBVIOUS
<1>4. PICK t : t = [u \in DOMAIN table |-> IF u \in {did} \X pages THEN None ELSE table[u]]
  OBVIOUS
<1>5. PICK todo : todo = PreparedPlan(hw, RangePlan(hw, did, r.base, r.order, Semaphore[d], data))
  OBVIOUS
<1>6. /\ frames # {}
      /\ Starts(d, "unmap", did, pages, frames,
                RangePlan(hw, did, r.base, r.order, Semaphore[d], data))
      /\ Stores(t)
      /\ UNCHANGED <<hw, context, free, queue, regs, contexts, tlb, walk>>
  BY <1>1, <1>2, <1>3, <1>4 DEF Unmap
<1>7. /\ Started(d, "unmap", did, pages, frames, todo) /\ Unclaimed(did, pages)
      /\ job[d].kind = "idle"
  BY <1>5, <1>6, StartsIs
<1>8. data \in Tickets
  BY <1>1, TwoTickets DEF Inv, Jobs, Job
<1>9. table \in [Dids \X PageAddrs -> Frames \cup {None}] /\ None \notin Frames
  BY InvalidationAssumption DEF Inv, Types
<1>10. pages # {} /\ frames \in SUBSET Frames
  BY <1>3, <1>6, <1>9
<1>11. \A p \in pages : PageSelective(hw, r.order) =>
         Drops(hw, Prepared(hw, Pages(did, r.base, r.order)), did, p)
  BY <1>2 DEF Fits
<1>12. /\ Fresh(d, todo, data)
       /\ \A p \in pages : TodoDrops(hw, d, todo, Before(hw), did, p)
       /\ NeedsFlush(hw) => 1 \in 1 .. Len(todo) /\ Flushes(todo[1])
  BY <1>5, <1>8, <1>10, <1>11, RangeTodo
<1>13. IsSeq(todo)
  BY <1>12 DEF Fresh
<1>14. Jobs' /\ Apart'
  BY <1>7, <1>10, <1>13, StartedJobs
<1>15. /\ table' = t /\ DOMAIN t = Dids \X PageAddrs
       /\ \A p \in pages : t[<<did, p>>] = None
       /\ \A u \in Dids \X PageAddrs : u \notin {did} \X pages => t[u] = table[u]
  BY <1>4, <1>6, <1>9 DEF Stores
<1>16. Changes(d, did, pages)
  <2>1. \A i \in Dids, q \in PageAddrs :
          ~ (i = did /\ q \in pages) => table'[<<i, q>>] = table[<<i, q>>]
    BY <1>15
  <2>2. seen' = seen \/ seen' = table'
    BY <1>6, <1>15 DEF Stores
  <2>3. ASSUME NEW q \in pages
        PROVE  \E f : /\ f = table[<<did, q>>]
                      /\ Leaves(d, f)'
                      /\ Usable(f) => WillDrop(d, did, q)'
                      /\ seen' = table' \/ WillFlush(d, f, did, q)'
    <3>1. PICK f : f = table[<<did, q>>]
      OBVIOUS
    <3>2. f \in frames \cup {None}
      BY <1>3, <3>1
    <3>3. /\ Leaves(d, f)'
          /\ Usable(f) => WillDrop(d, did, q)'
          /\ seen' = table' \/ WillFlush(d, f, did, q)'
      BY <1>6, <1>7, <1>12, <1>13, <3>2, StartedChanges
    <3> QED BY <3>1, <3>3
  <2> QED BY <2>1, <2>2, <2>3 DEF Changes
<1>17. Seen' /\ Stale'
  BY <1>6, <1>7, <1>16, ChangesCoherent
<1>18. Contexts'
  BY <1>6, <1>7, StartedContexts
<1>19. Owned'
  <2>1. /\ \A u \in DOMAIN table : table[u] \notin free
        /\ \A u, v \in DOMAIN table : table[u] = table[v] /\ table[u] # None => u = v
        /\ \A e \in Drivers :
             /\ job[e].frames \cap free = {}
             /\ \A u \in DOMAIN table :
                  table[u] \in job[e].frames => job[e].kind = "detach" /\ u[1] = job[e].did
             /\ \A g \in Drivers : e # g => job[e].frames \cap job[g].frames = {}
    BY DEF Inv, Owned
  <2>2. /\ job'[d].frames = frames
        /\ \A e \in Drivers \ {d} : job'[e] = job[e] /\ job[e].frames \subseteq Frames
    BY <1>7 DEF Started, Inv, Jobs, Job
  <2>3. \A u \in Dids \X PageAddrs : table'[u] = None \/ (table'[u] = table[u] /\ u \notin {did} \X pages)
    BY <1>15
  <2>4. DOMAIN table' = DOMAIN table /\ DOMAIN table = Dids \X PageAddrs /\ free' = free
        /\ free \subseteq Frames
    BY <1>6, <1>9, <1>15 DEF Inv, Types
  <2>5. \A u \in DOMAIN table' : table'[u] \notin free'
    BY <1>9, <2>1, <2>3, <2>4
  <2>6. \A u, v \in DOMAIN table' : table'[u] = table'[v] /\ table'[u] # None => u = v
    BY <2>1, <2>3, <2>4
  <2>7. \A f \in frames : \E p \in pages : f = table[<<did, p>>] /\ f # None
    BY <1>3
  <2>8. frames \cap free = {}
    <3>1. SUFFICES ASSUME NEW f \in frames, f \in free PROVE FALSE
      OBVIOUS
    <3>2. PICK p \in pages : f = table[<<did, p>>]
      BY <2>7
    <3>3. <<did, p>> \in DOMAIN table
      BY <2>4
    <3> QED BY <2>1, <3>1, <3>2, <3>3
  <2>9. ASSUME NEW u \in DOMAIN table', table'[u] \in frames PROVE FALSE
    <3>1. table'[u] = table[u] /\ u \notin {did} \X pages
      BY <1>3, <2>3, <2>4, <2>9
    <3>2. PICK p \in pages : table[u] = table[<<did, p>>] /\ table[u] # None
      BY <2>7, <2>9, <3>1
    <3>3. u = <<did, p>>
      BY <2>1, <2>4, <3>2
    <3> QED BY <3>1, <3>3
  <2>10. ASSUME NEW e \in Drivers, e # d PROVE frames \cap job[e].frames = {}
    <3>1. SUFFICES ASSUME NEW f \in frames, f \in job[e].frames PROVE FALSE
      OBVIOUS
    <3>2. PICK p \in pages : f = table[<<did, p>>]
      BY <2>7
    <3>3. job[e].kind = "detach" /\ job[e].did = did
      BY <2>1, <2>4, <3>1, <3>2
    <3>4. job[e].pages = PageAddrs
      BY <3>3 DEF Inv, Jobs, Job
    <3> QED BY <1>7, <3>2, <3>3, <3>4 DEF Unclaimed
  <2>11. ASSUME NEW e \in Drivers
         PROVE  /\ job'[e].frames \cap free' = {}
                /\ \A u \in DOMAIN table' :
                     table'[u] \in job'[e].frames => job'[e].kind = "detach" /\ u[1] = job'[e].did
                /\ \A g \in Drivers : e # g => job'[e].frames \cap job'[g].frames = {}
    <3>1. CASE e = d
      BY <2>2, <2>4, <2>8, <2>9, <2>10, <3>1
    <3>2. CASE e # d
      <4>1. job'[e] = job[e] /\ job[e].frames \subseteq Frames
        BY <2>2, <3>2
      <4>2. job'[e].frames \cap free' = {}
        BY <2>1, <2>4, <4>1
      <4>3. ASSUME NEW u \in DOMAIN table', table'[u] \in job'[e].frames
            PROVE  job'[e].kind = "detach" /\ u[1] = job'[e].did
        <5>1. table'[u] = table[u]
          BY <1>9, <2>3, <2>4, <4>1, <4>3
        <5> QED BY <2>1, <2>4, <4>1, <4>3, <5>1
      <4>4. \A g \in Drivers : e # g => job'[e].frames \cap job'[g].frames = {}
        BY <2>1, <2>2, <2>10, <3>2, <4>1
      <4> QED BY <4>2, <4>3, <4>4
    <3> QED BY <3>1, <3>2
  <2> QED BY <2>5, <2>6, <2>11 DEF Owned
<1>20. Begun(d)
  BY <1>1, <1>7, <1>12 DEF Begun
<1> QED BY <1>14, <1>17, <1>18, <1>19, <1>20 DEF Coherent

LEMMA DetachCoherent ==
  ASSUME Inv, Fits(hw), NEW d \in Drivers, NEW x \in Sids, Detach(d, x)
  PROVE  Jobs' /\ Coherent' /\ Begun(d)
<1>1. PICK data : data = Other(job[d].ticket)
  OBVIOUS
<1>2. PICK did : did = context[x]
  OBVIOUS
<1>3. PICK frames : frames = {table[<<did, p>>] : p \in PageAddrs} \ {None}
  OBVIOUS
<1>4. PICK todo : todo = PreparedPlan(hw, DetachPlan(hw, did, x, Semaphore[d], data))
  OBVIOUS
<1>5. /\ did # None /\ \A y \in Sids \ {x} : context[y] # did
      /\ Starts(d, "detach", did, PageAddrs, frames, DetachPlan(hw, did, x, Semaphore[d], data))
      /\ context' = [context EXCEPT ![x] = None]
      /\ UNCHANGED <<hw, table, seen, free, queue, regs, contexts, tlb, walk>>
  BY <1>1, <1>2, <1>3 DEF Detach
<1>6. did \in Dids /\ context \in [Sids -> Dids \cup {None}]
  BY <1>2, <1>5 DEF Inv, Types
<1>7. /\ Started(d, "detach", did, PageAddrs, frames, todo) /\ Unclaimed(did, PageAddrs)
      /\ job[d].kind = "idle"
  BY <1>4, <1>5, StartsIs
<1>8. data \in Tickets
  BY <1>1, TwoTickets DEF Inv, Jobs, Job
<1>9. /\ Fresh(d, todo, data) /\ TodoForgets(hw, d, todo, x, did)
      /\ \A p \in PageAddrs : TodoDrops(hw, d, todo, 0, did, p)
  BY <1>4, <1>6, <1>8, DetachTodo
<1>10. IsSeq(todo)
  BY <1>9 DEF Fresh
<1>11. table \in [Dids \X PageAddrs -> Frames \cup {None}] /\ None \notin Frames
  BY InvalidationAssumption DEF Inv, Types
<1>12. frames \in SUBSET Frames /\ PageAddrs \in SUBSET PageAddrs
  BY <1>3, <1>6, <1>11
<1>13. Jobs' /\ Apart'
  BY <1>6, <1>7, <1>10, <1>12, StartedJobs
<1>14. /\ \A p \in PageAddrs : WillDrop(d, did, p)'
       /\ WillForget(d, x, did)'
  BY <1>5, <1>6, <1>7, <1>9, <1>10, StartedAhead
<1>15. Changes(d, did, PageAddrs)
  BY <1>5 DEF Changes
<1>16. Seen' /\ Stale'
  BY <1>5, <1>6, <1>7, <1>12, <1>14, <1>15, ChangesCoherent
<1>17. /\ job'[d].kind = "detach" /\ job'[d].did = did /\ job'[d].frames = frames
       /\ \A e \in Drivers \ {d} : job'[e] = job[e]
  BY <1>7 DEF Started
<1>18. Contexts'
  <2>1. \A e \in Drivers : job[e].kind = "detach" =>
          e # d /\ job'[e] = job[e] /\ \A y, i : WillForget(e, y, i) => WillForget(e, y, i)'
    BY <1>5, <1>7, StartedOthers DEF Keeps
  <2>2. ASSUME NEW t \in contexts', t[2] # context'[t[1]]
        PROVE  \E e \in Drivers : /\ job'[e].kind = "detach" /\ job'[e].did = t[2]
                                  /\ WillForget(e, t[1], t[2])'
    <3>1. CASE t[1] = x /\ t[2] = did
      BY <1>14, <1>17, <3>1
    <3>2. CASE ~ (t[1] = x /\ t[2] = did)
      <4>1. t \in contexts /\ t[1] \in Sids
        BY <1>5 DEF Inv, Types
      <4>2. t[2] # context[t[1]]
        BY <1>2, <1>5, <1>6, <2>2, <3>2, <4>1
      <4>3. PICK e \in Drivers : /\ job[e].kind = "detach" /\ job[e].did = t[2]
                                 /\ WillForget(e, t[1], t[2])
        BY <4>1, <4>2 DEF Inv, Contexts
      <4> QED BY <2>1, <4>3
    <3> QED BY <3>1, <3>2
  <2>3. ASSUME NEW e \in Drivers, job'[e].kind = "detach", NEW y \in Sids
        PROVE  context'[y] # job'[e].did
    <3>1. context'[y] = None \/ (context'[y] = context[y] /\ y # x)
      BY <1>5, <1>6
    <3>2. CASE e = d
      BY <1>5, <1>17, <3>1, <3>2
    <3>3. CASE e # d
      <4>1. job'[e] = job[e]
        BY <1>17, <3>3
      <4>2. job[e].did # None
        BY <2>3, <4>1, InvalidationAssumption DEF Inv, Jobs, Job
      <4>3. context[y] # job[e].did
        BY <2>3, <4>1 DEF Inv, Contexts
      <4> QED BY <3>1, <4>1, <4>2, <4>3
    <3> QED BY <3>2, <3>3
  <2> QED BY <2>2, <2>3 DEF Contexts
<1>19. Owned'
  <2>1. /\ \A u \in DOMAIN table : table[u] \notin free
        /\ \A u, v \in DOMAIN table : table[u] = table[v] /\ table[u] # None => u = v
        /\ \A e \in Drivers :
             /\ job[e].frames \cap free = {}
             /\ \A u \in DOMAIN table :
                  table[u] \in job[e].frames => job[e].kind = "detach" /\ u[1] = job[e].did
             /\ \A g \in Drivers : e # g => job[e].frames \cap job[g].frames = {}
    BY DEF Inv, Owned
  <2>2. table' = table /\ free' = free /\ DOMAIN table = Dids \X PageAddrs
    BY <1>5, <1>11
  <2>3. \A f \in frames : \E p \in PageAddrs : f = table[<<did, p>>] /\ f # None
    BY <1>3
  <2>4. frames \cap free = {}
    <3>1. SUFFICES ASSUME NEW f \in frames, f \in free PROVE FALSE
      OBVIOUS
    <3>2. PICK p \in PageAddrs : f = table[<<did, p>>]
      BY <2>3
    <3>3. <<did, p>> \in DOMAIN table
      BY <1>6, <2>2
    <3> QED BY <2>1, <3>1, <3>2, <3>3
  <2>5. ASSUME NEW u \in DOMAIN table, table[u] \in frames PROVE u[1] = did
    <3>1. PICK p \in PageAddrs : table[u] = table[<<did, p>>] /\ table[u] # None
      BY <2>3, <2>5
    <3>2. u = <<did, p>>
      BY <1>6, <2>1, <2>2, <3>1
    <3> QED BY <3>2
  <2>6. ASSUME NEW e \in Drivers, e # d PROVE frames \cap job[e].frames = {}
    <3>1. SUFFICES ASSUME NEW f \in frames, f \in job[e].frames PROVE FALSE
      OBVIOUS
    <3>2. PICK p \in PageAddrs : f = table[<<did, p>>]
      BY <2>3
    <3>3. job[e].kind = "detach" /\ job[e].did = did
      BY <1>6, <2>1, <2>2, <3>1, <3>2
    <3>4. job[e].pages = PageAddrs
      BY <3>3 DEF Inv, Jobs, Job
    <3> QED BY <1>7, <3>2, <3>3, <3>4 DEF Unclaimed
  <2>7. ASSUME NEW e \in Drivers
        PROVE  /\ job'[e].frames \cap free' = {}
               /\ \A u \in DOMAIN table' :
                    table'[u] \in job'[e].frames => job'[e].kind = "detach" /\ u[1] = job'[e].did
               /\ \A g \in Drivers : e # g => job'[e].frames \cap job'[g].frames = {}
    <3>1. CASE e = d
      BY <1>17, <2>2, <2>4, <2>5, <2>6, <3>1
    <3>2. CASE e # d
      BY <1>17, <2>1, <2>2, <2>6, <3>2
    <3> QED BY <3>1, <3>2
  <2>8. /\ \A u \in DOMAIN table' : table'[u] \notin free'
        /\ \A u, v \in DOMAIN table' : table'[u] = table'[v] /\ table'[u] # None => u = v
    BY <2>1, <2>2
  <2> QED BY <2>7, <2>8 DEF Owned
<1>20. Begun(d)
  BY <1>1, <1>7, <1>9 DEF Begun
<1> QED BY <1>13, <1>16, <1>18, <1>19, <1>20 DEF Coherent

---------------------------------------------------------------------------
(* Jobs end. *)
LEMMA FinishCoherent ==
  ASSUME Inv, NEW d \in Drivers, Finish(d)
  PROVE  Jobs' /\ Coherent'
<1>1. /\ job[d].kind # "idle" /\ ~ Working(d) /\ free' = free \cup job[d].frames
      /\ UNCHANGED <<hw, context, queue, regs, contexts, tlb, walk>>
  BY DEF Finish
<1>2. /\ DOMAIN job' = Drivers /\ \A e \in Drivers \ {d} : job'[e] = job[e]
      /\ job'[d] = Idle(job[d].ticket)
  BY DEF Finish, Inv, Jobs
<1>3. /\ job'[d].kind = "idle" /\ job'[d].did = None /\ job'[d].pages = {}
      /\ job'[d].frames = {} /\ job'[d].todo = << >> /\ job'[d].step = 0
      /\ job'[d].ticket = job[d].ticket /\ IsJob(job'[d])
  BY <1>2 DEF Idle, IsJob
<1>4. Jobs'
  <2>1. job[d].ticket \in Tickets
    BY DEF Inv, Jobs, Job
  <2>2. Job(job'[d])
    BY <1>3, <2>1, SeqOne DEF Job
  <2> QED BY <1>2, <2>2 DEF Inv, Jobs
<1>5. Apart'
  BY <1>2, <1>3 DEF Inv, Apart
<1>6. /\ \A did, p : ~ WillDrop(d, did, p)
      /\ \A x, did : ~ WillForget(d, x, did)
      /\ \A f, did, p : ~ WillFlush(d, f, did, p)
  BY <1>1, DoneAhead DEF Inv
<1>7. /\ table \in [Dids \X PageAddrs -> Frames \cup {None}]
      /\ seen \in [Dids \X PageAddrs -> Frames \cup {None}]
      /\ None \notin Frames /\ free \subseteq Frames
  BY InvalidationAssumption DEF Inv, Types
<1>8. /\ DOMAIN table' = Dids \X PageAddrs
      /\ \A i \in Dids, q \in PageAddrs :
           IF job[d].kind = "detach" /\ i = job[d].did
           THEN table'[<<i, q>>] = None /\ seen'[<<i, q>>] = None
           ELSE table'[<<i, q>>] = table[<<i, q>>] /\ seen'[<<i, q>>] = seen[<<i, q>>]
  <2>1. CASE job[d].kind = "detach"
    <3>1. /\ table' = [t \in DOMAIN table |-> IF t[1] = job[d].did THEN None ELSE table[t]]
          /\ seen' = [t \in DOMAIN seen |-> IF t[1] = job[d].did THEN None ELSE seen[t]]
      BY <2>1 DEF Finish
    <3> QED BY <1>7, <2>1, <3>1
  <2>2. CASE job[d].kind # "detach"
    BY <1>7, <2>2 DEF Finish
  <2> QED BY <2>1, <2>2
<1>9. \A e \in Drivers : e # d =>
        /\ job'[e] = job[e]
        /\ \A i, p, f : /\ Claims(e, i, p)' = Claims(e, i, p)
                        /\ Leaves(e, f)' = Leaves(e, f)
                        /\ WillDrop(e, i, p) => WillDrop(e, i, p)'
                        /\ WillForget(e, i, p) => WillForget(e, i, p)'
                        /\ WillFlush(e, f, i, p) => WillFlush(e, f, i, p)'
  BY <1>1, <1>2, BystanderKeeps DEF Keeps, Claims, Leaves
<1>10. Translations' = Translations /\ \A f : Usable(f)' = Usable(f)
  BY <1>1 DEF Translations, Usable
<1>11. Seen'
  <2>1. SUFFICES ASSUME NEW i \in Dids, NEW q \in PageAddrs,
                        seen'[<<i, q>>] # table'[<<i, q>>]
                 PROVE  \E e \in Drivers :
                          /\ Claims(e, i, q)' /\ Leaves(e, seen[<<i, q>>])'
                          /\ WillFlush(e, seen[<<i, q>>], i, q)'
    BY DEF Seen
  <2>2. PICK g : g = seen[<<i, q>>]
    OBVIOUS
  <2>3. seen'[<<i, q>>] = g /\ g # table[<<i, q>>]
    BY <1>8, <2>1, <2>2
  <2>4. PICK e \in Drivers : Claims(e, i, q) /\ Leaves(e, g) /\ WillFlush(e, g, i, q)
    BY <2>2, <2>3 DEF Inv, Seen
  <2>5. e # d
    BY <1>6, <2>4
  <2>6. Claims(e, i, q)' /\ Leaves(e, g)' /\ WillFlush(e, g, i, q)'
    BY <1>9, <2>4, <2>5
  <2> QED BY <2>3, <2>6
<1>12. ASSUME NEW t \in Translations, Usable(t.frame), t.frame # table'[<<t.did, t.page>>]
       PROVE  \E e \in Drivers : /\ Claims(e, t.did, t.page)' /\ Leaves(e, t.frame)'
                                 /\ WillDrop(e, t.did, t.page)'
  <2>1. t.did \in Dids /\ t.page \in PageAddrs
    BY DEF Inv, Types, Translations, Translation
  <2>2. ~ (job[d].kind = "detach" /\ t.did = job[d].did)
    <3>1. SUFFICES ASSUME job[d].kind = "detach", t.did = job[d].did PROVE FALSE
      OBVIOUS
    <3>2. t.frame # None
      BY <1>8, <1>12, <2>1, <3>1
    <3>3. WillDrop(d, t.did, t.page)
      BY <3>1, <3>2 DEF Inv, Stale
    <3> QED BY <1>6, <3>3
  <2>3. t.frame # table[<<t.did, t.page>>]
    BY <1>8, <1>12, <2>1, <2>2
  <2>4. PICK e \in Drivers : /\ Claims(e, t.did, t.page) /\ Leaves(e, t.frame)
                             /\ WillDrop(e, t.did, t.page)
    BY <1>12, <2>3 DEF Inv, Stale
  <2>5. e # d
    BY <1>6, <2>4
  <2> QED BY <1>9, <2>4, <2>5
<1>13. ASSUME NEW t \in Translations, t.frame # None,
              NEW e \in Drivers, job'[e].kind = "detach", job'[e].did = t.did
       PROVE  WillDrop(e, t.did, t.page)'
  <2>1. e # d /\ job'[e] = job[e]
    BY <1>2, <1>3, <1>13
  <2>2. WillDrop(e, t.did, t.page)
    BY <1>13, <2>1 DEF Inv, Stale
  <2> QED BY <1>9, <2>1, <2>2
<1>14. Stale'
  <2>1. \A t \in Translations : t \in tlb' => Usable(t.frame)
    BY <1>1 DEF Inv, Stale
  <2> QED BY <1>10, <1>12, <1>13, <2>1 DEF Stale
<1>15. Contexts'
  <2>1. ASSUME NEW t \in contexts', t[2] # context'[t[1]]
        PROVE  \E e \in Drivers : /\ job'[e].kind = "detach" /\ job'[e].did = t[2]
                                  /\ WillForget(e, t[1], t[2])'
    <3>1. PICK e \in Drivers : /\ job[e].kind = "detach" /\ job[e].did = t[2]
                               /\ WillForget(e, t[1], t[2])
      BY <1>1, <2>1 DEF Inv, Contexts
    <3>2. e # d
      BY <1>6, <3>1
    <3> QED BY <1>9, <3>1, <3>2
  <2>2. ASSUME NEW e \in Drivers, job'[e].kind = "detach", NEW y \in Sids
        PROVE  context'[y] # job'[e].did
    <3>1. job'[e] = job[e]
      BY <1>2, <1>3, <2>2
    <3> QED BY <1>1, <2>2, <3>1 DEF Inv, Contexts
  <2> QED BY <2>1, <2>2 DEF Contexts
<1>16. Owned'
  <2>1. /\ \A u \in DOMAIN table : table[u] \notin free
        /\ \A u, v \in DOMAIN table : table[u] = table[v] /\ table[u] # None => u = v
        /\ \A e \in Drivers :
             /\ job[e].frames \cap free = {}
             /\ \A u \in DOMAIN table :
                  table[u] \in job[e].frames => job[e].kind = "detach" /\ u[1] = job[e].did
             /\ \A g \in Drivers : e # g => job[e].frames \cap job[g].frames = {}
    BY DEF Inv, Owned
  <2>2. \A u \in Dids \X PageAddrs :
          IF job[d].kind = "detach" /\ u[1] = job[d].did THEN table'[u] = None ELSE table'[u] = table[u]
    BY <1>8
  <2>3. \A e \in Drivers : job[e].frames \subseteq Frames
    BY DEF Inv, Jobs, Job
  <2>4. DOMAIN table = Dids \X PageAddrs /\ DOMAIN table' = Dids \X PageAddrs
    BY <1>7, <1>8
  <2>5. ASSUME NEW u \in DOMAIN table' PROVE table'[u] \notin free'
    <3>1. CASE table'[u] = None
      BY <1>1, <1>7, <2>3, <3>1
    <3>2. CASE table'[u] # None
      BY <1>1, <2>1, <2>2, <2>4, <3>2
    <3> QED BY <3>1, <3>2
  <2>6. \A u, v \in DOMAIN table' : table'[u] = table'[v] /\ table'[u] # None => u = v
    BY <2>1, <2>2, <2>4
  <2>7. ASSUME NEW e \in Drivers
        PROVE  /\ job'[e].frames \cap free' = {}
               /\ \A u \in DOMAIN table' :
                    table'[u] \in job'[e].frames => job'[e].kind = "detach" /\ u[1] = job'[e].did
               /\ \A g \in Drivers : e # g => job'[e].frames \cap job'[g].frames = {}
    <3>1. CASE e = d
      BY <1>3, <3>1
    <3>2. CASE e # d
      <4>1. job'[e] = job[e]
        BY <1>2, <3>2
      <4>2. job'[e].frames \cap free' = {}
        BY <1>1, <2>1, <3>2, <4>1
      <4>3. ASSUME NEW u \in DOMAIN table', table'[u] \in job'[e].frames
            PROVE  job'[e].kind = "detach" /\ u[1] = job'[e].did
        <5>1. table'[u] = table[u]
          BY <1>7, <2>2, <2>3, <2>4, <4>1, <4>3
        <5> QED BY <2>1, <2>4, <4>1, <4>3, <5>1
      <4>4. \A g \in Drivers : e # g => job'[e].frames \cap job'[g].frames = {}
        BY <1>2, <1>3, <2>1, <4>1
      <4> QED BY <4>2, <4>3, <4>4
    <3> QED BY <3>1, <3>2
  <2> QED BY <2>5, <2>6, <2>7 DEF Owned
<1> QED BY <1>4, <1>5, <1>11, <1>14, <1>15, <1>16 DEF Coherent

---------------------------------------------------------------------------
(* Waits, thread by thread. *)
LEMMA WaitsForAll ==
  /\ Waits <=> \A d \in Drivers : WaitsFor(d, job[d])
  /\ Waits' <=> \A d \in Drivers : WaitsFor(d, job'[d])
  BY DEF Waits

(* The first command is done with. *)
LEMMA WaitsAdvance ==
  ASSUME NEW d, NEW j, NEW k, IsSeq(j.todo), j.todo # << >>, WaitsFor(d, j),
         k.todo = Tail(j.todo), k.step = 0, k.ticket = j.ticket
  PROVE  WaitsFor(d, k)
<1> SUFFICES ASSUME NEW i \in 1 .. Len(k.todo)
             PROVE  LET c == k.todo[i]
                    IN  /\ c.op = "wait" => i = Len(k.todo)
                        /\ c.via = "queue" /\ c.op # "wait" => ~ Completes(c.scope)
                        /\ c.via = "queue" /\ c.op = "wait" =>
                             Signals(c.scope, d) /\ c.scope.data = Other(k.ticket)
  BY DEF WaitsFor
<1>1. PICK T \in Nat : T = Len(j.todo)
  BY DEF IsSeq
<1>2. T >= 1 /\ Len(k.todo) = T - 1 /\ i \in 1 .. (T - 1)
  BY <1>1, SeqTail
<1>3. k.todo[i] = j.todo[i + 1]
  BY <1>1, <1>2, SeqTail
<1>4. i + 1 \in 1 .. T /\ i + 1 # 1 /\ (i + 1 = T => i = T - 1)
  BY <1>2
<1> QED BY <1>1, <1>2, <1>3, <1>4 DEF WaitsFor

(* The first command is a wait, and sent. *)
LEMMA WaitsSent ==
  ASSUME NEW d, NEW j, NEW k, IsSeq(j.todo), j.todo # << >>, WaitsFor(d, j),
         j.todo[1].op = "wait", k.todo = j.todo, k.step = 1
  PROVE  WaitsFor(d, k)
<1>1. PICK T \in Nat : T = Len(j.todo)
  BY DEF IsSeq
<1>2. 1 \in 1 .. T
  BY <1>1, SeqTail
<1>3. T = 1
  BY <1>1, <1>2 DEF WaitsFor
<1>4. \A i \in 1 .. T : i = 1
  BY <1>3
<1> QED BY <1>1, <1>4 DEF WaitsFor

(* The first command uses the registers. *)
LEMMA WaitsWrite ==
  ASSUME NEW d, NEW j, NEW k, WaitsFor(d, j), j.todo[1].via = "registers",
         k.todo = j.todo, k.ticket = j.ticket
  PROVE  WaitsFor(d, k)
<1> SUFFICES ASSUME NEW i \in 1 .. Len(k.todo), i = 1 \/ i # 1
             PROVE  LET c == k.todo[i]
                    IN  /\ c.op = "wait" => i = Len(k.todo)
                        /\ c.via = "queue" /\ c.op # "wait" => ~ Completes(c.scope)
                        /\ c.via = "queue" /\ c.op = "wait" =>
                             /\ Signals(c.scope, d)
                             /\ ~ (i = 1 /\ k.step = 1) => c.scope.data = Other(k.ticket)
                        /\ c.via = "queue" /\ i = 1 => k.step = 0 \/ (k.step = 1 /\ c.op = "wait")
  BY DEF WaitsFor
<1> QED BY DEF WaitsFor

LEMMA WaitsFresh ==
  ASSUME NEW d, NEW k, Fresh(d, k.todo, Other(k.ticket)), k.step = 0
  PROVE  WaitsFor(d, k)
  BY DEF WaitsFor, Fresh

LEMMA WaitsNone ==
  ASSUME NEW d, NEW k, k.todo = << >>
  PROVE  WaitsFor(d, k)
<1>1. 1 .. Len(k.todo) = {}
  OBVIOUS
<1> QED BY <1>1 DEF WaitsFor

---------------------------------------------------------------------------
(* Threads take turns with commands; semaphores follow. *)
LEMMA PollingIs ==
  /\ \A d : Polling(d) <=>
       job[d].todo # << >> /\ Head(job[d].todo).via = "queue" /\ job[d].step = 1
  /\ \A d : Polling(d)' <=>
       job'[d].todo # << >> /\ Head(job'[d].todo).via = "queue" /\ job'[d].step = 1
  BY DEF Polling, Working, Command

LEMMA SameSemaphores ==
  ASSUME Semaphores, queue' = queue, sem' = sem,
         \A d \in Drivers : (Polling(d)' <=> Polling(d)) /\ job'[d].ticket = job[d].ticket
  PROVE  Semaphores'
<1>1. \A d \in Drivers : Signalled(d)' <=> Signalled(d)
  BY DEF Signalled
<1>2. \A n \in 1 .. Len(queue') :
        Completes(queue'[n]) => \E d \in Drivers : Signals(queue'[n], d)
  BY DEF Semaphores
<1>3. ASSUME NEW d \in Drivers
      PROVE  /\ ~ Polling(d)' => Signalled(d)'
             /\ \A n \in 1 .. Len(queue') : Signals(queue'[n], d) =>
                  /\ Polling(d)' /\ ~ Signalled(d)' /\ queue'[n].data = job'[d].ticket
                  /\ \A m \in 1 .. Len(queue') : Signals(queue'[m], d) => m = n
  BY <1>1 DEF Semaphores
<1> QED BY <1>2, <1>3 DEF Semaphores

LEMMA SubmitSemaphores ==
  ASSUME Inv, NEW d \in Drivers, Submit(d)
  PROVE  Semaphores'
<1>1. PICK L : L = Len(queue)
  OBVIOUS
<1>2. /\ L \in Nat /\ Len(queue') = L + 1 /\ queue'[L + 1] = Command(d).scope
      /\ \A n \in 1 .. L : queue'[n] = queue[n]
  BY <1>1, SeqAppend DEF Inv, Types, IsSeq, Submit
<1>3. /\ IsSeq(job[d].todo) /\ job[d].todo # << >> /\ job[d].step = 0
      /\ 1 \in 1 .. Len(job[d].todo) /\ Command(d) = job[d].todo[1]
      /\ Command(d).via = "queue"
  BY SeqTail DEF Submit, Inv, Jobs, Job, IsSeq, Working, Command
<1>4. WaitsFor(d, job[d])
  BY WaitsForAll DEF Inv
<1>5. ~ Polling(d)
  BY <1>3, PollingIs
<1>6. \A n \in 1 .. L : ~ Signals(queue[n], d)
  BY <1>1, <1>5 DEF Inv, Semaphores
<1>7. sem' = sem /\ \A e \in Drivers \ {d} : job'[e] = job[e]
  BY SubmitIs DEF Submit, Stepped, Inv
<1>8. \A e \in Drivers \ {d} : (Polling(e)' <=> Polling(e)) /\ (Signalled(e)' <=> Signalled(e))
  BY <1>7, PollingIs DEF Signalled
<1>9. \A n \in 1 .. (L + 1) : n \in 1 .. L \/ n = L + 1
  BY <1>2
<1>10. CASE Command(d).op # "wait"
  <2>1. ~ Completes(Command(d).scope)
    BY <1>3, <1>4, <1>10 DEF WaitsFor
  <2>2. \A n \in 1 .. (L + 1) : \A e : Signals(queue'[n], e) =>
          n \in 1 .. L /\ queue'[n] = queue[n]
    BY <1>2, <1>9, <2>1 DEF Signals
  <2>0. Stepped(d, Tail(job[d].todo), 0, job[d].ticket)
    BY <1>10, SubmitIs DEF Inv
  <2>3. job'[d].step = 0 /\ job'[d].ticket = job[d].ticket
    BY <2>0 DEF Stepped
  <2>4. (Signalled(d)' <=> Signalled(d)) /\ ~ Polling(d)'
    BY <1>7, <2>3, PollingIs DEF Signalled
  <2>5. \A n \in 1 .. (L + 1) : Completes(queue'[n]) => \E e \in Drivers : Signals(queue'[n], e)
    BY <1>1, <1>2, <1>9, <2>1 DEF Inv, Semaphores
  <2>6. ASSUME NEW e \in Drivers
        PROVE  /\ ~ Polling(e)' => Signalled(e)'
               /\ \A n \in 1 .. (L + 1) : Signals(queue'[n], e) =>
                    /\ Polling(e)' /\ ~ Signalled(e)' /\ queue'[n].data = job'[e].ticket
                    /\ \A m \in 1 .. (L + 1) : Signals(queue'[m], e) => m = n
    <3>1. CASE e = d
      BY <1>5, <1>6, <2>2, <2>4, <3>1 DEF Inv, Semaphores
    <3>2. CASE e # d
      BY <1>1, <1>7, <1>8, <2>2, <3>2 DEF Inv, Semaphores
    <3> QED BY <3>1, <3>2
  <2> QED BY <1>2, <2>5, <2>6 DEF Semaphores
<1>11. CASE Command(d).op = "wait"
  <2>1. /\ Signals(Command(d).scope, d)
        /\ Command(d).scope.data = Other(job[d].ticket)
    BY <1>3, <1>4, <1>11 DEF WaitsFor
  <2>0. Stepped(d, job[d].todo, 1, Other(job[d].ticket))
    BY <1>11, SubmitIs DEF Inv
  <2>2. /\ job'[d].step = 1 /\ job'[d].ticket = Other(job[d].ticket)
        /\ job'[d].todo = job[d].todo
    BY <2>0 DEF Stepped
  <2>3. Polling(d)'
    BY <1>3, <2>2, PollingIs DEF Command
  <2>4. ~ Signalled(d)'
    <3>1. Signalled(d) /\ job[d].ticket \in Tickets
      BY <1>5 DEF Inv, Semaphores, Jobs, Job
    <3> QED BY <1>7, <2>2, <3>1, TwoTickets DEF Signalled
  <2>5. \A e \in Drivers : Signals(Command(d).scope, e) => e = d
    BY <2>1, InvalidationAssumption DEF Signals
  <2>6. \A n \in 1 .. (L + 1), e \in Drivers : Signals(queue'[n], e) =>
          IF e = d THEN n = L + 1 ELSE n \in 1 .. L /\ queue'[n] = queue[n]
    BY <1>2, <1>6, <1>9, <2>5
  <2>7. \A n \in 1 .. (L + 1) : Completes(queue'[n]) => \E e \in Drivers : Signals(queue'[n], e)
    BY <1>1, <1>2, <1>9, <2>1 DEF Inv, Semaphores
  <2>8. ASSUME NEW e \in Drivers
        PROVE  /\ ~ Polling(e)' => Signalled(e)'
               /\ \A n \in 1 .. (L + 1) : Signals(queue'[n], e) =>
                    /\ Polling(e)' /\ ~ Signalled(e)' /\ queue'[n].data = job'[e].ticket
                    /\ \A m \in 1 .. (L + 1) : Signals(queue'[m], e) => m = n
    <3>1. CASE e = d
      BY <1>2, <2>1, <2>2, <2>3, <2>4, <2>6, <3>1
    <3>2. CASE e # d
      BY <1>1, <1>7, <1>8, <2>6, <3>2 DEF Inv, Semaphores
    <3> QED BY <3>1, <3>2
  <2> QED BY <1>2, <2>7, <2>8 DEF Semaphores
<1> QED BY <1>10, <1>11

LEMMA PollSemaphores ==
  ASSUME Inv, NEW d \in Drivers, PollSemaphore(d)
  PROVE  Semaphores'
<1>0. Stepped(d, Tail(job[d].todo), 0, job[d].ticket)
  BY AdvanceIs DEF PollSemaphore, Inv
<1>1. /\ job'[d].step = 0 /\ job'[d].ticket = job[d].ticket
      /\ \A e \in Drivers \ {d} : job'[e] = job[e]
  BY <1>0 DEF Stepped
<1>2. queue' = queue /\ sem' = sem /\ Signalled(d)
  BY DEF PollSemaphore
<1>3. \A e \in Drivers : Signalled(e)' <=> Signalled(e)
  BY <1>1, <1>2 DEF Signalled
<1>4. ~ Polling(d)' /\ \A e \in Drivers \ {d} : Polling(e)' <=> Polling(e)
  BY <1>1, PollingIs
<1>5. \A n \in 1 .. Len(queue) : ~ Signals(queue[n], d)
  BY <1>2 DEF Inv, Semaphores
<1>6. \A n \in 1 .. Len(queue') :
        Completes(queue'[n]) => \E e \in Drivers : Signals(queue'[n], e)
  BY <1>2 DEF Inv, Semaphores
<1>7. ASSUME NEW e \in Drivers
      PROVE  /\ ~ Polling(e)' => Signalled(e)'
             /\ \A n \in 1 .. Len(queue') : Signals(queue'[n], e) =>
                  /\ Polling(e)' /\ ~ Signalled(e)' /\ queue'[n].data = job'[e].ticket
                  /\ \A m \in 1 .. Len(queue') : Signals(queue'[m], e) => m = n
  <2>1. CASE e = d
    BY <1>2, <1>3, <1>5, <2>1
  <2>2. CASE e # d
    BY <1>1, <1>2, <1>3, <1>4, <2>2 DEF Inv, Semaphores
  <2> QED BY <2>1, <2>2
<1> QED BY <1>6, <1>7 DEF Semaphores

(* The IOMMU stores what the thread polls for, or leaves memory alone. *)
LEMMA ExecuteSem ==
  ASSUME Inv, NEW r \in 1 .. Len(queue), Execute(r)
  PROVE  /\ sem' \in [{Semaphore[d] : d \in Drivers} -> Tickets]
         /\ ~ Completes(queue[r]) => sem' = sem
         /\ Completes(queue[r]) =>
              \E d \in Drivers :
                /\ Signals(queue[r], d) /\ sem'[Semaphore[d]] = job[d].ticket
                /\ \A e \in Drivers \ {d} : sem'[Semaphore[e]] = sem[Semaphore[e]]
<1>1. sem \in [{Semaphore[d] : d \in Drivers} -> Tickets]
  BY DEF Inv, Types
<1>2. sem' = IF Completes(queue[r])
             THEN [a \in DOMAIN sem \cup {queue[r].addr} |->
                     IF a = queue[r].addr THEN queue[r].data ELSE sem[a]]
             ELSE sem
  BY DEF Execute
<1>3. CASE ~ Completes(queue[r])
  BY <1>1, <1>2, <1>3
<1>4. CASE Completes(queue[r])
  <2>1. PICK d \in Drivers : Signals(queue[r], d)
    BY <1>4 DEF Inv, Semaphores
  <2>2. queue[r].addr = Semaphore[d] /\ queue[r].data = job[d].ticket /\ job[d].ticket \in Tickets
    BY <2>1 DEF Inv, Semaphores, Signals, Jobs, Job
  <2>3. sem' = [a \in {Semaphore[e] : e \in Drivers} |->
                  IF a = Semaphore[d] THEN job[d].ticket ELSE sem[a]]
    <3>1. DOMAIN sem \cup {queue[r].addr} = {Semaphore[e] : e \in Drivers}
      BY <1>1, <2>2
    <3> QED BY <1>2, <1>4, <2>2, <3>1
  <2>4. sem' \in [{Semaphore[e] : e \in Drivers} -> Tickets]
    BY <1>1, <2>2, <2>3
  <2>5. sem'[Semaphore[d]] = job[d].ticket
    BY <2>3
  <2>6. ASSUME NEW e \in Drivers \ {d} PROVE sem'[Semaphore[e]] = sem[Semaphore[e]]
    BY <2>3, InvalidationAssumption
  <2> QED BY <1>4, <2>1, <2>4, <2>5, <2>6
<1> QED BY <1>3, <1>4

LEMMA ExecuteSemaphores ==
  ASSUME Inv, NEW r \in 1 .. Len(queue), Execute(r)
  PROVE  Semaphores'
<1> DEFINE Old(i) == IF i < r THEN i ELSE i + 1
<1>1. PICK L \in Nat : L = Len(queue)
  BY DEF Inv, Types, IsSeq
<1>2. Len(queue') = L - 1 /\ \A i \in 1 .. (L - 1) : queue'[i] = queue[Old(i)]
  <2>1. IsSeq(queue) /\ queue' = Without(queue, r)
    BY DEF Inv, Types, Execute, Without
  <2>2. /\ Len(Without(queue, r)) = L - 1
        /\ \A i \in 1 .. (L - 1) : Without(queue, r)[i] = IF i < r THEN queue[i] ELSE queue[i + 1]
    BY <1>1, <2>1, SeqWithout
  <2> QED BY <2>1, <2>2
<1>3. \A i \in 1 .. (L - 1) : Old(i) \in 1 .. L /\ Old(i) # r
  BY <1>1
<1>4. \A i, k \in 1 .. (L - 1) : Old(i) = Old(k) => i = k
  BY <1>1
<1> HIDE DEF Old
<1>5. job' = job
  BY DEF Execute, driver
<1>6. \A d : Polling(d)' <=> Polling(d)
  BY <1>5, PollingIs
<1>7. \A i \in 1 .. (L - 1) : Completes(queue'[i]) => \E d \in Drivers : Signals(queue'[i], d)
  BY <1>1, <1>2, <1>3 DEF Inv, Semaphores
<1>8. ASSUME NEW d \in Drivers, Signalled(d)' <=> Signalled(d)
      PROVE  /\ ~ Polling(d)' => Signalled(d)'
             /\ \A n \in 1 .. (L - 1) : Signals(queue'[n], d) =>
                  /\ Polling(d)' /\ ~ Signalled(d)' /\ queue'[n].data = job'[d].ticket
                  /\ \A m \in 1 .. (L - 1) : Signals(queue'[m], d) => m = n
  <2>1. ~ Polling(d)' => Signalled(d)'
    BY <1>6, <1>8 DEF Inv, Semaphores
  <2>2. ASSUME NEW n \in 1 .. (L - 1), Signals(queue'[n], d)
        PROVE  /\ Polling(d)' /\ ~ Signalled(d)' /\ queue'[n].data = job'[d].ticket
               /\ \A m \in 1 .. (L - 1) : Signals(queue'[m], d) => m = n
    <3>1. Signals(queue[Old(n)], d) /\ Old(n) \in 1 .. Len(queue)
      BY <1>1, <1>2, <1>3, <2>2
    <3>2. /\ Polling(d) /\ ~ Signalled(d) /\ queue[Old(n)].data = job[d].ticket
          /\ \A m \in 1 .. Len(queue) : Signals(queue[m], d) => m = Old(n)
      BY <3>1 DEF Inv, Semaphores
    <3>3. \A m \in 1 .. (L - 1) : Signals(queue'[m], d) => Old(m) = Old(n)
      BY <1>1, <1>2, <1>3, <3>2
    <3> QED BY <1>2, <1>4, <1>5, <1>6, <1>8, <3>2, <3>3
  <2> QED BY <2>1, <2>2
<1>9. ASSUME NEW d \in Drivers
      PROVE  /\ ~ Polling(d)' => Signalled(d)'
             /\ \A n \in 1 .. (L - 1) : Signals(queue'[n], d) =>
                  /\ Polling(d)' /\ ~ Signalled(d)' /\ queue'[n].data = job'[d].ticket
                  /\ \A m \in 1 .. (L - 1) : Signals(queue'[m], d) => m = n
  <2>1. CASE sem'[Semaphore[d]] = sem[Semaphore[d]]
    <3>1. Signalled(d)' <=> Signalled(d)
      BY <1>5, <2>1 DEF Signalled
    <3> QED BY <1>8, <3>1
  <2>2. CASE sem'[Semaphore[d]] # sem[Semaphore[d]]
    <3>1. Signals(queue[r], d) /\ sem'[Semaphore[d]] = job[d].ticket
      BY <2>2, ExecuteSem
    <3>2. Signalled(d)'
      BY <1>5, <3>1 DEF Signalled
    <3>3. \A n \in 1 .. (L - 1) : ~ Signals(queue'[n], d)
      BY <1>1, <1>2, <1>3, <3>1 DEF Inv, Semaphores
    <3> QED BY <3>2, <3>3
  <2> QED BY <2>1, <2>2
<1> QED BY <1>2, <1>7, <1>9 DEF Semaphores

---------------------------------------------------------------------------
(* The lock. *)
LEMMA LockedForAll ==
  /\ Locked <=> \A d \in Drivers : LockedFor(d)
  /\ Locked' <=> \A d \in Drivers : LockedFor(d)'
  BY DEF Locked

LEMMA SameLocked ==
  ASSUME NEW d, LockedFor(d), job'[d] = job[d], hw' = hw, lock' = lock,
         regs'[hw.iva] = regs[hw.iva]
  PROVE  LockedFor(d)'
  BY DEF LockedFor, Working, Command

(* Threads at the start of a command, or without one, need no lock. *)
LEMMA FreshLocked ==
  ASSUME NEW d, job'[d].step = 0
  PROVE  LockedFor(d)'
  BY DEF LockedFor

LEMMA WriteLocked ==
  ASSUME Inv, Fits(hw), NEW d \in Drivers, WriteRegister(d)
  PROVE  Locked'
<1>1. /\ Working(d) /\ Command(d).via = "registers" /\ lock \in {None, d} /\ lock' = d
      /\ regs' = Stored(Command(d).writes[job[d].step + 1]) /\ hw' = hw
  BY DEF WriteRegister
<1>2. Stepped(d, job[d].todo, job[d].step + 1, job[d].ticket)
  BY WriteIs DEF Inv
<1>3. /\ job'[d].todo = job[d].todo /\ job'[d].step = job[d].step + 1
      /\ \A e \in Drivers \ {d} : job'[e] = job[e]
  BY <1>2 DEF Stepped
<1>4. LockedFor(d)'
  <2>1. Command(d)' = Command(d)
    BY <1>3 DEF Command
  <2>2. ASSUME Len(Command(d).writes) = 2, Command(d).writes[1].at = hw.iva, job'[d].step = 1
        PROVE  regs'[hw.iva] = Command(d).writes[1].word
    <3>1. job[d].step + 1 = 1
      BY <1>3, <2>2
    <3>2. regs' = Stored(Command(d).writes[1])
      BY <1>1, <3>1
    <3>3. hw.iva \in DOMAIN regs /\ hw.iva # GSTS
      BY DEF Inv, Types, Fits
    <3> QED BY <2>2, <3>2, <3>3 DEF Stored
  <2> QED BY <1>1, <2>1, <2>2 DEF LockedFor
<1>5. ASSUME NEW e \in Drivers \ {d} PROVE LockedFor(e)'
  <2>1. LockedFor(e) /\ lock # e
    BY <1>1, LockedForAll, InvalidationAssumption DEF Inv
  <2>2. ~ (Working(e) /\ Command(e).via = "registers" /\ job[e].step > 0)
    BY <2>1 DEF LockedFor
  <2>3. ~ (Working(e) /\ Command(e).via = "registers" /\ job[e].step > 0)'
    BY <1>3, <2>2 DEF Working, Command
  <2> QED BY <2>3 DEF LockedFor
<1> QED BY <1>4, <1>5, LockedForAll

LEMMA PollRegisterLocked ==
  ASSUME Inv, NEW d \in Drivers, PollRegister(d)
  PROVE  Locked'
<1>1. lock = d
  BY DEF PollRegister
<1>2. Stepped(d, Tail(job[d].todo), 0, job[d].ticket)
  BY AdvanceIs DEF Inv, PollRegister
<1>3. job'[d].step = 0 /\ \A e \in Drivers \ {d} : job'[e] = job[e]
  BY <1>2 DEF Stepped
<1>4. ASSUME NEW e \in Drivers \ {d} PROVE LockedFor(e)'
  <2>1. LockedFor(e) /\ lock # e
    BY <1>1, LockedForAll DEF Inv
  <2>2. ~ (Working(e) /\ Command(e).via = "registers" /\ job[e].step > 0)
    BY <2>1 DEF LockedFor
  <2>3. ~ (Working(e) /\ Command(e).via = "registers" /\ job[e].step > 0)'
    BY <1>3, <2>2 DEF Working, Command
  <2> QED BY <2>3 DEF LockedFor
<1> QED BY <1>3, <1>4, LockedForAll, FreshLocked

---------------------------------------------------------------------------
(* Every step. *)
LEMMA InvIs ==
  /\ Inv <=> Types /\ Jobs /\ Waits /\ Semaphores /\ Locked /\ Coherent
  /\ Inv' <=> Types' /\ Jobs' /\ Waits' /\ Semaphores' /\ Locked' /\ Coherent'
  BY DEF Inv, Coherent

LEMMA SubmitInv ==
  ASSUME Inv, Fits(hw), NEW d \in Drivers, Submit(d)
  PROVE  Inv' /\ hw' = hw
<1>1. Jobs' /\ Coherent'
  BY ThreadQuiet, QuietCoherent, InvIs
<1>2. Types'
  <2>1. IsSeq(queue')
    BY SeqAppend DEF Inv, Types, Submit
  <2> QED BY <2>1 DEF Inv, Types, Submit
<1>3. /\ IsSeq(job[d].todo) /\ job[d].todo # << >> /\ Command(d) = job[d].todo[1]
      /\ Command(d).via = "queue" /\ WaitsFor(d, job[d])
  BY SeqTail, WaitsForAll DEF Submit, Inv, Jobs, Job, Working, Command
<1>4. IF Command(d).op = "wait"
      THEN Stepped(d, job[d].todo, 1, Other(job[d].ticket))
      ELSE Stepped(d, Tail(job[d].todo), 0, job[d].ticket)
  BY SubmitIs DEF Inv
<1>5. \A e \in Drivers \ {d} : job'[e] = job[e]
  BY <1>4 DEF Stepped
<1>6. WaitsFor(d, job'[d]) /\ LockedFor(d)'
  <2>1. CASE Command(d).op = "wait"
    <3>1. job'[d].todo = job[d].todo /\ job'[d].step = 1
      BY <1>4, <2>1 DEF Stepped
    <3>2. WaitsFor(d, job'[d])
      BY <1>3, <2>1, <3>1, WaitsSent
    <3>3. Command(d)'.via = "queue"
      BY <1>3, <3>1 DEF Command
    <3> QED BY <3>2, <3>3 DEF LockedFor
  <2>2. CASE Command(d).op # "wait"
    <3>1. /\ job'[d].todo = Tail(job[d].todo) /\ job'[d].step = 0
          /\ job'[d].ticket = job[d].ticket
      BY <1>4, <2>2 DEF Stepped
    <3> QED BY <1>3, <3>1, WaitsAdvance, FreshLocked
  <2> QED BY <2>1, <2>2
<1>7. Waits'
  BY <1>5, <1>6, WaitsForAll DEF Inv
<1>8. Locked'
  BY <1>5, <1>6, LockedForAll, SameLocked DEF Inv, Submit
<1> QED BY <1>1, <1>2, <1>7, <1>8, SubmitSemaphores, InvIs DEF Submit

LEMMA PollInv ==
  ASSUME Inv, Fits(hw), NEW d \in Drivers, PollSemaphore(d) \/ PollRegister(d)
  PROVE  Inv' /\ hw' = hw
<1>1. Jobs' /\ Coherent'
  BY ThreadQuiet, QuietCoherent, InvIs
<1>2. Types'
  BY DEF Inv, Types, PollSemaphore, PollRegister
<1>3. IsSeq(job[d].todo) /\ job[d].todo # << >> /\ WaitsFor(d, job[d])
  BY WaitsForAll DEF PollSemaphore, PollRegister, Polling, Inv, Jobs, Job, Working
<1>4. Stepped(d, Tail(job[d].todo), 0, job[d].ticket)
  BY AdvanceIs DEF Inv, PollSemaphore, PollRegister
<1>5. /\ job'[d].todo = Tail(job[d].todo) /\ job'[d].step = 0 /\ job'[d].ticket = job[d].ticket
      /\ \A e \in Drivers \ {d} : job'[e] = job[e]
  BY <1>4 DEF Stepped
<1>6. Waits'
  BY <1>3, <1>5, WaitsForAll, WaitsAdvance DEF Inv
<1>7. CASE PollSemaphore(d)
  <2>1. Locked'
    BY <1>5, <1>7, LockedForAll, SameLocked, FreshLocked DEF Inv, PollSemaphore
  <2> QED BY <1>1, <1>2, <1>6, <1>7, <2>1, PollSemaphores, InvIs DEF PollSemaphore
<1>8. CASE PollRegister(d)
  <2>1. ~ Polling(d) /\ ~ Polling(d)'
    BY <1>5, <1>8, PollingIs DEF PollRegister, Command
  <2>2. \A e \in Drivers : (Polling(e)' <=> Polling(e)) /\ job'[e].ticket = job[e].ticket
    BY <1>5, <2>1, PollingIs
  <2>3. Semaphores'
    BY <1>8, <2>2, SameSemaphores DEF Inv, PollRegister
  <2> QED BY <1>1, <1>2, <1>6, <1>8, <2>3, PollRegisterLocked, InvIs DEF PollRegister
<1> QED BY <1>7, <1>8

LEMMA WriteInv ==
  ASSUME Inv, Fits(hw), NEW d \in Drivers, WriteRegister(d)
  PROVE  Inv' /\ hw' = hw
<1>1. Jobs' /\ Coherent'
  BY ThreadQuiet, QuietCoherent, InvIs
<1>2. Types'
  <2>1. DOMAIN regs' = DOMAIN regs
    BY DEF WriteRegister, Stored
  <2> QED BY <2>1 DEF Inv, Types, WriteRegister
<1>3. /\ IsSeq(job[d].todo) /\ job[d].todo # << >> /\ Command(d) = job[d].todo[1]
      /\ Command(d).via = "registers" /\ WaitsFor(d, job[d])
  BY SeqTail, WaitsForAll DEF WriteRegister, Inv, Jobs, Job, Working, Command
<1>4. Stepped(d, job[d].todo, job[d].step + 1, job[d].ticket)
  BY WriteIs DEF Inv
<1>5. /\ job'[d].todo = job[d].todo /\ job'[d].ticket = job[d].ticket
      /\ \A e \in Drivers \ {d} : job'[e] = job[e]
  BY <1>4 DEF Stepped
<1>6. WaitsFor(d, job'[d])
  BY <1>3, <1>5, WaitsWrite
<1>7. Waits'
  BY <1>5, <1>6, WaitsForAll DEF Inv
<1>8. ~ Polling(d) /\ ~ Polling(d)'
  BY <1>3, <1>5, PollingIs DEF Command
<1>9. \A e \in Drivers : (Polling(e)' <=> Polling(e)) /\ job'[e].ticket = job[e].ticket
  BY <1>5, <1>8, PollingIs
<1>10. Semaphores'
  BY <1>9, SameSemaphores DEF Inv, WriteRegister
<1> QED BY <1>1, <1>2, <1>7, <1>10, WriteLocked, InvIs DEF WriteRegister

(* A thread takes a new job, or finishes one. *)
LEMMA TurnsInv ==
  ASSUME Inv, NEW d \in Drivers, ~ Working(d), Types', Jobs', Coherent',
         UNCHANGED <<hw, queue, sem, regs, lock>>,
         \A e \in Drivers \ {d} : job'[e] = job[e],
         job'[d].step = 0, job'[d].ticket = job[d].ticket, WaitsFor(d, job'[d])
  PROVE  Inv' /\ hw' = hw
<1>1. Waits'
  BY WaitsForAll DEF Inv
<1>2. Locked'
  BY LockedForAll, SameLocked, FreshLocked DEF Inv
<1>3. ~ Polling(d) /\ ~ Polling(d)'
  BY PollingIs DEF Working
<1>4. \A e \in Drivers : (Polling(e)' <=> Polling(e)) /\ job'[e].ticket = job[e].ticket
  BY <1>3, PollingIs
<1>5. Semaphores'
  BY <1>4, SameSemaphores DEF Inv
<1> QED BY <1>1, <1>2, <1>5, InvIs

LEMMA BegunInv ==
  ASSUME Inv, NEW d \in Drivers, Begun(d), Types', Jobs', Coherent',
         UNCHANGED <<hw, queue, sem, regs, lock>>
  PROVE  Inv' /\ hw' = hw
<1>1. PICK kind, did, pages, frames, todo :
        /\ Started(d, kind, did, pages, frames, todo)
        /\ Fresh(d, todo, Other(job[d].ticket))
        /\ job[d].kind = "idle"
  BY DEF Begun
<1>2. /\ job'[d].step = 0 /\ job'[d].ticket = job[d].ticket /\ job'[d].todo = todo
      /\ \A e \in Drivers \ {d} : job'[e] = job[e]
  BY <1>1 DEF Started
<1>3. WaitsFor(d, job'[d])
  BY <1>1, <1>2, WaitsFresh
<1>4. ~ Working(d)
  BY <1>1 DEF Inv, Jobs, Job, Working
<1> QED BY <1>2, <1>3, <1>4, TurnsInv

LEMMA StoresTypes ==
  ASSUME Inv, NEW t \in [Dids \X PageAddrs -> Frames \cup {None}], Stores(t)
  PROVE  /\ table' \in [Dids \X PageAddrs -> Frames \cup {None}]
         /\ seen' \in [Dids \X PageAddrs -> Frames \cup {None}]
  BY DEF Stores, Inv, Types

LEMMA MapInv ==
  ASSUME Inv, Fits(hw), NEW d \in Drivers, NEW did \in Dids, NEW page \in PageAddrs,
         NEW frame \in Frames, Map(d, did, page, frame)
  PROVE  Inv' /\ hw' = hw
<1>1. Jobs' /\ Coherent' /\ Begun(d)
  BY MapCoherent
<1>2. Types'
  <2>1. [table EXCEPT ![<<did, page>>] = frame] \in [Dids \X PageAddrs -> Frames \cup {None}]
    BY DEF Inv, Types
  <2>2. /\ table' \in [Dids \X PageAddrs -> Frames \cup {None}]
        /\ seen' \in [Dids \X PageAddrs -> Frames \cup {None}]
    BY <2>1, StoresTypes DEF Map
  <2> QED BY <2>2 DEF Inv, Types, Map
<1> QED BY <1>1, <1>2, BegunInv DEF Map

LEMMA UnmapInv ==
  ASSUME Inv, Fits(hw), NEW d \in Drivers, NEW did \in Dids, NEW r \in Ranges, Unmap(d, did, r)
  PROVE  Inv' /\ hw' = hw
<1>1. Jobs' /\ Coherent' /\ Begun(d)
  BY UnmapCoherent
<1>2. Types'
  <2>1. PICK P : P = {p \in PageAddrs : InRange(p, r.base, r.order)}
    OBVIOUS
  <2>2. [t \in DOMAIN table |-> IF t \in {did} \X P THEN None ELSE table[t]]
          \in [Dids \X PageAddrs -> Frames \cup {None}]
    BY DEF Inv, Types
  <2>3. Stores([t \in DOMAIN table |-> IF t \in {did} \X P THEN None ELSE table[t]])
    BY <2>1 DEF Unmap
  <2>4. /\ table' \in [Dids \X PageAddrs -> Frames \cup {None}]
        /\ seen' \in [Dids \X PageAddrs -> Frames \cup {None}]
    BY <2>2, <2>3, StoresTypes
  <2> QED BY <2>4 DEF Inv, Types, Unmap
<1> QED BY <1>1, <1>2, BegunInv DEF Unmap

LEMMA DetachInv ==
  ASSUME Inv, Fits(hw), NEW d \in Drivers, NEW x \in Sids, Detach(d, x)
  PROVE  Inv' /\ hw' = hw
<1>1. Jobs' /\ Coherent' /\ Begun(d)
  BY DetachCoherent
<1>2. Types'
  BY DEF Inv, Types, Detach
<1> QED BY <1>1, <1>2, BegunInv DEF Detach

LEMMA FinishInv ==
  ASSUME Inv, NEW d \in Drivers, Finish(d)
  PROVE  Inv' /\ hw' = hw
<1>1. Jobs' /\ Coherent'
  BY FinishCoherent
<1>2. Types'
  <2>1. free' \subseteq Frames
    BY DEF Inv, Types, Jobs, Job, Finish
  <2>2. /\ table' \in [Dids \X PageAddrs -> Frames \cup {None}]
        /\ seen' \in [Dids \X PageAddrs -> Frames \cup {None}]
    BY DEF Inv, Types, Finish
  <2> QED BY <2>1, <2>2 DEF Inv, Types, Finish
<1>3. DOMAIN job = Drivers /\ job' = [job EXCEPT ![d] = Idle(job[d].ticket)]
  BY DEF Inv, Jobs, Finish
<1>4. /\ job'[d] = Idle(job[d].ticket)
      /\ \A e \in Drivers \ {d} : job'[e] = job[e]
  BY <1>3
<1>5. job'[d].step = 0 /\ job'[d].ticket = job[d].ticket /\ job'[d].todo = << >>
  BY <1>4 DEF Idle
<1>6. WaitsFor(d, job'[d])
  BY <1>5, WaitsNone
<1> QED BY <1>1, <1>2, <1>4, <1>5, <1>6, TurnsInv DEF Finish

(* Steps in which no thread takes part. *)
LEMMA SameJobsInv ==
  ASSUME Inv, job' = job, UNCHANGED <<hw, lock>>, regs'[hw.iva] = regs[hw.iva],
         Types', Coherent', Semaphores'
  PROVE  Inv' /\ hw' = hw
<1>1. Jobs'
  BY SameJobs DEF Inv
<1>2. Waits'
  BY WaitsForAll DEF Inv
<1>3. Locked'
  BY LockedForAll, SameLocked DEF Inv
<1> QED BY <1>1, <1>2, <1>3, InvIs

LEMMA SameQueueInv ==
  ASSUME Inv, job' = job, UNCHANGED <<hw, lock, queue, sem>>, regs'[hw.iva] = regs[hw.iva],
         Types', Coherent'
  PROVE  Inv' /\ hw' = hw
<1>1. \A d \in Drivers : (Polling(d)' <=> Polling(d)) /\ job'[d].ticket = job[d].ticket
  BY PollingIs
<1>2. Semaphores'
  BY <1>1, SameSemaphores DEF Inv
<1> QED BY <1>2, SameJobsInv

LEMMA InvalidateTypes ==
  ASSUME Inv, NEW c, Invalidate(c)
  PROVE  /\ contexts' \subseteq Sids \X Dids /\ tlb' \subseteq Translation
         /\ walk' \in [Sids -> Translation \cup {None}]
  BY DEF Invalidate, Inv, Types

LEMMA ExecuteInv ==
  ASSUME Inv, Fits(hw), NEW r \in 1 .. Len(queue), Execute(r)
  PROVE  Inv' /\ hw' = hw
<1>1. Coherent'
  BY ExecuteQuiet, QuietCoherent, InvIs
<1>2. IsSeq(queue')
  <2>1. IsSeq(queue) /\ queue' = Without(queue, r)
    BY DEF Inv, Types, Execute, Without
  <2> QED BY <2>1, SeqWithout
<1>3. /\ contexts' \subseteq Sids \X Dids /\ tlb' \subseteq Translation
      /\ walk' \in [Sids -> Translation \cup {None}]
  BY InvalidateTypes DEF Execute
<1>4. sem' \in [{Semaphore[d] : d \in Drivers} -> Tickets]
  BY ExecuteSem
<1>5. Types'
  BY <1>2, <1>3, <1>4 DEF Inv, Types, Execute, driver
<1> QED BY <1>1, <1>5, ExecuteSemaphores, SameJobsInv DEF Execute, driver

LEMMA RegistersInv ==
  ASSUME Inv, Fits(hw), Registers
  PROVE  Inv' /\ hw' = hw
<1>1. Coherent'
  BY RegistersQuiet, QuietCoherent, InvIs
<1>2. GSTS # hw.iva /\ CCMD # hw.iva /\ IOTLB(hw) # hw.iva
  BY DEF Fits
<1>3. CASE DoFlush
  <2>1. DOMAIN regs' = DOMAIN regs /\ regs'[hw.iva] = regs[hw.iva]
    BY <1>2, <1>3 DEF DoFlush, Inv, Types
  <2>2. Types'
    BY <1>3, <2>1 DEF Inv, Types, DoFlush, driver
  <2> QED BY <1>1, <1>3, <2>1, <2>2, SameQueueInv DEF DoFlush, driver
<1>4. ASSUME NEW at, NEW s, at # hw.iva, DoRegister(at, s)
      PROVE  Inv' /\ hw' = hw
  <2>1. DOMAIN regs' = DOMAIN regs /\ regs'[hw.iva] = regs[hw.iva]
    BY <1>4 DEF DoRegister, Inv, Types
  <2>2. /\ contexts' \subseteq Sids \X Dids /\ tlb' \subseteq Translation
        /\ walk' \in [Sids -> Translation \cup {None}]
    BY <1>4, InvalidateTypes DEF DoRegister
  <2>3. Types'
    BY <1>4, <2>1, <2>2 DEF Inv, Types, DoRegister, driver
  <2> QED BY <1>1, <1>4, <2>1, <2>3, SameQueueInv DEF DoRegister, driver
<1> QED BY <1>2, <1>3, <1>4 DEF Registers, DoCcmd, DoIotlb

LEMMA DeviceInv ==
  ASSUME Inv, Device
  PROVE  Inv' /\ hw' = hw
<1>0. ASSUME UNCHANGED <<hw, driver, queue, regs, sem>>, Types', Coherent'
      PROVE  Inv' /\ hw' = hw
  BY <1>0, SameQueueInv DEF driver
<1>1. CASE Evict
  <2>1. Coherent'
    BY <1>1, DeviceQuiet, QuietCoherent, InvIs
  <2>2. Types'
    BY <1>1 DEF Inv, Types, Evict, driver
  <2> QED BY <1>0, <1>1, <2>1, <2>2 DEF Evict
<1>2. ASSUME NEW t \in DOMAIN seen, Drain(t) PROVE Inv' /\ hw' = hw
  <2>1. Coherent'
    BY <1>2, DeviceQuiet, QuietCoherent, InvIs
  <2>2. Types'
    BY <1>2 DEF Inv, Types, Drain, driver
  <2> QED BY <1>0, <1>2, <2>1, <2>2 DEF Drain
<1>3. ASSUME NEW x \in Sids, CacheContext(x) PROVE Inv' /\ hw' = hw
  <2>1. Coherent'
    BY <1>3, CacheContextCoherent
  <2>2. Types'
    BY <1>3 DEF Inv, Types, CacheContext, driver
  <2> QED BY <1>0, <1>3, <2>1, <2>2 DEF CacheContext
<1>4. ASSUME NEW x \in Sids, NEW c \in contexts, NEW p \in PageAddrs, StartWalk(x, c, p)
      PROVE  Inv' /\ hw' = hw
  <2>1. Coherent'
    BY <1>4, StartWalkCoherent
  <2>2. [did |-> c[2], page |-> p, frame |-> seen[<<c[2], p>>]] \in Translation
    BY DEF Inv, Types, Translation
  <2>3. walk' \in [Sids -> Translation \cup {None}]
    BY <1>4, <2>2 DEF Inv, Types, StartWalk
  <2>4. Types'
    BY <1>4, <2>3 DEF Inv, Types, StartWalk, driver
  <2> QED BY <1>0, <1>4, <2>1, <2>4 DEF StartWalk
<1>5. ASSUME NEW x \in Sids, FinishWalk(x) PROVE Inv' /\ hw' = hw
  <2>1. Coherent'
    BY <1>5, DeviceQuiet, QuietCoherent, InvIs
  <2>2. walk[x] \in Translation
    BY <1>5 DEF Inv, Types, FinishWalk
  <2>3. Types'
    BY <1>5, <2>2 DEF Inv, Types, FinishWalk, driver
  <2> QED BY <1>0, <1>5, <2>1, <2>3 DEF FinishWalk
<1> QED BY <1>1, <1>2, <1>3, <1>4, <1>5 DEF Device

LEMMA AttachInv ==
  ASSUME Inv, NEW x \in Sids, NEW did \in Dids, Attach(x, did)
  PROVE  Inv' /\ hw' = hw
<1>1. Coherent'
  BY AttachCoherent
<1>2. Types'
  BY DEF Inv, Types, Attach
<1> QED BY <1>1, <1>2, SameQueueInv DEF Attach

LEMMA InitInv ==
  ASSUME Init
  PROVE  Inv
<1>1. /\ DOMAIN job = Drivers
      /\ \A d \in Drivers : job[d] = Idle(FirstTicket)
  BY DEF Init
<1>2. \A d \in Drivers :
        /\ job[d].kind = "idle" /\ job[d].did = None /\ job[d].pages = {} /\ job[d].frames = {}
        /\ job[d].todo = << >> /\ job[d].step = 0 /\ job[d].ticket = FirstTicket
  BY <1>1 DEF Idle
<1>3. Jobs
  <2>1. ASSUME NEW d \in Drivers PROVE Job(job[d])
    <3>1. IsJob(job[d])
      BY <1>1 DEF Idle, IsJob
    <3> QED BY <1>2, <3>1, SeqOne, TwoTickets DEF Job
  <2> QED BY <1>1, <2>1 DEF Jobs
<1>4. Types
  <2>1. IsSeq(queue)
    BY SeqOne DEF Init
  <2>2. DOMAIN regs = {GSTS, CCMD, hw.iva, IOTLB(hw)}
    BY DEF Init
  <2>3. sem \in [{Semaphore[d] : d \in Drivers} -> Tickets]
    BY TwoTickets DEF Init
  <2> QED BY <2>1, <2>2, <2>3 DEF Init, Types
<1>5. Waits
  BY <1>2, WaitsForAll, WaitsNone
<1>6. Locked
  BY <1>2 DEF Locked, LockedFor
<1>7. Semaphores
  <2>1. 1 .. Len(queue) = {}
    BY DEF Init
  <2>2. \A d \in Drivers : Signalled(d)
    BY <1>2 DEF Signalled, Init
  <2> QED BY <2>1, <2>2 DEF Semaphores
<1>8. \A t \in DOMAIN table : table[t] = None /\ seen = table
  BY DEF Init
<1>9. Translations = {} /\ contexts = {}
  BY DEF Init, Translations
<1>10. Apart /\ Owned
  <2>1. \A t \in DOMAIN table : table[t] \notin free
    BY <1>8, InvalidationAssumption DEF Init
  <2> QED BY <1>2, <1>8, <2>1 DEF Apart, Owned
<1>11. Seen /\ Stale /\ Contexts
  BY <1>2, <1>8, <1>9 DEF Seen, Stale, Contexts, Init
<1> QED BY <1>3, <1>4, <1>5, <1>6, <1>7, <1>10, <1>11 DEF Inv

LEMMA StutterInv ==
  ASSUME Inv, UNCHANGED vars
  PROVE  Inv' /\ hw' = hw
<1>1. /\ job' = job /\ UNCHANGED <<hw, lock, queue, sem, regs>>
      /\ UNCHANGED <<context, table, free, seen, contexts, tlb, walk>>
  BY DEF vars, driver
<1>2. Types'
  BY <1>1 DEF Inv, Types
<1>3. Coherent'
  <2>1. SameClaims /\ \A e \in Drivers : Keeps(e)
    BY <1>1, SameJobs, BystanderKeeps DEF Inv
  <2>2. Translations' = Translations
    BY <1>1 DEF Translations
  <2>3. Quiet
    BY <1>1, <2>1, <2>2 DEF Quiet, QuietTables, Keeps
  <2> QED BY <2>3, QuietCoherent, InvIs
<1> QED BY <1>1, <1>2, <1>3, SameQueueInv

LEMMA NextInv ==
  ASSUME Inv, Fits(hw), [Next]_vars
  PROVE  Inv' /\ Fits(hw)'
<1>1. Inv' /\ hw' = hw
  <2>1. ASSUME NEW d \in Drivers, Change(d) PROVE Inv' /\ hw' = hw
    BY <2>1, MapInv, UnmapInv, DetachInv DEF Change
  <2>2. ASSUME NEW d \in Drivers, Continue(d) PROVE Inv' /\ hw' = hw
    BY <2>2, SubmitInv, PollInv, WriteInv, FinishInv DEF Continue
  <2>3. ASSUME NEW d \in Drivers, Spin(d) PROVE Inv' /\ hw' = hw
    BY <2>3, StutterInv DEF Spin
  <2>4. ASSUME NEW x \in Sids, NEW did \in Dids, Attach(x, did) PROVE Inv' /\ hw' = hw
    BY <2>4, AttachInv
  <2>5. ASSUME NEW n \in DOMAIN queue, Execute(n) PROVE Inv' /\ hw' = hw
    <3>1. n \in 1 .. Len(queue)
      BY DEF Inv, Types, IsSeq
    <3> QED BY <2>5, <3>1, ExecuteInv
  <2>6. CASE Registers
    BY <2>6, RegistersInv
  <2>7. CASE Device
    BY <2>7, DeviceInv
  <2>8. CASE UNCHANGED vars
    BY <2>8, StutterInv
  <2> QED BY <2>1, <2>2, <2>3, <2>4, <2>5, <2>6, <2>7, <2>8 DEF Next
<1> QED BY <1>1

---------------------------------------------------------------------------
(* The words of the crates *)

(* A number below 64 is the sum of its bits, so that its word is its own. *)
LEMMA NumberOf ==
  ASSUME NEW n \in 0 .. 63
  PROVE  Number(BitsOf(n)) = n
<1>1. ASSUME NEW m \in 0 .. 63, BitsOf(m) = BitsOf(n) PROVE m = n
  <2>1. \A b \in 0 .. 5 : Bit(m, b) <=> Bit(n, b)
    <3>1. BitsOf(m) = {b \in 0 .. 5 : Bit(m, b)} /\ BitsOf(n) = {b \in 0 .. 5 : Bit(n, b)}
      BY BitsOfSmall
    <3> QED BY <1>1, <3>1
  <2>2. /\ Bit(m, 0) <=> Bit(n, 0)
        /\ Bit(m, 1) <=> Bit(n, 1)
        /\ Bit(m, 2) <=> Bit(n, 2)
        /\ Bit(m, 3) <=> Bit(n, 3)
        /\ Bit(m, 4) <=> Bit(n, 4)
        /\ Bit(m, 5) <=> Bit(n, 5)
    BY <2>1
  <2>3. /\ (m % 2 = 1) <=> (n % 2 = 1)
        /\ ((m \div 2) % 2 = 1) <=> ((n \div 2) % 2 = 1)
        /\ ((m \div 4) % 2 = 1) <=> ((n \div 4) % 2 = 1)
        /\ ((m \div 8) % 2 = 1) <=> ((n \div 8) % 2 = 1)
        /\ ((m \div 16) % 2 = 1) <=> ((n \div 16) % 2 = 1)
        /\ ((m \div 32) % 2 = 1) <=> ((n \div 32) % 2 = 1)
    BY <2>2 DEF Bit
  <2> QED BY <2>3
<1>2. Number(BitsOf(n)) \in 0 .. 63 /\ BitsOf(Number(BitsOf(n))) = BitsOf(n)
  BY DEF Number
<1> QED BY <1>1, <1>2

(* The capability getters that the driver asks. *)
LEMMA CapGetters ==
  ASSUME NEW cap
  PROVE  /\ Cap(cap).rwbf # {} <=> 4 \in cap
         /\ Cap(cap).caching_mode # {} <=> 7 \in cap
         /\ Cap(cap).page_selective_inval # {} <=> 39 \in cap
         /\ Cap(cap).max_amask_value = {b \in 0 .. 5 : b + 48 \in cap}
         /\ Cap(cap).read_drain \subseteq {0} /\ Cap(cap).write_drain \subseteq {0}
<1>1. /\ CapFigures.rwbf = At(Bool, 4) /\ CapFigures.caching_mode = At(Bool, 7)
      /\ CapFigures.page_selective_inval = At(Bool, 39)
      /\ CapFigures.max_amask_value = At(0 .. 5, 48)
      /\ CapFigures.write_drain = At(Bool, 54) /\ CapFigures.read_drain = At(Bool, 55)
  BY DEF CapFigures
<1>2. \A f \in DOMAIN CapFigures :
        Cap(cap)[f] = {b \in DOMAIN CapFigures[f] : CapFigures[f][b] \in cap}
  BY DEF Cap, Decoded
<1>3. {"rwbf", "caching_mode", "page_selective_inval", "max_amask_value", "write_drain",
       "read_drain"} \subseteq DOMAIN CapFigures
  BY DEF CapFigures
<1>4. \A B, first : DOMAIN At(B, first) = B /\ \A b \in B : At(B, first)[b] = first + b
  BY DEF At
<1>5. ASSUME NEW B, NEW f \in DOMAIN CapFigures, NEW first, CapFigures[f] = At(B, first)
      PROVE  Cap(cap)[f] = {b \in B : first + b \in cap}
  BY <1>2, <1>4, <1>5
<1>6. /\ Cap(cap).rwbf = {b \in {0} : 4 + b \in cap}
      /\ Cap(cap).caching_mode = {b \in {0} : 7 + b \in cap}
      /\ Cap(cap).page_selective_inval = {b \in {0} : 39 + b \in cap}
      /\ Cap(cap).max_amask_value = {b \in 0 .. 5 : 48 + b \in cap}
      /\ Cap(cap).write_drain = {b \in {0} : 54 + b \in cap}
      /\ Cap(cap).read_drain = {b \in {0} : 55 + b \in cap}
  BY <1>1, <1>3, <1>5 DEF Bool
<1> QED BY <1>6

(* The registers are where the driver takes them to be, and apart. *)
LEMMA Offsets ==
  ASSUME NEW h, h.iva \subseteq 4 .. 13, h.ecap \subseteq U64,
         \A b \in 0 .. 9 : b + 8 \in h.ecap <=> b + 4 \in h.iva
  PROVE  iotlb_offset(h.ecap) = [iva |-> h.iva, iotlb |-> IOTLB(h)]
<1>1. ASSUME NEW b \in 0 .. 9 PROVE b \in extract_bits(h.ecap, 17, 8) <=> b + 4 \in h.iva
  <2>1. \A c \in h.ecap : c \in Int
    BY DEF U64
  <2>2. b \in ShiftRight(h.ecap, 8) <=> b + 8 \in h.ecap
    BY <2>1 DEF ShiftRight
  <2> QED BY <2>2 DEF extract_bits
<1>2. extract_bits(h.ecap, 17, 8) \subseteq 0 .. 9
  BY DEF extract_bits
<1>3. ShiftLeft(extract_bits(h.ecap, 17, 8), 4) = h.iva
  <2> DEFINE e == extract_bits(h.ecap, 17, 8)
  <2>0. e \subseteq 0 .. 9 /\ \A b \in 0 .. 9 : b \in e <=> b + 4 \in h.iva
    BY <1>1, <1>2
  <2> HIDE DEF e
  <2>1. {c \in e : c + 4 < WordBits} = e
    <3>1. \A c \in e : c + 4 < WordBits
      BY <2>0 DEF WordBits
    <3> QED BY <3>1
  <2>2. ShiftLeft(e, 4) = {b + 4 : b \in e}
    BY <2>1 DEF ShiftLeft
  <2>3. ASSUME NEW x \in h.iva PROVE x \in {b + 4 : b \in e}
    <3>1. x - 4 \in 0 .. 9 /\ (x - 4) + 4 = x
      OBVIOUS
    <3>2. x - 4 \in e
      BY <2>0, <3>1
    <3> QED BY <3>1, <3>2
  <2>4. \A b \in e : b + 4 \in h.iva
    BY <2>0
  <2>5. {b + 4 : b \in e} = h.iva
    BY <2>3, <2>4
  <2> QED BY <2>2, <2>5 DEF e
<1> QED BY <1>3 DEF iotlb_offset, IOTLB

(* The offsets 1Ch and 28h in bits. *)
LEMMA RegisterBits == GSTS = {2, 3, 4} /\ CCMD = {3, 5}
<1>0. \A b \in 0 .. 5 : b \in {0, 1, 2, 3, 4, 5}
  OBVIOUS
<1>1. BitsOf(28) = {2, 3, 4}
  <2>1. ~Bit(28, 0) /\ ~Bit(28, 1) /\ Bit(28, 2) /\ Bit(28, 3) /\ Bit(28, 4) /\ ~Bit(28, 5)
    BY DEF Bit
  <2> QED BY <1>0, <2>1, BitsOfSmall
<1>2. BitsOf(40) = {3, 5}
  <2>1. ~Bit(40, 0) /\ ~Bit(40, 1) /\ ~Bit(40, 2) /\ Bit(40, 3) /\ ~Bit(40, 4) /\ Bit(40, 5)
    BY DEF Bit
  <2> QED BY <1>0, <2>1, BitsOfSmall
<1> QED BY <1>1, <1>2 DEF GSTS, CCMD

(* IVA and IOTLB, next to each other, are apart from GSTS and CCMD. *)
LEMMA OffsetsApart ==
  ASSUME NEW h, h.iva \subseteq 4 .. 13, h.iva # {5}
  PROVE  /\ GSTS \notin {CCMD, h.iva, IOTLB(h)} /\ CCMD \notin {h.iva, IOTLB(h)}
         /\ h.iva # IOTLB(h)
<1>1. 3 \notin h.iva /\ 2 \notin h.iva
  OBVIOUS
<1>2. IOTLB(h) # CCMD
  <2>1. ASSUME h.iva \cup {3} = {3, 5} PROVE h.iva = {5}
    BY <1>1, <2>1
  <2> QED BY <2>1, RegisterBits DEF IOTLB
<1>3. 3 \in IOTLB(h) /\ 2 \notin IOTLB(h)
  BY <1>1 DEF IOTLB
<1>4. 2 \in GSTS /\ 3 \in GSTS /\ 2 \notin CCMD /\ 3 \in CCMD
  BY RegisterBits
<1> QED BY <1>1, <1>2, <1>3, <1>4

(* The bits of a built word, one by one. *)
LEMMA BuiltBits ==
  ASSUME NEW w, NEW args, NEW x
  PROVE  x \in Built(w, args) <=>
           \E f \in DOMAIN w.put : \E b \in args[f] \cap DOMAIN w.put[f] : w.put[f][b] = x
  BY DEF Built, Encoded

(* IotlbInval::new with the start bit, as the IOMMU reads it. *)
LEMMA IotlbReads ==
  ASSUME NEW g \in SUBSET (0 .. 1), NEW did \in SUBSET U16, NEW r, NEW w, NEW word,
         word = Built(IotlbInval, [granularity |-> g, did |-> did, drain_reads |-> r,
                                   drain_writes |-> w]) \cup {Start}
  PROVE  Decoded(IotlbInval, word).granularity = g /\ Decoded(IotlbInval, word).did = did
<1> DEFINE put == IotlbInval.put
           args == [granularity |-> g, did |-> did, drain_reads |-> r, drain_writes |-> w]
<1>1. put = [granularity |-> Run(0, 0, 61, 60), did |-> Run(0, 0, 47, 32),
             drain_reads |-> Run(0, 0, 49, 49), drain_writes |-> Run(0, 0, 48, 48)]
  BY DEF IotlbInval
<1>2. /\ DOMAIN put.granularity = 0 .. 1 /\ \A b \in 0 .. 1 : put.granularity[b] = 60 + b
      /\ DOMAIN put.did = 0 .. 15 /\ \A b \in 0 .. 15 : put.did[b] = 32 + b
      /\ DOMAIN put.drain_reads = 0 .. 0 /\ \A b \in 0 .. 0 : put.drain_reads[b] = 49 + b
      /\ DOMAIN put.drain_writes = 0 .. 0 /\ \A b \in 0 .. 0 : put.drain_writes[b] = 48 + b
  <2>1. /\ put.granularity = Run(0, 0, 61, 60) /\ put.did = Run(0, 0, 47, 32)
        /\ put.drain_reads = Run(0, 0, 49, 49) /\ put.drain_writes = Run(0, 0, 48, 48)
    BY <1>1
  <2> QED BY <2>1 DEF Run, WordBits
<1>3. DOMAIN put = {"granularity", "did", "drain_reads", "drain_writes"}
  BY <1>1
<1>4. \A x : x \in word <=> x = 63 \/ \E f \in DOMAIN put : \E b \in args[f] \cap DOMAIN put[f] : put[f][b] = x
  BY BuiltBits DEF Start
<1> HIDE DEF put
<1>5. \A x : x \in word <=>
               \/ x = 63
               \/ \E b \in g : 60 + b = x
               \/ \E b \in did : 32 + b = x
               \/ \E b \in r \cap (0 .. 0) : 49 + b = x
               \/ \E b \in w \cap (0 .. 0) : 48 + b = x
  <2>1. \A x : (\E f \in DOMAIN put : \E b \in args[f] \cap DOMAIN put[f] : put[f][b] = x)
               <=> \/ \E b \in g \cap (0 .. 1) : put.granularity[b] = x
                   \/ \E b \in did \cap (0 .. 15) : put.did[b] = x
                   \/ \E b \in r \cap (0 .. 0) : put.drain_reads[b] = x
                   \/ \E b \in w \cap (0 .. 0) : put.drain_writes[b] = x
    BY <1>2, <1>3
  <2>2. g \cap (0 .. 1) = g /\ did \cap (0 .. 15) = did
    BY DEF U16
  <2> QED BY <1>2, <1>4, <2>1, <2>2
<1>6. \A b \in 0 .. 1 : 60 + b \in word <=> b \in g
  <2> SUFFICES ASSUME NEW b \in 0 .. 1 PROVE 60 + b \in word <=> b \in g
    OBVIOUS
  <2> QED BY <1>5 DEF U16
<1>7. \A b \in 0 .. 15 : 32 + b \in word <=> b \in did
  <2> SUFFICES ASSUME NEW b \in 0 .. 15 PROVE 32 + b \in word <=> b \in did
    OBVIOUS
  <2> QED BY <1>5 DEF U16
<1>8. /\ Decoded(IotlbInval, word).granularity = {b \in 0 .. 1 : 60 + b \in word}
      /\ Decoded(IotlbInval, word).did = {b \in 0 .. 15 : 32 + b \in word}
  BY DEF Decoded, IotlbInval, At, U16
<1> QED BY <1>6, <1>7, <1>8 DEF U16

(* Iva::new *)
LEMMA IvaReads ==
  ASSUME NEW addr \in SUBSET (12 .. 63), NEW am \in SUBSET (0 .. 5), NEW word,
         word = Built(Iva, [addr |-> addr, am |-> am])
  PROVE  Decoded(Iva, word).addr = addr /\ Decoded(Iva, word).am = am
<1> DEFINE put == Iva.put
           args == [addr |-> addr, am |-> am]
<1>1. put = [addr |-> Run(12, 0, 63, 12), am |-> Run(0, 0, 5, 0)]
  BY DEF Iva
<1>2. /\ DOMAIN put.addr = 12 .. 63 /\ \A b \in 12 .. 63 : put.addr[b] = b
      /\ DOMAIN put.am = 0 .. 5 /\ \A b \in 0 .. 5 : put.am[b] = b
  <2>1. put.addr = Run(12, 0, 63, 12) /\ put.am = Run(0, 0, 5, 0)
    BY <1>1
  <2> QED BY <2>1 DEF Run, WordBits
<1>3. DOMAIN put = {"addr", "am"}
  BY <1>1
<1>4. \A x : x \in word <=> \E f \in DOMAIN put : \E b \in args[f] \cap DOMAIN put[f] : put[f][b] = x
  BY BuiltBits
<1> HIDE DEF put
<1>5. \A x : x \in word <=> x \in addr \/ x \in am
  <2>1. \A x : (\E f \in DOMAIN put : \E b \in args[f] \cap DOMAIN put[f] : put[f][b] = x)
               <=> \/ \E b \in addr \cap (12 .. 63) : put.addr[b] = x
                   \/ \E b \in am \cap (0 .. 5) : put.am[b] = x
    BY <1>2, <1>3
  <2>2. addr \cap (12 .. 63) = addr /\ am \cap (0 .. 5) = am
    OBVIOUS
  <2>3. \A x : (\E b \in addr : put.addr[b] = x) <=> x \in addr
    BY <1>2
  <2>4. \A x : (\E b \in am : put.am[b] = x) <=> x \in am
    BY <1>2
  <2> QED BY <1>4, <2>1, <2>2, <2>3, <2>4
<1>6. /\ Decoded(Iva, word).addr = {b \in 12 .. 63 : 0 + b \in word}
      /\ Decoded(Iva, word).am = {b \in 0 .. 5 : 0 + b \in word}
  BY DEF Decoded, Iva, At
<1>7. \A b \in 12 .. 63 : 0 + b \in word <=> b \in addr
  BY <1>5
<1>8. \A b \in 0 .. 5 : 0 + b \in word <=> b \in am
  BY <1>5
<1> QED BY <1>6, <1>7, <1>8

(* Ccmd::new without a function mask, with the start bit. *)
LEMMA CcmdReads ==
  ASSUME NEW g \in SUBSET (0 .. 1), NEW did \in SUBSET U16, NEW sid \in SUBSET U16,
         NEW fm, fm = {}, NEW word,
         word = Built(Ccmd, [granularity |-> g, did |-> did, sid |-> sid, fm |-> fm]) \cup {Start}
  PROVE  Decoded(Ccmd, word).granularity = g /\ Decoded(Ccmd, word).sid = sid
<1> DEFINE put == Ccmd.put
           args == [granularity |-> g, did |-> did, sid |-> sid, fm |-> fm]
<1>1. put = [granularity |-> Run(0, 0, 5, 4), did |-> Run(0, 0, 23, 8),
             sid |-> Run(0, 0, 47, 32), fm |-> Run(0, 0, 33, 32)]
  BY DEF Ccmd
<1>2. /\ DOMAIN put.granularity = 0 .. 1 /\ \A b \in 0 .. 1 : put.granularity[b] = 4 + b
      /\ DOMAIN put.did = 0 .. 15 /\ \A b \in 0 .. 15 : put.did[b] = 8 + b
      /\ DOMAIN put.sid = 0 .. 15 /\ \A b \in 0 .. 15 : put.sid[b] = 32 + b
  <2>1. /\ put.granularity = Run(0, 0, 5, 4) /\ put.did = Run(0, 0, 23, 8)
        /\ put.sid = Run(0, 0, 47, 32)
    BY <1>1
  <2> QED BY <2>1 DEF Run, WordBits
<1>3. DOMAIN put = {"granularity", "did", "sid", "fm"}
  BY <1>1
<1>4. ASSUME NEW x
      PROVE  x \in word <=>
               x = 63 \/ \E f \in DOMAIN put : \E b \in args[f] \cap DOMAIN put[f] : put[f][b] = x
  <2> HIDE DEF args
  <2>1. x \in Built(Ccmd, args) <=>
          \E f \in DOMAIN Ccmd.put : \E b \in args[f] \cap DOMAIN Ccmd.put[f] : Ccmd.put[f][b] = x
    BY BuiltBits
  <2>2. word = Built(Ccmd, args) \cup {63}
    BY DEF args, Start
  <2> QED BY <2>1, <2>2
<1> HIDE DEF put
<1>5. \A x : x \in word <=>
               \/ x = 63
               \/ \E b \in g : 4 + b = x
               \/ \E b \in did : 8 + b = x
               \/ \E b \in sid : 32 + b = x
  <2>1. g \cap (0 .. 1) = g /\ did \cap (0 .. 15) = did /\ sid \cap (0 .. 15) = sid
    BY DEF U16
  <2>2. \A x : (\E f \in DOMAIN put : \E b \in args[f] \cap DOMAIN put[f] : put[f][b] = x)
               <=> \/ \E b \in g : put.granularity[b] = x
                   \/ \E b \in did : put.did[b] = x
                   \/ \E b \in sid : put.sid[b] = x
    BY <1>2, <1>3, <2>1
  <2>3. \A x : (\E b \in g : put.granularity[b] = x) <=> \E b \in g : 4 + b = x
    BY <1>2
  <2>4. \A x : (\E b \in did : put.did[b] = x) <=> \E b \in did : 8 + b = x
    BY <1>2 DEF U16
  <2>5. \A x : (\E b \in sid : put.sid[b] = x) <=> \E b \in sid : 32 + b = x
    BY <1>2 DEF U16
  <2> DEFINE Set(x) == \E f \in DOMAIN put : \E b \in args[f] \cap DOMAIN put[f] : put[f][b] = x
  <2>6. \A x : x \in word <=> x = 63 \/ Set(x)
    BY <1>4
  <2>7. \A x : Set(x) <=> \/ \E b \in g : 4 + b = x
                          \/ \E b \in did : 8 + b = x
                          \/ \E b \in sid : 32 + b = x
    BY <2>2, <2>3, <2>4, <2>5
  <2> HIDE DEF Set
  <2> QED BY <2>6, <2>7
<1>6. \A b \in 0 .. 1 : 4 + b \in word <=> b \in g
  <2> SUFFICES ASSUME NEW b \in 0 .. 1 PROVE 4 + b \in word <=> b \in g
    OBVIOUS
  <2>1. 4 + b # 63 /\ \A c \in 0 .. 15 : 8 + c # 4 + b /\ 32 + c # 4 + b
    OBVIOUS
  <2>2. \A c \in 0 .. 1 : 4 + c = 4 + b => c = b
    OBVIOUS
  <2> QED BY <1>5, <2>1, <2>2 DEF U16
<1>7. \A b \in 0 .. 15 : 32 + b \in word <=> b \in sid
  <2> SUFFICES ASSUME NEW b \in 0 .. 15 PROVE 32 + b \in word <=> b \in sid
    OBVIOUS
  <2>1. 32 + b # 63 /\ \A c \in 0 .. 15 : 8 + c # 32 + b /\ (32 + c = 32 + b => c = b)
    OBVIOUS
  <2>2. \A c \in 0 .. 1 : 4 + c # 32 + b
    OBVIOUS
  <2> QED BY <1>5, <2>1, <2>2 DEF U16
<1>8. /\ Decoded(Ccmd, word).granularity = {b \in 0 .. 1 : 4 + b \in word}
      /\ Decoded(Ccmd, word).sid = {b \in 0 .. 15 : 32 + b \in word}
  BY DEF Decoded, Ccmd, At, U16
<1> QED BY <1>6, <1>7, <1>8 DEF U16

(* The codes of the granularities. *)
LEMMA GranularityCodes ==
  Selective = {0, 1} /\ DomainWide = {1} /\ Global = {0}
  BY CodeValues DEF Selective, DomainWide, Global

(* The widths of the fields that carry what the driver says. *)
LEMMA PagesWidths ==
  /\ DOMAIN InvalidateIommuPages.domain_id = 0 .. 15
  /\ DOMAIN InvalidateIommuPages.addr = 12 .. 63
  /\ DOMAIN InvalidateIommuPages.size = 0 .. 0
<1>1. /\ InvalidateIommuPages.domain_id = DRun(0, 1, 15, 0)
      /\ InvalidateIommuPages.addr = Beside(DRun(12, 2, 31, 12), DRun(32, 3, 31, 0))
      /\ InvalidateIommuPages.size = DRun(0, 2, 0, 0)
  BY DEF InvalidateIommuPages, DFlag
<1>2. DOMAIN DRun(12, 2, 31, 12) = 12 .. 31 /\ DOMAIN DRun(32, 3, 31, 0) = 32 .. 63
  BY DEF DRun
<1>3. (12 .. 31) \cup (32 .. 63) = 12 .. 63
  OBVIOUS
<1>4. DOMAIN InvalidateIommuPages.addr = 12 .. 63
  BY <1>1, <1>2, <1>3 DEF Beside
<1> QED BY <1>1, <1>4 DEF DRun

(* InvalidateIommuPages, as the IOMMU reads it. *)
LEMMA AmdPagesRead ==
  ASSUME NEW did \in SUBSET U16, NEW addr \in SUBSET (12 .. 63), NEW size \in SUBSET {0}
  PROVE  AmdScope(AmdEncode(AmdPages(did, addr, size))) = AmdRange(did, addr, size)
<1> DEFINE c == AmdPages(did, addr, size)
<1>1. PICK args : args = c.args
  OBVIOUS
<1>2. c.op = "InvalidateIommuPages" /\ args.domain_id = did /\ args.addr = addr /\ args.size = size
  BY <1>1 DEF AmdPages
<1>3. PICK put, get : put = AmdWords[c.op].put /\ get = AmdFigures[c.op].get
  OBVIOUS
<1>4. put = InvalidateIommuPages /\ {"domain_id", "addr", "size"} \subseteq DOMAIN get
  BY <1>2, <1>3 DEF AmdWords, AmdFigures
<1> HIDE DEF c
<1>5. AmdDecode(AmdEncode(c)) = [op |-> c.op, args |-> Held(put, get, args)]
  <2>1. c.op \in AmdOps
    BY <1>2 DEF AmdOps, AmdFigures
  <2> QED BY <1>1, <1>3, <2>1, AmdRoundTrip
<1>6. /\ Held(put, get, args).domain_id = did
      /\ Held(put, get, args).addr = addr
      /\ Held(put, get, args).size = size
  <2>1. /\ Held(put, get, args).domain_id = did \cap DOMAIN put.domain_id
        /\ Held(put, get, args).addr = addr \cap DOMAIN put.addr
        /\ Held(put, get, args).size = size \cap DOMAIN put.size
    BY <1>2, <1>4 DEF Held
  <2>2. 0 .. 0 = {0}
    OBVIOUS
  <2> QED BY <1>4, <2>1, <2>2, PagesWidths DEF U16
<1>7. PICK d : d = AmdDecode(AmdEncode(c))
  OBVIOUS
<1>8. d.op = "InvalidateIommuPages" /\ d.args.domain_id = did /\ d.args.addr = addr /\ d.args.size = size
  BY <1>2, <1>5, <1>6, <1>7
<1>9. AmdScope(AmdEncode(c)) = AmdRange(did, addr, size)
  BY <1>7, <1>8 DEF AmdScope
<1> QED BY <1>9 DEF c

(* InvalidateDevTabEntry, as the IOMMU reads it. *)
LEMMA AmdDeviceRead ==
  ASSUME NEW sid \in SUBSET U16, NEW c,
         c = [op |-> "InvalidateDevTabEntry", args |-> [device_id |-> sid]]
  PROVE  AmdScope(AmdEncode(c)) = ContextScope(Selective, {}, sid, {})
<1>1. PICK args : args = c.args
  OBVIOUS
<1>2. c.op = "InvalidateDevTabEntry" /\ args.device_id = sid
  BY <1>1
<1>3. PICK put, get : put = AmdWords[c.op].put /\ get = AmdFigures[c.op].get
  OBVIOUS
<1>4. put = InvalidateDevTabEntry /\ "device_id" \in DOMAIN get
  BY <1>2, <1>3 DEF AmdWords, AmdFigures
<1>5. AmdDecode(AmdEncode(c)) = [op |-> c.op, args |-> Held(put, get, args)]
  <2>1. c.op \in AmdOps
    BY <1>2 DEF AmdOps, AmdFigures
  <2> QED BY <1>1, <1>3, <2>1, AmdRoundTrip
<1>6. Held(put, get, args).device_id = sid
  <2>1. Held(put, get, args).device_id = sid \cap DOMAIN put.device_id
    BY <1>2, <1>4 DEF Held
  <2>2. put.device_id = DRun(0, 0, 15, 0)
    BY <1>4 DEF InvalidateDevTabEntry
  <2>3. DOMAIN DRun(0, 0, 15, 0) = 0 .. 15
    BY DEF DRun
  <2> QED BY <2>1, <2>2, <2>3 DEF U16
<1>7. PICK d : d = AmdDecode(AmdEncode(c))
  OBVIOUS
<1>8. d.op = "InvalidateDevTabEntry" /\ d.args.device_id = sid
  BY <1>2, <1>5, <1>6, <1>7
<1> QED BY <1>7, <1>8 DEF AmdScope

(* The widths of the fields of CompletionWait. *)
LEMMA WaitWidths ==
  /\ DOMAIN CompletionWait.store = 0 .. 0 /\ DOMAIN CompletionWait.flush = 0 .. 0
  /\ DOMAIN CompletionWait.store_addr = 3 .. 51 /\ DOMAIN CompletionWait.store_data = 0 .. 63
<1>1. /\ CompletionWait.store = DRun(0, 0, 0, 0) /\ CompletionWait.flush = DRun(0, 0, 2, 2)
      /\ CompletionWait.store_addr = Beside(DRun(3, 0, 31, 3), DRun(32, 1, 19, 0))
      /\ CompletionWait.store_data = Beside(DRun(0, 2, 31, 0), DRun(32, 3, 31, 0))
  BY DEF CompletionWait, DFlag
<1>2. /\ DOMAIN DRun(3, 0, 31, 3) = 3 .. 31 /\ DOMAIN DRun(32, 1, 19, 0) = 32 .. 51
      /\ DOMAIN DRun(0, 2, 31, 0) = 0 .. 31 /\ DOMAIN DRun(32, 3, 31, 0) = 32 .. 63
  BY DEF DRun
<1>3. (3 .. 31) \cup (32 .. 51) = 3 .. 51 /\ (0 .. 31) \cup (32 .. 63) = 0 .. 63
  OBVIOUS
<1>4. /\ DOMAIN CompletionWait.store_addr = 3 .. 51
      /\ DOMAIN CompletionWait.store_data = 0 .. 63
  BY <1>1, <1>2, <1>3 DEF Beside
<1> QED BY <1>1, <1>4 DEF DRun

(* CompletionWait, as the IOMMU reads it. *)
LEMMA AmdWaitRead ==
  ASSUME NEW c, c.op = "CompletionWait", c.args.store \in SUBSET {0}, c.args.flush \in SUBSET {0},
         c.args.store_addr \in SUBSET (3 .. 51), c.args.store_data \in SUBSET U64
  PROVE  AmdScope(AmdEncode(c)) =
           WaitScope(c.args.store, c.args.store_addr, c.args.store_data, c.args.flush)
<1>0. PICK store, flush, addr, data :
        /\ store = c.args.store /\ flush = c.args.flush
        /\ addr = c.args.store_addr /\ data = c.args.store_data
  OBVIOUS
<1>1. PICK args : args = c.args
  OBVIOUS
<1>2. /\ c.op = "CompletionWait" /\ args.store = store /\ args.flush = flush
      /\ args.store_addr = addr /\ args.store_data = data
  BY <1>0, <1>1
<1>3. PICK put, get : put = AmdWords[c.op].put /\ get = AmdFigures[c.op].get
  OBVIOUS
<1>4. put = CompletionWait /\ {"store", "flush", "store_addr", "store_data"} \subseteq DOMAIN get
  BY <1>2, <1>3 DEF AmdWords, AmdFigures
<1>5. AmdDecode(AmdEncode(c)) = [op |-> c.op, args |-> Held(put, get, args)]
  <2>1. c.op \in AmdOps
    BY <1>2 DEF AmdOps, AmdFigures
  <2> QED BY <1>1, <1>3, <2>1, AmdRoundTrip
<1>6. /\ Held(put, get, args).store = store /\ Held(put, get, args).flush = flush
      /\ Held(put, get, args).store_addr = addr /\ Held(put, get, args).store_data = data
  <2>1. /\ Held(put, get, args).store = store \cap DOMAIN put.store
        /\ Held(put, get, args).flush = flush \cap DOMAIN put.flush
        /\ Held(put, get, args).store_addr = addr \cap DOMAIN put.store_addr
        /\ Held(put, get, args).store_data = data \cap DOMAIN put.store_data
    BY <1>2, <1>4 DEF Held
  <2>2. 0 .. 0 = {0}
    OBVIOUS
  <2> QED BY <1>0, <1>4, <2>1, <2>2, WaitWidths DEF U64
<1>7. PICK d : d = AmdDecode(AmdEncode(c))
  OBVIOUS
<1>8. /\ d.op = "CompletionWait" /\ d.args.store = store /\ d.args.flush = flush
      /\ d.args.store_addr = addr /\ d.args.store_data = data
  BY <1>2, <1>5, <1>6, <1>7
<1> QED BY <1>0, <1>7, <1>8 DEF AmdScope

(* The same for the fields of the descriptors. *)
LEMMA QiWidths ==
  /\ DOMAIN Granularity = 0 .. 1 /\ DOMAIN Did = 0 .. 15 /\ DOMAIN Sid = 0 .. 15
  /\ DOMAIN PageAddr = 12 .. 63 /\ DOMAIN AddressMask = 0 .. 5
  /\ DOMAIN Run(0, 0, 5, 5) = 0 .. 0 /\ DOMAIN Run(0, 0, 6, 6) = 0 .. 0
  /\ DOMAIN Run(0, 0, 63, 32) = 0 .. 31 /\ DOMAIN Run(3, 1, 63, 3) = 3 .. 63
  /\ DOMAIN Run(0, 0, 49, 48) = 0 .. 1
  BY DEF Granularity, Did, Sid, PageAddr, AddressMask, Run

(* QiIotlb::words, as the IOMMU reads them. *)
LEMMA QiPagesRead ==
  ASSUME NEW h, NEW g \in SUBSET (0 .. 1), NEW did \in SUBSET U16, NEW addr \in SUBSET (12 .. 63),
         NEW order \in 0 .. 63
  PROVE  QiScope(h, words(QiPages(g, did, addr, order))) = TranslationScope(h, g, did, addr, order)
<1> DEFINE c == QiPages(g, did, addr, order)
<1>0. BitsOf(order) \subseteq 0 .. 5
  BY BitsOfSmall
<1>1. PICK args : args = c.args
  OBVIOUS
<1>2. /\ c.op = "Iotlb" /\ args.granularity = g /\ args.did = did /\ args.addr = addr
      /\ args.am = BitsOf(order)
  BY <1>1 DEF QiPages
<1>3. PICK put, get : put = QiWords[c.op].put /\ get = QiFigures[c.op].get
  OBVIOUS
<1>4. /\ put = QiIotlb /\ {"granularity", "did", "addr", "am"} \subseteq DOMAIN get
      /\ c.op \in DOMAIN QiFigures
  BY <1>2, <1>3 DEF QiWords, QiFigures
<1> HIDE DEF c
<1>5. from_words(words(c)) = [op |-> c.op, args |-> Held(put, get, args)]
  BY <1>1, <1>3, <1>4, QiRoundTrip
<1>6. /\ Held(put, get, args).granularity = g /\ Held(put, get, args).did = did
      /\ Held(put, get, args).addr = addr /\ Held(put, get, args).am = BitsOf(order)
  <2>1. /\ Held(put, get, args).granularity = g \cap DOMAIN put.granularity
        /\ Held(put, get, args).did = did \cap DOMAIN put.did
        /\ Held(put, get, args).addr = addr \cap DOMAIN put.addr
        /\ Held(put, get, args).am = BitsOf(order) \cap DOMAIN put.am
    BY <1>2, <1>4 DEF Held
  <2>2. /\ put.granularity = Granularity /\ put.did = Did
        /\ put.addr = PageAddr /\ put.am = AddressMask
    BY <1>4 DEF QiIotlb
  <2> QED BY <1>0, <2>1, <2>2, QiWidths DEF U16
<1>7. PICK d : d = from_words(words(c))
  OBVIOUS
<1>8. /\ d.op = "Iotlb" /\ d.args.granularity = g /\ d.args.did = did
      /\ d.args.addr = addr /\ d.args.am = BitsOf(order)
  BY <1>2, <1>5, <1>6, <1>7
<1>9. QiScope(h, words(c)) = TranslationScope(h, g, did, addr, order)
  BY <1>7, <1>8, NumberOf DEF QiScope
<1> QED BY <1>9 DEF c

(* QiContextCache::words, as the IOMMU reads them. *)
LEMMA QiContextRead ==
  ASSUME NEW h, NEW did \in SUBSET U16, NEW sid \in SUBSET U16
  PROVE  QiScope(h, words(QiContext(did, sid))) = ContextScope(Selective, did, sid, {})
<1> DEFINE c == QiContext(did, sid)
<1>1. PICK args, none : args = c.args /\ none = {}
  OBVIOUS
<1>2. /\ c.op = "ContextCache" /\ args.granularity = Selective /\ args.did = did
      /\ args.sid = sid /\ args.fm = none
  BY <1>1 DEF QiContext
<1>3. PICK put, get : put = QiWords[c.op].put /\ get = QiFigures[c.op].get
  OBVIOUS
<1>4. /\ put = QiCc /\ {"granularity", "did", "sid", "fm"} \subseteq DOMAIN get
      /\ c.op \in DOMAIN QiFigures
  BY <1>2, <1>3 DEF QiWords, QiFigures
<1> HIDE DEF c
<1>5. from_words(words(c)) = [op |-> c.op, args |-> Held(put, get, args)]
  BY <1>1, <1>3, <1>4, QiRoundTrip
<1>6. /\ Held(put, get, args).granularity = Selective /\ Held(put, get, args).did = did
      /\ Held(put, get, args).sid = sid /\ Held(put, get, args).fm = none
  <2>1. /\ Held(put, get, args).granularity = Selective \cap DOMAIN put.granularity
        /\ Held(put, get, args).did = did \cap DOMAIN put.did
        /\ Held(put, get, args).sid = sid \cap DOMAIN put.sid
        /\ Held(put, get, args).fm = none \cap DOMAIN put.fm
    BY <1>2, <1>4 DEF Held
  <2>2. put.granularity = Granularity /\ put.did = Did /\ put.sid = Sid
    BY <1>4 DEF QiCc
  <2>3. Selective \subseteq 0 .. 1
    BY GranularityCodes
  <2> QED BY <1>1, <2>1, <2>2, <2>3, QiWidths DEF U16
<1>7. PICK d : d = from_words(words(c))
  OBVIOUS
<1>8. /\ d.op = "ContextCache" /\ d.args.granularity = Selective /\ d.args.did = did
      /\ d.args.sid = sid /\ d.args.fm = none
  BY <1>2, <1>5, <1>6, <1>7
<1>9. QiScope(h, words(c)) = ContextScope(Selective, did, sid, none)
  BY <1>7, <1>8 DEF QiScope
<1> QED BY <1>1, <1>9 DEF c

(* QiWait::words, as the IOMMU reads them. *)
LEMMA QiWaitRead ==
  ASSUME NEW h, NEW c, c.op = "Wait", c.args.status_write \in SUBSET {0},
         c.args.fence \in SUBSET {0}, c.args.status_addr \in SUBSET (3 .. 63),
         c.args.status_data \in SUBSET U32
  PROVE  QiScope(h, words(c)) =
           WaitScope(c.args.status_write, c.args.status_addr, c.args.status_data, c.args.fence)
<1>0. PICK write, holds, addr, data :
        /\ write = c.args.status_write /\ holds = c.args.fence
        /\ addr = c.args.status_addr /\ data = c.args.status_data
  OBVIOUS
<1>1. PICK args : args = c.args
  OBVIOUS
<1>2. /\ c.op = "Wait" /\ args.status_write = write /\ args.fence = holds
      /\ args.status_addr = addr /\ args.status_data = data
  BY <1>0, <1>1
<1>3. PICK put, get : put = QiWords[c.op].put /\ get = QiFigures[c.op].get
  OBVIOUS
<1>4. /\ put = QiWait /\ {"status_write", "fence", "status_addr", "status_data"} \subseteq DOMAIN get
      /\ c.op \in DOMAIN QiFigures
  BY <1>2, <1>3 DEF QiWords, QiFigures
<1>5. from_words(words(c)) = [op |-> c.op, args |-> Held(put, get, args)]
  BY <1>1, <1>3, <1>4, QiRoundTrip
<1>6. /\ Held(put, get, args).status_write = write /\ Held(put, get, args).fence = holds
      /\ Held(put, get, args).status_addr = addr /\ Held(put, get, args).status_data = data
  <2>1. /\ Held(put, get, args).status_write = write \cap DOMAIN put.status_write
        /\ Held(put, get, args).fence = holds \cap DOMAIN put.fence
        /\ Held(put, get, args).status_addr = addr \cap DOMAIN put.status_addr
        /\ Held(put, get, args).status_data = data \cap DOMAIN put.status_data
    BY <1>2, <1>4 DEF Held
  <2>2. /\ put.status_write = Run(0, 0, 5, 5) /\ put.fence = Run(0, 0, 6, 6)
        /\ put.status_data = Run(0, 0, 63, 32) /\ put.status_addr = Run(3, 1, 63, 3)
    BY <1>4 DEF QiWait
  <2>3. 0 .. 0 = {0}
    OBVIOUS
  <2> QED BY <1>0, <2>1, <2>2, <2>3, QiWidths DEF U32
<1>7. PICK d : d = from_words(words(c))
  OBVIOUS
<1>8. /\ d.op = "Wait" /\ d.args.status_write = write /\ d.args.fence = holds
      /\ d.args.status_addr = addr /\ d.args.status_data = data
  BY <1>2, <1>5, <1>6, <1>7
<1> QED BY <1>0, <1>7, <1>8 DEF QiScope

(* The size of a range, in the address of InvalidateIommuPages. *)
LEMMA AmdRangeCovers ==
  ASSUME NEW did, NEW order \in 0 .. 52, NEW base \in SUBSET ((12 + order) .. 63), NEW p,
         InRange(p, base, order)
  PROVE  Covers(AmdRange(did, base \cup (12 .. (10 + order)), IF order = 0 THEN {} ELSE Bool),
                did, p)
<1> DEFINE addr == base \cup (12 .. (10 + order))
           size == IF order = 0 THEN {} ELSE Bool
           s == AmdRange(did, addr, size)
<1>1. s = Pages(did, addr, order)
  <2>1. CASE order = 0
    BY <2>1 DEF AmdRange
  <2>2. CASE order # 0
    <3> DEFINE Closes(b) == b \notin addr /\ (12 .. (b - 1)) \subseteq addr
               zero == CHOOSE b \in 12 .. 63 : Closes(b)
    <3>1. 11 + order \in 12 .. 63 /\ Closes(11 + order)
      <4>1. 11 + order \in 12 .. 63 /\ 11 + order \notin base
        BY <2>2
      <4>2. 11 + order \notin 12 .. (10 + order) /\ (11 + order) - 1 = 10 + order
        OBVIOUS
      <4> QED BY <4>1, <4>2
    <3>2. ASSUME NEW b \in 12 .. 63, Closes(b) PROVE b = 11 + order
      <4>1. CASE b < 11 + order
        BY <3>2, <4>1
      <4>2. CASE b > 11 + order
        <5>1. 11 + order \in 12 .. (b - 1)
          BY <2>2, <4>2
        <5> QED BY <3>1, <3>2, <5>1
      <4> QED BY <4>1, <4>2
    <3>3. zero \in 12 .. 63 /\ Closes(zero)
      <4> HIDE DEF Closes
      <4> QED BY <3>1
    <3>4. zero = 11 + order
      <4> HIDE DEF zero, Closes
      <4> QED BY <3>2, <3>3
    <3>5. zero - 11 = order
      <4> HIDE DEF zero
      <4> QED BY <3>4
    <3>6. size # {}
      BY <2>2 DEF Bool
    <3>7. s = Pages(did, addr, zero - 11)
      BY <3>6 DEF AmdRange
    <3> QED BY <3>5, <3>7
  <2> QED BY <2>1, <2>2
<1>2. InRange(p, addr, order)
  <2>1. 12 .. (10 + order) \subseteq 12 .. (11 + order)
    OBVIOUS
  <2>2. addr \ (12 .. (11 + order)) = base \ (12 .. (11 + order))
    BY <2>1
  <2> QED BY <2>2 DEF InRange
<1> HIDE DEF addr, size
<1>3. s.op = "pages" /\ s.did = did /\ s.base = addr /\ s.order = order
  BY <1>1 DEF Pages
<1>4. Covers(s, did, p)
  <2> HIDE DEF s
  <2> QED BY <1>2, <1>3 DEF Covers
<1> QED BY <1>4 DEF addr, size

(* An address of ones stands for all pages. *)
LEMMA AmdDomainCovers ==
  ASSUME NEW did, NEW p \in SUBSET (12 .. 63)
  PROVE  Covers(AmdRange(did, 12 .. 62, Bool), did, p)
<1> DEFINE addr == 12 .. 62
           Closes(b) == b \notin addr /\ (12 .. (b - 1)) \subseteq addr
           zero == CHOOSE b \in 12 .. 63 : Closes(b)
<1>1. 63 \in 12 .. 63 /\ Closes(63)
  OBVIOUS
<1>2. ASSUME NEW b \in 12 .. 63, Closes(b) PROVE b = 63
  BY <1>2
<1>3. zero \in 12 .. 63 /\ Closes(zero)
  <2> HIDE DEF Closes
  <2> QED BY <1>1
<1>4. zero = 63
  <2> HIDE DEF zero, Closes
  <2> QED BY <1>2, <1>3
<1>5. AmdRange(did, addr, Bool) = Pages(did, addr, zero - 11)
  BY DEF AmdRange, Bool
<1>6. AmdRange(did, addr, Bool) = Pages(did, addr, 52)
  <2> HIDE DEF zero
  <2> QED BY <1>4, <1>5
<1>7. InRange(p, addr, 52)
  <2>1. 11 + 52 = 63
    OBVIOUS
  <2>2. p \ (12 .. 63) = {} /\ addr \ (12 .. 63) = {}
    OBVIOUS
  <2> QED BY <2>1, <2>2 DEF InRange
<1> HIDE DEF addr
<1>8. Covers(Pages(did, addr, 52), did, p)
  BY <1>7 DEF Pages, Covers
<1>9. Covers(AmdRange(did, addr, Bool), did, p)
  BY <1>6, <1>8
<1> QED BY <1>9 DEF addr

(* A page-selective or domain-wide invalidation that the IOMMU understands. *)
LEMMA ScopeCovers ==
  ASSUME NEW h, NEW did, NEW addr, NEW order, NEW p
  PROVE  /\ TranslationScope(h, DomainWide, did, addr, order) = Domain(did)
         /\ Covers(Domain(did), did, p)
         /\ "psi" \in h.built /\ order <= h.mamv /\ InRange(p, addr, order)
              => Covers(TranslationScope(h, Selective, did, addr, order), did, p)
<1>1. DomainWide # Global /\ Selective # Global /\ Selective # DomainWide
  BY GranularityCodes
<1>2. TranslationScope(h, DomainWide, did, addr, order) = Domain(did)
  BY <1>1 DEF TranslationScope
<1>3. Covers(Domain(did), did, p)
  BY DEF Covers, Domain
<1>4. ASSUME "psi" \in h.built, order <= h.mamv, InRange(p, addr, order)
      PROVE  Covers(TranslationScope(h, Selective, did, addr, order), did, p)
  <2>1. TranslationScope(h, Selective, did, addr, order) = Pages(did, addr, order)
    BY <1>1, <1>4 DEF TranslationScope
  <2>2. Covers(Pages(did, addr, order), did, p)
    BY <1>4 DEF Covers, Pages
  <2> QED BY <2>1, <2>2
<1> QED BY <1>2, <1>3, <1>4

(* A device-selective invalidation drops that device, whatever the mask. *)
LEMMA ContextDrops ==
  ASSUME NEW did, NEW sid, NEW fm
  PROVE  DropsContext(ContextScope(Selective, did, sid, fm), sid)
<1>1. Selective # Global
  BY GranularityCodes
<1>2. PICK m : m = MaskedBits(fm)
  OBVIOUS
<1>3. ContextScope(Selective, did, sid, fm) = [op |-> "contexts", masked |-> m, sid |-> sid]
  BY <1>1, <1>2 DEF ContextScope
<1> QED BY <1>3 DEF DropsContext

(* A command goes by the queue if there is one and it is not a flush. *)
LEMMA PreparedFor ==
  ASSUME NEW h, NEW c
  PROVE  /\ Queued(h) /\ c.op # "flush" =>
              Prepared(h, c).via = "queue" /\ Prepared(h, c).scope = QueueScope(h, QueueWord(h, c))
         /\ ~Queued(h) \/ c.op = "flush" =>
              /\ Prepared(h, c).via = "registers" /\ Prepared(h, c).writes = RegisterWrites(h, c)
              /\ Prepared(h, c).busy = Busy(h, c)
<1>1. CASE Queued(h) /\ c.op # "flush"
  BY <1>1 DEF Prepared
<1>2. CASE ~(Queued(h) /\ c.op # "flush")
  BY <1>2 DEF Prepared
<1> QED BY <1>1, <1>2

(* AMD: each command is read as what it stands for. *)
LEMMA AmdCommands ==
  ASSUME NEW h, h.vendor = "amd"
  PROVE  /\ Queued(h)
         /\ \A did \in SUBSET U16 : \A p \in SUBSET (12 .. 63) :
              Covers(QueueScope(h, QueueWord(h, Domain(did))), did, p)
         /\ \A did \in SUBSET U16 : \A order \in 0 .. 52 : \A base \in SUBSET ((12 + order) .. 63) :
              \A p : InRange(p, base, order) =>
                Covers(QueueScope(h, QueueWord(h, Pages(did, base, order))), did, p)
         /\ \A did : \A sid \in SUBSET U16 :
              DropsContext(QueueScope(h, QueueWord(h, Context(did, sid))), sid)
         /\ QueueScope(h, QueueWord(h, Fence)) = WaitScope({}, {}, {}, Bool)
         /\ \A addr \in SUBSET (3 .. 51) : \A data \in SUBSET U64 :
              QueueScope(h, QueueWord(h, Wait(addr, data))) = WaitScope(Bool, addr, data, {})
<1>0. \A c : QueueScope(h, QueueWord(h, c)) = AmdScope(AmdWord(c))
  BY DEF QueueScope, QueueWord
<1>1. Queued(h)
  BY DEF Queued
<1>2. ASSUME NEW did \in SUBSET U16, NEW p \in SUBSET (12 .. 63)
      PROVE  Covers(QueueScope(h, QueueWord(h, Domain(did))), did, p)
  <2>1. PICK c : c = Domain(did)
    OBVIOUS
  <2>2. c.op = "domain" /\ c.did = did
    BY <2>1 DEF Domain
  <2>3. AmdWord(c) = AmdEncode(AmdPages(did, 12 .. 62, Bool))
    BY <2>2 DEF AmdWord
  <2>4. 12 .. 62 \in SUBSET (12 .. 63) /\ Bool \in SUBSET {0}
    BY DEF Bool
  <2>5. AmdScope(AmdWord(c)) = AmdRange(did, 12 .. 62, Bool)
    BY <2>3, <2>4, AmdPagesRead
  <2> QED BY <1>0, <2>1, <2>5, AmdDomainCovers
<1>3. ASSUME NEW did \in SUBSET U16, NEW order \in 0 .. 52, NEW base \in SUBSET ((12 + order) .. 63),
             NEW p, InRange(p, base, order)
      PROVE  Covers(QueueScope(h, QueueWord(h, Pages(did, base, order))), did, p)
  <2>1. PICK c : c = Pages(did, base, order)
    OBVIOUS
  <2>2. c.op = "pages" /\ c.did = did /\ c.base = base /\ c.order = order
    BY <2>1 DEF Pages
  <2>3. PICK addr, size : addr = base \cup (12 .. (10 + order))
                          /\ size = IF order = 0 THEN {} ELSE Bool
    OBVIOUS
  <2>4. AmdWord(c) = AmdEncode(AmdPages(did, addr, size))
    BY <2>2, <2>3 DEF AmdWord
  <2>5. addr \in SUBSET (12 .. 63) /\ size \in SUBSET {0}
    BY <2>3 DEF Bool
  <2>6. AmdScope(AmdWord(c)) = AmdRange(did, addr, size)
    BY <2>4, <2>5, AmdPagesRead
  <2>7. Covers(AmdRange(did, addr, size), did, p)
    BY <1>3, <2>3, AmdRangeCovers
  <2> QED BY <1>0, <2>1, <2>6, <2>7
<1>4. ASSUME NEW did, NEW sid \in SUBSET U16
      PROVE  DropsContext(QueueScope(h, QueueWord(h, Context(did, sid))), sid)
  <2>1. PICK c : c = Context(did, sid)
    OBVIOUS
  <2>2. c.op = "context" /\ c.sid = sid
    BY <2>1 DEF Context
  <2>3. PICK e : e = [op |-> "InvalidateDevTabEntry", args |-> [device_id |-> sid]]
    OBVIOUS
  <2>4. AmdWord(c) = AmdEncode(e)
    BY <2>2, <2>3 DEF AmdWord
  <2>5. AmdScope(AmdEncode(e)) = ContextScope(Selective, {}, sid, {})
    BY <2>3, AmdDeviceRead
  <2> QED BY <1>0, <2>1, <2>4, <2>5, ContextDrops
<1>5. QueueScope(h, QueueWord(h, Fence)) = WaitScope({}, {}, {}, Bool)
  <2>1. PICK c, e, none : c = Fence /\ e = with_flush /\ none = {}
    OBVIOUS
  <2>2. c.op = "fence"
    BY <2>1 DEF Fence
  <2>3. AmdWord(c) = AmdEncode(e)
    BY <2>1, <2>2 DEF AmdWord
  <2>4. /\ e.op = "CompletionWait" /\ e.args.store = none /\ e.args.flush = Bool
        /\ e.args.store_addr = none /\ e.args.store_data = none
    BY <2>1 DEF with_flush
  <2>5. none \in SUBSET {0} /\ Bool \in SUBSET {0} /\ none \in SUBSET (3 .. 51) /\ none \in SUBSET U64
    BY <2>1 DEF Bool
  <2>6. AmdScope(AmdEncode(e)) = WaitScope(none, none, none, Bool)
    BY <2>4, <2>5, AmdWaitRead
  <2> QED BY <1>0, <2>1, <2>3, <2>6
<1>6. ASSUME NEW addr \in SUBSET (3 .. 51), NEW data \in SUBSET U64
      PROVE  QueueScope(h, QueueWord(h, Wait(addr, data))) = WaitScope(Bool, addr, data, {})
  <2>1. PICK c, e, none : c = Wait(addr, data) /\ e = with_store(addr, data) /\ none = {}
    OBVIOUS
  <2>2. c.op = "wait" /\ c.addr = addr /\ c.data = data
    BY <2>1 DEF Wait
  <2>3. AmdWord(c) = AmdEncode(e)
    BY <2>1, <2>2 DEF AmdWord
  <2>4. addr \ 0 .. 2 = addr
    OBVIOUS
  <2>5. /\ e.op = "CompletionWait" /\ e.args.store = Bool /\ e.args.flush = none
        /\ e.args.store_addr = addr /\ e.args.store_data = data
    BY <2>1, <2>4 DEF with_store
  <2>6. Bool \in SUBSET {0} /\ none \in SUBSET {0}
    BY <2>1 DEF Bool
  <2>7. AmdScope(AmdEncode(e)) = WaitScope(Bool, addr, data, none)
    BY <2>5, <2>6, AmdWaitRead
  <2> QED BY <1>0, <2>1, <2>3, <2>7
<1> QED BY <1>1, <1>2, <1>3, <1>4, <1>5, <1>6

(* Intel, with a queue. *)
LEMMA QiCommands ==
  ASSUME NEW h, h.vendor = "intel"
  PROVE  /\ \A did \in SUBSET U16 : \A p : Covers(QueueScope(h, QueueWord(h, Domain(did))), did, p)
         /\ \A did \in SUBSET U16 : \A order \in 0 .. 52 : \A base \in SUBSET (12 .. 63) :
              \A p : InRange(p, base, order) /\ "psi" \in h.built /\ order <= h.mamv =>
                Covers(QueueScope(h, QueueWord(h, Pages(did, base, order))), did, p)
         /\ \A did, sid \in SUBSET U16 :
              DropsContext(QueueScope(h, QueueWord(h, Context(did, sid))), sid)
         /\ QueueScope(h, QueueWord(h, Fence)) = WaitScope({}, {}, {}, Bool)
         /\ \A addr \in SUBSET (3 .. 51) : \A data \in SUBSET U32 :
              QueueScope(h, QueueWord(h, Wait(addr, data))) = WaitScope(Bool, addr, data, {})
<1>0. \A c : QueueScope(h, QueueWord(h, c)) = QiScope(h, QiWord(c))
  BY DEF QueueScope, QueueWord
<1>1. Selective \in SUBSET (0 .. 1) /\ DomainWide \in SUBSET (0 .. 1)
  BY GranularityCodes
<1>2. ASSUME NEW did \in SUBSET U16, NEW p
      PROVE  Covers(QueueScope(h, QueueWord(h, Domain(did))), did, p)
  <2>1. PICK c, none : c = Domain(did) /\ none = {}
    OBVIOUS
  <2>2. c.op = "domain" /\ c.did = did
    BY <2>1 DEF Domain
  <2>3. QiWord(c) = words(QiPages(DomainWide, did, none, 0))
    BY <2>1, <2>2 DEF QiWord
  <2>4. none \in SUBSET (12 .. 63) /\ 0 \in 0 .. 63
    BY <2>1
  <2>5. QiScope(h, QiWord(c)) = TranslationScope(h, DomainWide, did, none, 0)
    BY <1>1, <2>3, <2>4, QiPagesRead
  <2> QED BY <1>0, <2>1, <2>5, ScopeCovers
<1>3. ASSUME NEW did \in SUBSET U16, NEW order \in 0 .. 52, NEW base \in SUBSET (12 .. 63),
             NEW p, InRange(p, base, order), "psi" \in h.built, order <= h.mamv
      PROVE  Covers(QueueScope(h, QueueWord(h, Pages(did, base, order))), did, p)
  <2>1. PICK c : c = Pages(did, base, order)
    OBVIOUS
  <2>2. c.op = "pages" /\ c.did = did /\ c.base = base /\ c.order = order
    BY <2>1 DEF Pages
  <2>3. QiWord(c) = words(QiPages(Selective, did, base, order))
    BY <2>2 DEF QiWord
  <2>4. order \in 0 .. 63
    OBVIOUS
  <2>5. QiScope(h, QiWord(c)) = TranslationScope(h, Selective, did, base, order)
    BY <1>1, <2>3, <2>4, QiPagesRead
  <2> QED BY <1>0, <1>3, <2>1, <2>5, ScopeCovers
<1>4. ASSUME NEW did \in SUBSET U16, NEW sid \in SUBSET U16
      PROVE  DropsContext(QueueScope(h, QueueWord(h, Context(did, sid))), sid)
  <2>1. PICK c : c = Context(did, sid)
    OBVIOUS
  <2>2. c.op = "context" /\ c.did = did /\ c.sid = sid
    BY <2>1 DEF Context
  <2>3. QiWord(c) = words(QiContext(did, sid))
    BY <2>2 DEF QiWord
  <2> QED BY <1>0, <2>1, <2>3, QiContextRead, ContextDrops
<1>5. QueueScope(h, QueueWord(h, Fence)) = WaitScope({}, {}, {}, Bool)
  <2>1. PICK c, e, none : c = Fence /\ e = fence /\ none = {}
    OBVIOUS
  <2>2. c.op = "fence"
    BY <2>1 DEF Fence
  <2>3. QiWord(c) = words(e)
    BY <2>1, <2>2 DEF QiWord
  <2>4. /\ e.op = "Wait" /\ e.args.status_write = none /\ e.args.fence = Bool
        /\ e.args.status_data = none /\ e.args.status_addr = none
    BY <2>1 DEF fence
  <2>5. none \in SUBSET {0} /\ Bool \in SUBSET {0} /\ none \in SUBSET (3 .. 63) /\ none \in SUBSET U32
    BY <2>1 DEF Bool
  <2>6. QiScope(h, words(e)) = WaitScope(none, none, none, Bool)
    BY <2>4, <2>5, QiWaitRead
  <2> QED BY <1>0, <2>1, <2>3, <2>6
<1>6. ASSUME NEW addr \in SUBSET (3 .. 51), NEW data \in SUBSET U32
      PROVE  QueueScope(h, QueueWord(h, Wait(addr, data))) = WaitScope(Bool, addr, data, {})
  <2>1. PICK c, e, none : c = Wait(addr, data) /\ e = status_write(addr, data) /\ none = {}
    OBVIOUS
  <2>2. c.op = "wait" /\ c.addr = addr /\ c.data = data
    BY <2>1 DEF Wait
  <2>3. QiWord(c) = words(e)
    BY <2>1, <2>2 DEF QiWord
  <2>4. addr \ 0 .. 2 = addr
    OBVIOUS
  <2>5. /\ e.op = "Wait" /\ e.args.status_write = Bool /\ e.args.fence = none
        /\ e.args.status_data = data /\ e.args.status_addr = addr
    BY <2>1, <2>4 DEF status_write
  <2>6. Bool \in SUBSET {0} /\ none \in SUBSET {0} /\ addr \in SUBSET (3 .. 63)
    BY <2>1 DEF Bool
  <2>7. QiScope(h, words(e)) = WaitScope(Bool, addr, data, none)
    BY <2>5, <2>6, QiWaitRead
  <2> QED BY <1>0, <2>1, <2>3, <2>7
<1> QED BY <1>2, <1>3, <1>4, <1>5, <1>6

(* Intel, through the registers. *)
LEMMA DomainByRegister ==
  ASSUME NEW h, iotlb_offset(h.ecap) = [iva |-> h.iva, iotlb |-> IOTLB(h)], ~Queued(h),
         NEW did \in SUBSET U16, NEW p
  PROVE  DropsByRegister(h, Prepared(h, Domain(did)), did, p)
<1>1. PICK c, a, n, r, w, word :
        /\ c = Domain(did) /\ a = Prepared(h, c) /\ n = 1
        /\ r = Cap(h.cap).read_drain /\ w = Cap(h.cap).write_drain
        /\ word = Built(IotlbInval, [granularity |-> DomainWide, did |-> did,
                                     drain_reads |-> r, drain_writes |-> w]) \cup {Start}
  OBVIOUS
<1>2. c.op = "domain" /\ c.did = did
  BY <1>1 DEF Domain
<1>3. RegisterWrites(h, c) = <<[at |-> IOTLB(h), word |-> word]>>
  BY <1>1, <1>2 DEF RegisterWrites
<1>4. Busy(h, c) = [at |-> IOTLB(h), bit |-> Start]
  BY <1>2 DEF Busy
<1>5. /\ a.via = "registers" /\ a.writes = <<[at |-> IOTLB(h), word |-> word]>>
      /\ a.busy = [at |-> IOTLB(h), bit |-> Start]
  BY <1>1, <1>3, <1>4, PreparedFor
<1>6. Len(a.writes) = 1 /\ a.writes[1].at = IOTLB(h) /\ a.writes[1].word = word
  BY <1>5
<1>7. Start \in word
  BY <1>1
<1>8. Decoded(IotlbInval, word).granularity = DomainWide /\ Decoded(IotlbInval, word).did = did
  <2>1. DomainWide \in SUBSET (0 .. 1)
    BY GranularityCodes
  <2> QED BY <1>1, <2>1, IotlbReads
<1>9. \A v : IotlbScope(h, v, word) = Domain(did)
  <2> SUFFICES ASSUME NEW v PROVE IotlbScope(h, v, word) = Domain(did)
    OBVIOUS
  <2>1. PICK addr, order : addr = Decoded(Iva, v).addr /\ order = Number(Decoded(Iva, v).am)
    OBVIOUS
  <2>2. IotlbScope(h, v, word) = TranslationScope(h, DomainWide, did, addr, order)
    BY <1>8, <2>1 DEF IotlbScope
  <2> QED BY <2>2, ScopeCovers
<1>10. Domain(did).op = "domain" /\ Covers(Domain(did), did, p)
  BY ScopeCovers DEF Domain
<1>11. DropsByRegister(h, a, did, p)
  <2>1. IotlbScope(h, IF Len(a.writes) = 1 THEN {} ELSE a.writes[1].word, a.writes[Len(a.writes)].word)
          = Domain(did)
    BY <1>6, <1>9
  <2> QED BY <1>5, <1>6, <1>7, <1>10, <2>1 DEF DropsByRegister
<1> QED BY <1>1, <1>11

(* IVA and then IOTLB drop every page of the range. *)
LEMMA PagesByRegister ==
  ASSUME NEW h, iotlb_offset(h.ecap) = [iva |-> h.iva, iotlb |-> IOTLB(h)], ~Queued(h),
         NEW did \in SUBSET U16, NEW order \in 0 .. 52, NEW base \in SUBSET (12 .. 63),
         NEW p, InRange(p, base, order), "psi" \in h.built, order <= h.mamv
  PROVE  DropsByRegister(h, Prepared(h, Pages(did, base, order)), did, p)
<1>1. PICK c, a, r, w, am, iva, word :
        /\ c = Pages(did, base, order) /\ a = Prepared(h, c)
        /\ r = Cap(h.cap).read_drain /\ w = Cap(h.cap).write_drain
        /\ am = BitsOf(order)
        /\ iva = Built(Iva, [addr |-> base, am |-> am])
        /\ word = Built(IotlbInval, [granularity |-> Selective, did |-> did,
                                     drain_reads |-> r, drain_writes |-> w]) \cup {Start}
  OBVIOUS
<1>2. c.op = "pages" /\ c.did = did /\ c.base = base /\ c.order = order
  BY <1>1 DEF Pages
<1>3. RegisterWrites(h, c) = <<[at |-> h.iva, word |-> iva], [at |-> IOTLB(h), word |-> word]>>
  BY <1>1, <1>2 DEF RegisterWrites
<1>4. Busy(h, c) = [at |-> IOTLB(h), bit |-> Start]
  BY <1>2 DEF Busy
<1>5. /\ a.via = "registers"
      /\ a.writes = <<[at |-> h.iva, word |-> iva], [at |-> IOTLB(h), word |-> word]>>
      /\ a.busy = [at |-> IOTLB(h), bit |-> Start]
  BY <1>1, <1>3, <1>4, PreparedFor
<1>6. /\ Len(a.writes) = 2 /\ a.writes[2].at = IOTLB(h) /\ a.writes[2].word = word
      /\ a.writes[1].at = h.iva /\ a.writes[1].word = iva
  BY <1>5
<1>7. Start \in word
  BY <1>1
<1>8. Decoded(IotlbInval, word).granularity = Selective /\ Decoded(IotlbInval, word).did = did
  <2>1. Selective \in SUBSET (0 .. 1)
    BY GranularityCodes
  <2> QED BY <1>1, <2>1, IotlbReads
<1>9. Decoded(Iva, iva).addr = base /\ Number(Decoded(Iva, iva).am) = order
  <2>1. order \in 0 .. 63
    OBVIOUS
  <2>2. am \in SUBSET (0 .. 5)
    BY <1>1, <2>1, BitsOfSmall
  <2> QED BY <1>1, <2>1, <2>2, IvaReads, NumberOf
<1>10. IotlbScope(h, iva, word) = TranslationScope(h, Selective, did, base, order)
  BY <1>8, <1>9 DEF IotlbScope
<1>11. DropsByRegister(h, a, did, p)
  <2>1. IotlbScope(h, IF Len(a.writes) = 1 THEN {} ELSE a.writes[1].word, a.writes[Len(a.writes)].word)
          = TranslationScope(h, Selective, did, base, order)
    BY <1>6, <1>10
  <2>2. Covers(TranslationScope(h, Selective, did, base, order), did, p)
    BY ScopeCovers
  <2> QED BY <1>5, <1>6, <1>7, <2>1, <2>2 DEF DropsByRegister
<1> QED BY <1>1, <1>11

(* CCMD drops the context of the device. *)
LEMMA ContextByRegister ==
  ASSUME NEW h, ~Queued(h), NEW did \in SUBSET U16, NEW sid \in SUBSET U16
  PROVE  ForgetsByRegister(Prepared(h, Context(did, sid)), sid)
<1>1. PICK c, a, fm, word :
        /\ c = Context(did, sid) /\ a = Prepared(h, c) /\ fm = {}
        /\ word = Built(Ccmd, [granularity |-> Selective, did |-> did, sid |-> sid, fm |-> fm])
                    \cup {Start}
  OBVIOUS
<1>2. c.op = "context" /\ c.did = did /\ c.sid = sid
  BY <1>1 DEF Context
<1>3. RegisterWrites(h, c) = <<[at |-> CCMD, word |-> word]>>
  <2>1. [granularity |-> Selective, did |-> c.did, sid |-> c.sid, fm |-> {}] =
          [granularity |-> Selective, did |-> did, sid |-> sid, fm |-> fm]
    BY <1>1, <1>2
  <2> QED BY <1>1, <1>2, <2>1 DEF RegisterWrites
<1>4. Busy(h, c) = [at |-> CCMD, bit |-> Start]
  BY <1>2 DEF Busy
<1>5. /\ a.via = "registers" /\ a.writes = <<[at |-> CCMD, word |-> word]>>
      /\ a.busy = [at |-> CCMD, bit |-> Start]
  BY <1>1, <1>3, <1>4, PreparedFor
<1>6. Len(a.writes) = 1 /\ a.writes[1].at = CCMD /\ a.writes[1].word = word
  BY <1>5
<1>7. Start \in word
  BY <1>1
<1>8. Decoded(Ccmd, word).granularity = Selective /\ Decoded(Ccmd, word).sid = sid
  <2>1. Selective \in SUBSET (0 .. 1)
    BY GranularityCodes
  <2> QED BY <1>1, <2>1, CcmdReads
<1>9. PICK d, m : d = Decoded(Ccmd, word).did /\ m = Decoded(Ccmd, word).fm
  OBVIOUS
<1>10. CcmdScope(word) = ContextScope(Selective, d, sid, m)
  BY <1>8, <1>9 DEF CcmdScope
<1>11. DropsContext(CcmdScope(word), sid)
  BY <1>10, ContextDrops
<1> QED BY <1>1, <1>5, <1>6, <1>7, <1>11 DEF ForgetsByRegister

(* GCMD starts a flush, and GSTS is polled for its end. *)
LEMMA FlushByRegister ==
  ASSUME NEW h
  PROVE  Flushes(Prepared(h, FlushWrites))
<1>1. PICK c, a : c = FlushWrites /\ a = Prepared(h, c)
  OBVIOUS
<1>2. c.op = "flush"
  BY <1>1 DEF FlushWrites
<1>3. RegisterWrites(h, c) = <<[at |-> GCMD, word |-> {Gcmd.WBF}]>>
  BY <1>2 DEF RegisterWrites
<1>4. Busy(h, c) = [at |-> GSTS, bit |-> Gsts.WBFS]
  BY <1>2 DEF Busy
<1>5. /\ a.via = "registers" /\ a.writes = <<[at |-> GCMD, word |-> {Gcmd.WBF}]>>
      /\ a.busy = [at |-> GSTS, bit |-> Gsts.WBFS]
  BY <1>1, <1>2, <1>3, <1>4, PreparedFor
<1>6. Len(a.writes) = 1 /\ a.writes[1].at = GCMD /\ a.writes[1].word = {Gcmd.WBF}
  BY <1>5
<1>7. Gsts.WBFS = Gcmd.WBF
  BY DEF Gsts, Gcmd
<1> QED BY <1>1, <1>5, <1>6, <1>7 DEF Flushes

(* What the driver concludes from the capability registers. *)
LEMMA HonestCapabilities ==
  ASSUME NEW h \in Hardware
  PROVE  /\ "rwbf" \in h.built => NeedsFlush(h)
         /\ "cm" \in h.built => InvalidateOnMap(h)
         /\ h.vendor = "intel" =>
              /\ iotlb_offset(h.ecap) = [iva |-> h.iva, iotlb |-> IOTLB(h)]
              /\ \A order : PageSelective(h, order) => "psi" \in h.built
              /\ \A order \in 0 .. 52 : PageSelective(h, order) => order <= h.mamv
<1>1. CASE h.vendor = "amd"
  BY <1>1, HardwareAssumption
<1>2. CASE h.vendor = "intel"
  <2>1. Honest(h) /\ h.ecap \subseteq U64 /\ h.iva \subseteq 4 .. 13 /\ h.mamv \in Nat
    BY <1>2, HardwareAssumption
  <2>2. "rwbf" \in h.built => NeedsFlush(h)
    BY <1>2, <2>1, CapGetters DEF Honest, NeedsFlush
  <2>3. "cm" \in h.built => InvalidateOnMap(h)
    BY <1>2, <2>1, CapGetters DEF Honest, InvalidateOnMap
  <2>4. iotlb_offset(h.ecap) = [iva |-> h.iva, iotlb |-> IOTLB(h)]
    BY <2>1, Offsets DEF Honest
  <2>5. \A order : PageSelective(h, order) => "psi" \in h.built
    BY <1>2, <2>1, CapGetters DEF Honest, PageSelective
  <2>6. PICK n \in 0 .. 63 : n <= h.mamv /\ {b \in 0 .. 5 : b + 48 \in h.cap} = BitsOf(n)
    BY <2>1 DEF Honest
  <2>7. max_amask_value(h.cap) = n
    BY <2>6, CapGetters, NumberOf DEF max_amask_value
  <2>8. ASSUME NEW order \in 0 .. 52, PageSelective(h, order) PROVE order <= h.mamv
    <3>1. order <= n
      BY <1>2, <2>7, <2>8 DEF PageSelective
    <3> QED BY <2>1, <2>6, <3>1
  <2> QED BY <2>2, <2>3, <2>4, <2>5, <2>8
<1> QED BY <1>1, <1>2, HardwareAssumption

(* The crates' words fit all hardware that is honest about itself. *)
LEMMA HardwareFits ==
  ASSUME NEW h \in Hardware
  PROVE  Fits(h)
<1>0. h.vendor \in {"amd", "intel"}
  BY HardwareAssumption
<1>1. /\ \A did \in Dids : did \in SUBSET U16
      /\ \A x \in Sids : x \in SUBSET U16
      /\ \A p \in PageAddrs : p \in SUBSET (12 .. 63)
      /\ \A d \in Drivers : Semaphore[d] \in SUBSET (3 .. 51)
  BY WidthAssumption
<1>2. ASSUME NEW p \in PageAddrs, NEW r \in Ranges \cup {[base |-> p, order |-> 0]}
      PROVE  r.order \in 0 .. 52 /\ r.base \in SUBSET ((12 + r.order) .. 63)
  <2>1. CASE r \in Ranges
    BY <2>1, WidthAssumption
  <2>2. CASE r = [base |-> p, order |-> 0]
    <3>1. r.base = p /\ r.order = 0
      BY <2>2
    <3>2. 12 + 0 = 12
      OBVIOUS
    <3> QED BY <1>1, <3>1, <3>2
  <2> QED BY <2>1, <2>2
<1>3. GSTS \notin {CCMD, h.iva, IOTLB(h)} /\ CCMD \notin {h.iva, IOTLB(h)} /\ h.iva # IOTLB(h)
  BY OffsetsApart, HardwareAssumption
<1>4. ASSUME NEW did \in Dids, NEW p \in PageAddrs
      PROVE  Drops(h, Prepared(h, Domain(did)), did, p)
  <2>0. Domain(did).op # "flush"
    BY DEF Domain
  <2>1. CASE Queued(h)
    <3>1. Covers(QueueScope(h, QueueWord(h, Domain(did))), did, p)
      BY <1>0, <1>1, AmdCommands, QiCommands
    <3> QED BY <2>0, <2>1, <3>1, PreparedFor DEF Drops
  <2>2. CASE ~Queued(h)
    <3>1. h.vendor = "intel"
      BY <1>0, <2>2, AmdCommands
    <3>2. DropsByRegister(h, Prepared(h, Domain(did)), did, p)
      BY <1>1, <2>2, <3>1, HonestCapabilities, DomainByRegister
    <3> QED BY <3>2 DEF Drops
  <2> QED BY <2>1, <2>2
<1>5. ASSUME NEW did \in Dids, NEW p \in PageAddrs, NEW r \in Ranges \cup {[base |-> p, order |-> 0]},
             PageSelective(h, r.order), InRange(p, r.base, r.order)
      PROVE  Drops(h, Prepared(h, Pages(did, r.base, r.order)), did, p)
  <2>1. PICK base, order : base = r.base /\ order = r.order
    OBVIOUS
  <2>2. order \in 0 .. 52 /\ base \in SUBSET ((12 + order) .. 63) /\ InRange(p, base, order)
    BY <1>2, <1>5, <2>1
  <2>3. base \in SUBSET (12 .. 63)
    BY <2>2
  <2>4. h.vendor = "intel" => "psi" \in h.built /\ order <= h.mamv
    BY <1>5, <2>1, <2>2, HonestCapabilities
  <2>5. Pages(did, base, order).op # "flush"
    BY DEF Pages
  <2>6. CASE Queued(h)
    <3>1. CASE h.vendor = "amd"
      <4>1. Covers(QueueScope(h, QueueWord(h, Pages(did, base, order))), did, p)
        BY <1>1, <2>2, <3>1, AmdCommands
      <4> QED BY <2>1, <2>5, <2>6, <4>1, PreparedFor DEF Drops
    <3>2. CASE h.vendor = "intel"
      <4>1. Covers(QueueScope(h, QueueWord(h, Pages(did, base, order))), did, p)
        BY <1>1, <2>2, <2>3, <2>4, <3>2, QiCommands
      <4> QED BY <2>1, <2>5, <2>6, <4>1, PreparedFor DEF Drops
    <3> QED BY <1>0, <3>1, <3>2
  <2>7. CASE ~Queued(h)
    <3>1. h.vendor = "intel"
      BY <1>0, <2>7, AmdCommands
    <3>2. DropsByRegister(h, Prepared(h, Pages(did, base, order)), did, p)
      BY <1>1, <2>2, <2>3, <2>4, <2>7, <3>1, HonestCapabilities, PagesByRegister
    <3> QED BY <2>1, <3>2 DEF Drops
  <2> QED BY <2>6, <2>7
<1>6. ASSUME NEW did \in Dids, NEW x \in Sids PROVE Forgets(Prepared(h, Context(did, x)), x)
  <2>0. Context(did, x).op # "flush"
    BY DEF Context
  <2>1. CASE Queued(h)
    <3>1. DropsContext(QueueScope(h, QueueWord(h, Context(did, x))), x)
      BY <1>0, <1>1, AmdCommands, QiCommands
    <3> QED BY <2>0, <2>1, <3>1, PreparedFor DEF Forgets
  <2>2. CASE ~Queued(h)
    BY <1>1, <2>2, ContextByRegister DEF Forgets
  <2> QED BY <2>1, <2>2
<1>7. ASSUME Queued(h)
      PROVE  /\ Holds(Prepared(h, Fence).scope) /\ ~Completes(Prepared(h, Fence).scope)
             /\ \A d \in Drivers, t \in Tickets :
                  LET s == Prepared(h, Wait(Semaphore[d], t)).scope
                  IN  Completes(s) /\ s.addr = Semaphore[d] /\ s.data = t
  <2>1. Prepared(h, Fence).scope = WaitScope({}, {}, {}, Bool)
    <3>1. Fence.op # "flush"
      BY DEF Fence
    <3>2. QueueScope(h, QueueWord(h, Fence)) = WaitScope({}, {}, {}, Bool)
      BY <1>0, AmdCommands, QiCommands
    <3> QED BY <1>7, <3>1, <3>2, PreparedFor
  <2>2. ASSUME NEW d \in Drivers, NEW t \in Tickets
        PROVE  Prepared(h, Wait(Semaphore[d], t)).scope = WaitScope(Bool, Semaphore[d], t, {})
    <3>1. Wait(Semaphore[d], t).op # "flush"
      BY DEF Wait
    <3>2. QueueScope(h, QueueWord(h, Wait(Semaphore[d], t))) = WaitScope(Bool, Semaphore[d], t, {})
      <4>1. CASE h.vendor = "amd"
        <5>1. t \in SUBSET U64
          BY <4>1, WidthAssumption
        <5> QED BY <1>1, <4>1, <5>1, AmdCommands
      <4>2. CASE h.vendor = "intel"
        <5>1. t \in SUBSET U32
          BY <4>2, WidthAssumption
        <5> QED BY <1>1, <4>2, <5>1, QiCommands
      <4> QED BY <1>0, <4>1, <4>2
    <3> QED BY <1>7, <3>1, <3>2, PreparedFor
  <2>3. Bool # {}
    BY DEF Bool
  <2>4. ASSUME NEW write, NEW addr, NEW data, NEW holds, NEW s, s = WaitScope(write, addr, data, holds)
        PROVE  /\ s.op = "wait" /\ s.write = write /\ s.addr = addr /\ s.data = data
               /\ s.holds = holds
    BY <2>4 DEF WaitScope
  <2>5. PICK f, none : f = Prepared(h, Fence).scope /\ none = {}
    OBVIOUS
  <2>6. f.op = "wait" /\ f.write = none /\ f.holds = Bool
    BY <2>1, <2>4, <2>5
  <2>7. Holds(f) /\ ~Completes(f)
    BY <2>3, <2>5, <2>6 DEF Holds, Completes
  <2>8. ASSUME NEW d \in Drivers, NEW t \in Tickets, NEW s, s = Prepared(h, Wait(Semaphore[d], t)).scope
        PROVE  Completes(s) /\ s.addr = Semaphore[d] /\ s.data = t
    <3>1. s.op = "wait" /\ s.write = Bool /\ s.addr = Semaphore[d] /\ s.data = t
      BY <2>2, <2>4, <2>8
    <3> QED BY <2>3, <3>1 DEF Completes
  <2> QED BY <2>5, <2>7, <2>8
<1>8. NeedsFlush(h) => Flushes(Prepared(h, FlushWrites))
  BY FlushByRegister
<1> QED BY <1>3, <1>4, <1>5, <1>6, <1>7, <1>8, HonestCapabilities DEF Fits

(* Each invalidation that the driver issues, as the words of CommandCodec  *)
(* and RegisterWords, makes the IOMMU drop what the driver means, through  *)
(* the queue or the registers; a wait stores the ticket where the thread   *)
(* polls.  This is so for all ids, addresses, range sizes and capabilities *)
(* of the widths that the fields have.                                     *)
THEOREM CrateWordsFit == Spec => WordsFit
<1>1. Init => Fits(hw)
  BY HardwareFits DEF Init
<1>2. Next => UNCHANGED hw
  <2> SUFFICES ASSUME Next PROVE hw' = hw
    OBVIOUS
  <2>1. ASSUME NEW d \in Drivers, NEW did \in Dids, NEW p \in PageAddrs, NEW f \in Frames,
               Map(d, did, p, f)
        PROVE  hw' = hw
    BY <2>1 DEF Map
  <2>2. ASSUME NEW d \in Drivers, NEW did \in Dids, NEW r \in Ranges, Unmap(d, did, r)
        PROVE  hw' = hw
    BY <2>2 DEF Unmap
  <2>3. ASSUME NEW d \in Drivers, NEW x \in Sids, Detach(d, x) PROVE hw' = hw
    BY <2>3 DEF Detach
  <2>4. ASSUME NEW d \in Drivers, Continue(d) PROVE hw' = hw
    BY <2>4 DEF Continue, Submit, PollSemaphore, WriteRegister, PollRegister, Finish
  <2>5. ASSUME NEW d \in Drivers, Spin(d) PROVE hw' = hw
    BY <2>5 DEF Spin, vars
  <2>6. ASSUME NEW x \in Sids, NEW did \in Dids, Attach(x, did) PROVE hw' = hw
    BY <2>6 DEF Attach
  <2>7. ASSUME NEW n \in DOMAIN queue, Execute(n) PROVE hw' = hw
    BY <2>7 DEF Execute
  <2>8. Registers => hw' = hw
    BY DEF Registers, DoFlush, DoCcmd, DoIotlb, DoRegister
  <2>9. Device => hw' = hw
    BY DEF Device, Evict, Drain, CacheContext, StartWalk, FinishWalk
  <2> QED BY <2>1, <2>2, <2>3, <2>4, <2>5, <2>6, <2>7, <2>8, <2>9 DEF Next, Change
<1> QED BY <1>1, <1>2, PTL DEF Spec, WordsFit

---------------------------------------------------------------------------
(* Always *)

(* With words that fit, the invariant holds at all times. *)
LEMMA InvAlways == Spec /\ WordsFit => []Inv
<1>1. Init => Inv
  BY InitInv
<1>2. Inv /\ Fits(hw) /\ [Next]_vars => Inv' /\ Fits(hw)'
  BY NextInv
<1> QED BY <1>1, <1>2, PTL DEF Spec, WordsFit

(* However many threads, devices, domains and pages there are: the IOMMU   *)
(* writes to the semaphores alone and stores nothing but tickets there,    *)
(* contexts and caches name known domains and pages, and the register lock *)
(* belongs to a thread or to nobody.                                       *)
THEOREM TypeCorrect == Spec => []TypeOK
<1>1. Inv => TypeOK
  BY DEF Inv, Types, TypeOK, Translation
<1> QED BY <1>1, InvAlways, CrateWordsFit, PTL

(* With the words of the crates, a frame that Finish gave back is in no    *)
(* cache and in no walk: unmapping and detaching wait long enough, on      *)
(* hardware with or without a queue, write buffers and a caching mode,     *)
(* whatever the order in which threads, the IOMMU and devices take their   *)
(* steps.                                                                  *)
THEOREM FreedUnreachable == Spec => []FreedFramesUnreachable
<1>1. Inv => FreedFramesUnreachable
  <2> SUFFICES ASSUME Inv, NEW e \in Translations, e.frame \in free PROVE FALSE
    BY DEF FreedFramesUnreachable
  <2>1. e \in Translation
    BY DEF Inv, Types, Translations
  <2>2. e.frame # None /\ <<e.did, e.page>> \in DOMAIN table
    BY <2>1, InvalidationAssumption DEF Inv, Types, Translation
  <2>3. e.frame # table[<<e.did, e.page>>]
    BY <2>2 DEF Inv, Owned
  <2>4. PICK d \in Drivers : Leaves(d, e.frame)
    BY <2>2, <2>3 DEF Inv, Stale, Usable
  <2>5. e.frame \in job[d].frames
    BY <2>2, <2>4 DEF Leaves
  <2> QED BY <2>5 DEF Inv, Owned
<1> QED BY <1>1, InvAlways, CrateWordsFit, PTL

(* With the words of the crates, a device uses what is in the tables,      *)
(* except for a page that a thread is still working on: when Map, Unmap or *)
(* Detach is over, no old translation of the page is left.                 *)
THEOREM ChangesVisible == Spec => []CompletedChangesVisible
<1>1. Inv => CompletedChangesVisible
  <2> SUFFICES ASSUME Inv, NEW e \in tlb \cup {t \in Translations : t.frame # None},
                      e.frame # table[<<e.did, e.page>>]
               PROVE  ~ Unclaimed(e.did, {e.page})
    BY DEF CompletedChangesVisible
  <2>1. e \in Translations /\ Usable(e.frame)
    BY DEF Inv, Stale, Translations, Usable
  <2>2. PICK d \in Drivers : Claims(d, e.did, e.page)
    BY <2>1 DEF Inv, Stale
  <2> QED BY <2>2 DEF Claims, Unclaimed
<1> QED BY <1>1, InvAlways, CrateWordsFit, PTL
===========================================================================
