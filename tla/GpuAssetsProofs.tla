--------------------------- MODULE GpuAssetsProofs ---------------------------
(***************************************************************************)
(* The properties of GpuAssets hold for any numbers of assets, handles,    *)
(* commands and blocks.  The blocks of the temporary heap are accounted    *)
(* for on their own; the resources need the invariant that relates the     *)
(* table, the queue and the backend.                                       *)
(***************************************************************************)
EXTENDS GpuAssets, SequenceTheorems, TLAPS

-----------------------------------------------------------------------------
(* The temporary heap *)

\* TempExact, block by block, and the owner of the image.
TempInv ==
  /\ \A b : b \in heap <=> \/ b \in leaked
                           \/ b = image /\ b # NoBlock
                           \/ \E c \in queue : c.mem = b /\ b # NoBlock
  /\ \A b \in leaked : /\ b # NoBlock /\ b # image
                       /\ \A c \in queue : c.mem # b
  /\ \A c, d \in queue : c # d /\ c.mem # NoBlock => c.mem # d.mem
  /\ \A c \in queue : c.mem # NoBlock => c.mem # image
  /\ image = NoBlock <=> loading = Nobody

\* TempInv is at least as strong as TempExact.
LEMMA TempInvGivesExact == TempInv => TempExact
<1> SUFFICES ASSUME TempInv PROVE TempExact
  OBVIOUS
<1>1. ASSUME NEW b
      PROVE  b \in UNION {BlockOf(c.mem) : c \in queue}
             <=> \E c \in queue : c.mem = b /\ b # NoBlock
  BY DEF BlockOf
<1>2. \A b : b \in BlockOf(image) <=> b = image /\ b # NoBlock
  BY DEF BlockOf
<1>3. heap = leaked \cup BlockOf(image) \cup UNION {BlockOf(c.mem) : c \in queue}
  BY <1>1, <1>2 DEF TempInv
<1>4. leaked \cap (BlockOf(image) \cup UNION {BlockOf(c.mem) : c \in queue}) = {}
  BY <1>1, <1>2 DEF TempInv
<1>5. \A c, d \in queue : c # d => BlockOf(c.mem) \cap BlockOf(d.mem) = {}
  BY DEF TempInv, BlockOf
<1>6. \A c \in queue : image \notin BlockOf(c.mem)
  BY DEF TempInv, BlockOf
<1> QED
  BY <1>3, <1>4, <1>5, <1>6 DEF TempExact

\* The block that NGpu::Allocate returns.
LEMMA FreeBlockFacts ==
  ASSUME HeapHasRoom
  PROVE  FreeBlock \in Blocks /\ FreeBlock \notin heap /\ FreeBlock # NoBlock
BY BlocksAssumption DEF HeapHasRoom, FreeBlock, NoBlock

\* What a call may do with its block m, or none: one new command takes it, or
\* it is leaked; any other new commands have no data.
Taken(m) ==
  /\ heap' = heap \cup BlockOf(m)
  /\ queue \subseteq queue'
  /\ \/ /\ \E c \in queue' : /\ c.mem = m
                             /\ \A d \in queue' : d \in queue \/ d = c \/ d.mem = NoBlock
        /\ leaked' = leaked
     \/ /\ \A d \in queue' : d \in queue \/ d.mem = NoBlock
        /\ leaked' = leaked \cup BlockOf(m)
  /\ UNCHANGED <<image, loading>>

\* Such a call accounts for its block.
LEMMA TempTaken ==
  ASSUME TempInv, NEW m, m = NoBlock \/ m \notin heap, Taken(m)
  PROVE  TempInv'
<1>1. CASE /\ \E c \in queue' : /\ c.mem = m
                                /\ \A d \in queue' : d \in queue \/ d = c \/ d.mem = NoBlock
           /\ leaked' = leaked
  <2>1. PICK c \in queue' : /\ c.mem = m
                            /\ \A d \in queue' : d \in queue \/ d = c \/ d.mem = NoBlock
    BY <1>1
  <2> QED
    BY <1>1, <2>1 DEF TempInv, BlockOf, Taken
<1>2. CASE /\ \A d \in queue' : d \in queue \/ d.mem = NoBlock
           /\ leaked' = leaked \cup BlockOf(m)
  BY <1>2 DEF TempInv, BlockOf, Taken
<1> QED
  BY <1>1, <1>2 DEF Taken

\* A creation takes its block.
LEMMA TakenByCreate ==
  ASSUME NEW kind, NEW m, Create(kind, m), UNCHANGED <<image, loading>>
  PROVE  Taken(m)
<1> DEFINE r == Resource(kind, NewHandle(kind))
<1>1. Command("create", r, m).mem = m
  BY DEF Command
<1> HIDE DEF r
<1>2. CASE NewHandle(kind) = NoHandle
  BY <1>2 DEF Create, Taken
<1>3. CASE NewHandle(kind) # NoHandle
  <2>1. Put(Command("create", r, m), m) /\ heap' = heap \cup BlockOf(m)
    BY <1>3 DEF Create, r
  <2> QED
    BY <1>1, <2>1 DEF Put, Taken
<1> QED
  BY <1>2, <1>3

\* An update takes its block.
LEMMA TakenByUpdate ==
  ASSUME NEW r, NEW m, Update(r, m), UNCHANGED <<image, loading>>
  PROVE  Taken(m)
<1>1. Command("update", r, m).mem = m
  BY DEF Command
<1> QED
  BY <1>1 DEF Update, Put, Taken

\* Deletions have no data.
LEMMA TakenByDeletion ==
  ASSUME NEW k, NEW d \in UnloadTextureData(k)
  PROVE  d.mem = NoBlock
BY DEF UnloadTextureData, Deletion, Command

\* Which calls take which block.
LEMMA Takes ==
  ASSUME Next, ~\E p \in ProgramKeys : BeginProgram(p), ~LoadShaderFails,
         ~FinishProgram,
         ~\E c \in queue : Execute(c) /\ UNCHANGED <<image, loading>>
  PROVE  Taken(NoBlock) \/ (HeapHasRoom /\ Taken(FreeBlock))
<1>1. ASSUME NEW k \in TextureKeys, LoadTexture(k)
      PROVE  HeapHasRoom /\ Taken(FreeBlock)
  BY <1>1, TakenByCreate DEF LoadTexture
<1>2. ASSUME NEW k \in TextureKeys, LoadTextureFails(k)
      PROVE  HeapHasRoom /\ Taken(FreeBlock)
  BY <1>2, FreeBlockFacts DEF LoadTextureFails, Lose, Taken, BlockOf
<1>3. ASSUME NEW k \in TextureKeys, UnloadTexture(k)
      PROVE  Taken(NoBlock)
  BY <1>3, TakenByDeletion DEF UnloadTexture, Taken, BlockOf
<1>4. ASSUME NEW k \in TextureKeys, ReloadTexture(k)
      PROVE  HeapHasRoom /\ Taken(FreeBlock)
  <2> DEFINE c == Command("create", Resource("texture", NewHandle("texture")), FreeBlock)
             created == NewHandle("texture") # NoHandle /\ nPut < MaxCommands
  <2>1. /\ HeapHasRoom
        /\ heap' = heap \cup {FreeBlock}
        /\ queue' = (queue \cup UnloadTextureData(k)) \cup (IF created THEN {c} ELSE {})
        /\ leaked' = IF created THEN leaked ELSE leaked \cup {FreeBlock}
        /\ UNCHANGED <<image, loading>>
    BY <1>4 DEF ReloadTexture
  <2>2. c.mem = FreeBlock
    BY DEF Command
  <2> HIDE DEF c, created
  <2>3. BlockOf(FreeBlock) = {FreeBlock}
    BY <2>1, FreeBlockFacts DEF BlockOf
  <2> QED
    BY <2>1, <2>2, <2>3, TakenByDeletion DEF Taken
<1>5. ASSUME NEW k \in TextureKeys, ReloadTextureFails(k)
      PROVE  Taken(NoBlock) \/ (HeapHasRoom /\ Taken(FreeBlock))
  <2>1. CASE UNCHANGED <<heap, leaked>>
    BY <1>5, <2>1, TakenByDeletion DEF ReloadTextureFails, Taken, BlockOf
  <2>2. CASE HeapHasRoom /\ Lose(FreeBlock)
    BY <1>5, <2>2, TakenByDeletion, FreeBlockFacts
       DEF ReloadTextureFails, Taken, BlockOf, Lose
  <2> QED
    BY <1>5, <2>1, <2>2 DEF ReloadTextureFails
<1>6. ASSUME ShaderPresent PROVE Taken(NoBlock)
  BY <1>6 DEF ShaderPresent, frontend, Taken, BlockOf
<1>7. ASSUME LoadShader PROVE HeapHasRoom /\ Taken(FreeBlock)
  BY <1>7, TakenByCreate DEF LoadShader
<1>8. ASSUME CreateBuffer
      PROVE  Taken(NoBlock) \/ (HeapHasRoom /\ Taken(FreeBlock))
  BY <1>8, TakenByCreate DEF CreateBuffer
<1>9. ASSUME NEW h \in buffers, UpdateBuffer(h)
      PROVE  Taken(NoBlock) \/ (HeapHasRoom /\ Taken(FreeBlock))
  BY <1>9, TakenByUpdate DEF UpdateBuffer
<1>10. ASSUME NEW h \in buffers, DeleteBuffer(h)
       PROVE  Taken(NoBlock)
  BY <1>10 DEF DeleteBuffer, Deletion, Command, Taken, BlockOf
<1>11. ASSUME DrawWith(Held) PROVE Taken(NoBlock)
  BY <1>11 DEF DrawWith, Draw, Taken, BlockOf
<1>12. ASSUME Frame PROVE Taken(NoBlock)
  BY <1>12 DEF Frame, NextFrame, Shutdown, EndFrame, Command, Taken, BlockOf
<1>13. ASSUME NEW p \in ProgramKeys, BeginProgramFails(p)
       PROVE  HeapHasRoom /\ Taken(FreeBlock)
  BY <1>13, FreeBlockFacts DEF BeginProgramFails, Lose, Taken, BlockOf
<1> QED
  BY <1>1, <1>2, <1>3, <1>4, <1>5, <1>6, <1>7, <1>8, <1>9, <1>10, <1>11, <1>12, <1>13
     DEF Next

\* The initial state holds no block.
LEMMA TempInit == Init => TempInv
BY DEF Init, FrontendInit, TempInv

\* Every step keeps the account of the blocks.
LEMMA TempNext == ASSUME TempInv, [Next]_vars PROVE TempInv'
<1>1. ASSUME NEW p \in ProgramKeys, BeginProgram(p) PROVE TempInv'
  BY <1>1, FreeBlockFacts, ShadersAssumption DEF BeginProgram, Idle, TempInv
<1>2. ASSUME LoadShaderFails PROVE TempInv'
  BY <1>2, FreeBlockFacts DEF LoadShaderFails, InLoop, TempInv
<1>3. ASSUME FinishProgram PROVE TempInv'
  <2>1. /\ heap' = heap \ {image}
        /\ leaked' = leaked
        /\ queue \subseteq queue'
        /\ \A c \in queue' : c \in queue \/ c.mem = NoBlock
        /\ loading # Nobody /\ loading' = Nobody /\ image' = NoBlock
    <3> DEFINE r == Resource("program", NewHandle("program"))
    <3>1. leaked \cup BlockOf(NoBlock) = leaked
      BY DEF BlockOf
    <3>2. Command("create", r, NoBlock).mem = NoBlock
      BY DEF Command
    <3>3. \/ UNCHANGED <<queue, leaked>>
          \/ Put(Command("create", r, NoBlock), NoBlock)
      BY <1>3 DEF FinishProgram
    <3> HIDE DEF r
    <3> QED
      BY <1>3, <3>1, <3>2, <3>3 DEF FinishProgram, Put
  <2>2. image # NoBlock
    BY <2>1 DEF TempInv
  <2>3. \A b : (\E c \in queue' : c.mem = b /\ b # NoBlock)
              <=> (\E c \in queue : c.mem = b /\ b # NoBlock)
    BY <2>1
  <2>4. \A b : b \in heap' <=> \/ b \in leaked
                               \/ \E c \in queue : c.mem = b /\ b # NoBlock
    BY <2>1, <2>2 DEF TempInv
  <2>5. \A b \in leaked' : b # NoBlock /\ \A c \in queue' : c.mem # b
    BY <2>1 DEF TempInv
  <2>6. \A c, d \in queue' : c # d /\ c.mem # NoBlock => c.mem # d.mem
    BY <2>1 DEF TempInv
  <2>7. \A b : b \in heap' <=> \/ b \in leaked'
                               \/ b = image' /\ b # NoBlock
                               \/ \E c \in queue' : c.mem = b /\ b # NoBlock
    <3> TAKE b
    <3>1. b \in heap' <=> b \in leaked \/ \E c \in queue : c.mem = b /\ b # NoBlock
      BY <2>4
    <3>2. (\E c \in queue' : c.mem = b /\ b # NoBlock)
            <=> (\E c \in queue : c.mem = b /\ b # NoBlock)
      BY <2>3
    <3>3. ~(b = image' /\ b # NoBlock)
      BY <2>1
    <3>4. b \in leaked' <=> b \in leaked
      BY <2>1
    <3> QED
      BY <3>1, <3>2, <3>3, <3>4
  <2>8. \A b \in leaked' : b # image'
    BY <2>1, <2>5
  <2>9. \A c \in queue' : c.mem # NoBlock => c.mem # image'
    BY <2>1
  <2> QED
    BY <2>1, <2>5, <2>6, <2>7, <2>8, <2>9 DEF TempInv
<1>4. ASSUME NEW c \in queue, Execute(c), UNCHANGED <<image, loading>>
      PROVE  TempInv'
  <2>1. /\ queue' = queue \ {c} /\ heap' = heap \ BlockOf(c.mem)
        /\ leaked' = leaked
    BY <1>4 DEF Execute, Released
  <2> QED
    BY <1>4, <2>1 DEF TempInv, BlockOf
<1>5. CASE UNCHANGED vars
  BY <1>5 DEF vars, frontend, TempInv
<1>6. CASE Taken(NoBlock) \/ (HeapHasRoom /\ Taken(FreeBlock))
  BY <1>6, TempTaken, FreeBlockFacts
<1> QED
  BY <1>1, <1>2, <1>3, <1>4, <1>5, <1>6, Takes

\* Each block of the temporary heap is released exactly once, or has been
\* leaked by a failed read, a failed shader or a lost command.
THEOREM TempHeapExact == Spec => []TempExact
<1>1. Init => TempInv
  BY TempInit
<1>2. TempInv /\ [Next]_vars => TempInv'
  BY TempNext
<1>3. TempInv => TempExact
  BY TempInvGivesExact
<1> QED
  BY <1>1, <1>2, <1>3, PTL DEF Spec

-----------------------------------------------------------------------------
(* The resources *)

\* A handle that has been given out.
Known(r) == r.kind \in Kinds /\ r.id \in 1 .. nHandles[r.kind]

\* The table and the handles: no two keys share a resource.
TableInv ==
  /\ nHandles \in [Kinds -> Nat]
  /\ \A k \in DOMAIN table : table[k] \in 0 .. nHandles[KindOf(k)]
  /\ \A k, l \in DOMAIN table :
       KindOf(k) = KindOf(l) /\ table[k] = table[l] /\ table[k] # NoHandle => k = l
  /\ buffers \subseteq 1 .. nHandles["buffer"]
  /\ loading \in ProgramKeys \cup {Nobody}
  /\ todo \in Seq(ShaderKeys)

GoodCommand(c) ==
  \/ c.op \in {"create", "update"} /\ c.res.kind \in Kinds
  \/ c = Deletion(c.res) /\ c.res.kind \in {"texture", "buffer"}
  \/ c.op \in {"render", "shutdown"} /\ c = Command(c.op, NoResource, NoBlock)

\* The commands in the queue, and the draw call that ends a frame.
QueueInv ==
  /\ \A c \in queue : GoodCommand(c)
  /\ phase = "execute" => drawn = {} \/ \E c \in queue : c.op = "render"

\* Only resources that have been given out are mentioned anywhere.
KnownInv ==
  \A r \in Held \cup live \cup dropped \cup Pending("create")
             \cup Pending("update") \cup Pending("delete") : Known(r)

There == live \cup Pending("create") \cup dropped

\* ResourcesExact, and what is used in the frame exists or will.
OwnInv ==
  /\ ResourcesExact
  /\ phase # "off" =>
       Pending("update") \cup Pending("delete") \cup drawn \subseteq There

\* The program that is being loaded has no entry yet.
LoadingInv == loading # Nobody => loading \notin DOMAIN table

ResInv == TableInv /\ QueueInv /\ KnownInv /\ OwnInv

-----------------------------------------------------------------------------
(* Each command finds what it uses *)

\* CommandType by cases: what comes before what.
LEMMA Types ==
  ASSUME NEW kind
  PROVE  /\ kind \in Kinds => CommandType("create", kind) \in 1 .. 4
         /\ CommandType("create", "shader") = 3
         /\ CommandType("create", "program") = 4
         /\ CommandType("update", kind) = 5
         /\ CommandType("render", kind) = 6
         /\ kind \in {"texture", "buffer"} => CommandType("delete", kind) \in 7 .. 8
         /\ CommandType("shutdown", kind) = 9
BY DEF CommandType, Kinds

\* Once a command that is no creation comes next, all resources exist.
LEMMA NextNotCreate ==
  ASSUME QueueInv, NEW c \in queue, IsNext(c), c.op # "create"
  PROVE  Pending("create") = {}
<1> SUFFICES ASSUME NEW d \in queue, d.op = "create" PROVE FALSE
  BY DEF Pending
<1>1. d.res.kind \in Kinds
  BY DEF QueueInv, GoodCommand, Deletion, Command
<1>2. CommandType(d.op, d.res.kind) \in 1 .. 4
  BY <1>1, Types
<1>3. CommandType(c.op, c.res.kind) \in 5 .. 9
  BY Types DEF QueueInv, GoodCommand, Deletion, Command
<1> QED
  BY <1>2, <1>3 DEF IsNext, Before

\* A deletion comes after all updates and after the draw calls.
LEMMA NextDelete ==
  ASSUME QueueInv, phase = "execute", NEW c \in queue, IsNext(c), c.op = "delete"
  PROVE  Pending("update") = {} /\ drawn = {}
<1>1. CommandType(c.op, c.res.kind) \in 7 .. 8
  BY Types DEF QueueInv, GoodCommand, Deletion, Command
<1>2. ASSUME NEW d \in queue, d.op \in {"update", "render"} PROVE FALSE
  <2>1. CommandType(d.op, d.res.kind) \in 5 .. 6
    BY <1>2, Types
  <2> QED
    BY <1>1, <2>1 DEF IsNext, Before
<1> QED
  BY <1>2 DEF QueueInv, Pending

\* The invariant puts what a command uses on the backend in time.
LEMMA InvGivesUse == ResInv => UseFindsResource
<1> SUFFICES ASSUME ResInv, phase = "execute", NEW c \in queue, IsNext(c),
                    NEW r \in Uses(c)
             PROVE  r \in live \cup dropped
  BY DEF UseFindsResource
<1>1. CASE c.op \in {"update", "delete"}
  <2>1. r = c.res
    BY <1>1 DEF Uses
  <2>2. r \in There
    BY <1>1, <2>1 DEF ResInv, OwnInv, Pending
  <2> QED
    BY <1>1, <2>2, NextNotCreate DEF ResInv, There
<1>2. CASE c.op = "render"
  <2>1. r \in There
    BY <1>2 DEF Uses, ResInv, OwnInv
  <2> QED
    BY <1>2, <2>1, NextNotCreate DEF ResInv, There
<1>3. CASE c.op = "create" /\ c.res.kind = "program"
  <2>1. r \in ShadersOf(c.res)
    BY <1>3 DEF Uses
  <2>2. PICK s \in ShaderKeys \cap DOMAIN table :
          table[s] # NoHandle /\ r = HandleOf(s)
    BY <2>1 DEF ShadersOf
  <2>3. r.kind = "shader"
    BY <2>2, KeysAssumption DEF HandleOf, KindOf, Resource
  <2>4. r \in There
    BY <2>2 DEF ResInv, OwnInv, ResourcesExact, There, Held
  <2>5. r \notin Pending("create")
    <3> SUFFICES ASSUME NEW d \in queue, d.op = "create", d.res = r PROVE FALSE
      BY DEF Pending
    <3>1. CommandType(d.op, d.res.kind) = 3 /\ CommandType(c.op, c.res.kind) = 4
      BY <1>3, <2>3, Types
    <3> QED
      BY <3>1 DEF IsNext, Before
  <2> QED
    BY <2>4, <2>5 DEF There
<1>4. CASE ~(c.op \in {"update", "delete", "render"})
           /\ ~(c.op = "create" /\ c.res.kind = "program")
  BY <1>4 DEF Uses
<1> QED
  BY <1>1, <1>2, <1>3, <1>4

-----------------------------------------------------------------------------
(* Calls of the client *)

\* A handle stays given out.
KnownStays == \A r : Known(r) => Known(r)'

\* What a call may do to the resources: it creates those of C, finds no room
\* for those of X, deletes those of D, and uses what is held after it.
Changes(C, X, D) ==
  /\ live' = live
  /\ dropped' = dropped \cup X
  /\ Pending("create")' = Pending("create") \cup C
  /\ Pending("delete")' = Pending("delete") \cup D
  /\ Pending("update")' \subseteq Pending("update") \cup Held'
  /\ drawn' \subseteq drawn \cup Held'
  /\ KnownStays
  /\ \A r \in C \cup X : ~Known(r) /\ Known(r)'
  /\ D \subseteq Held /\ D \cap Held' = {}
  /\ Held' \subseteq Held \cup C \cup X
  /\ Held \subseteq Held' \cup D
  /\ C \subseteq Held'

\* Such a call keeps the books.
LEMMA ChangesKeep ==
  ASSUME KnownInv, OwnInv, phase # "off", NEW C, NEW X, NEW D, Changes(C, X, D)
  PROVE  KnownInv' /\ OwnInv'
<1> DEFINE Pc == Pending("create")
           Pd == Pending("delete")
           Pu == Pending("update")
<1>1. /\ Held \subseteq live \cup Pc \cup dropped
      /\ Held \cap Pd = {}
      /\ live \cup Pc \subseteq Held \cup Pd
      /\ Pu \cup Pd \cup drawn \subseteq live \cup Pc \cup dropped
  BY DEF OwnInv, ResourcesExact, There
<1>2. \A r \in Held \cup live \cup dropped \cup Pc \cup Pu \cup Pd : Known(r)
  BY DEF KnownInv
<1>3. /\ live' = live /\ dropped' = dropped \cup X
      /\ Pc' = Pc \cup C /\ Pd' = Pd \cup D
      /\ Pu' \subseteq Pu \cup Held' /\ drawn' \subseteq drawn \cup Held'
      /\ \A r : Known(r) => Known(r)'
      /\ \A r \in C \cup X : ~Known(r) /\ Known(r)'
      /\ D \subseteq Held /\ D \cap Held' = {}
      /\ Held' \subseteq Held \cup C \cup X
      /\ Held \subseteq Held' \cup D
      /\ C \subseteq Held'
  BY DEF Changes, KnownStays
<1> HIDE DEF Pc, Pd, Pu
<1>4. \A r \in Held' \cup live' \cup dropped' \cup Pc' \cup Pu' \cup Pd' : Known(r)'
  BY <1>2, <1>3
<1>5. Held' \subseteq live' \cup Pc' \cup dropped'
  BY <1>1, <1>3
<1>6. Held' \cap Pd' = {}
  BY <1>1, <1>2, <1>3
<1>7. live' \cup Pc' \subseteq Held' \cup Pd'
  BY <1>1, <1>3
<1>8. Pu' \cup Pd' \cup drawn' \subseteq live' \cup Pc' \cup dropped'
  BY <1>1, <1>3, <1>5
<1>9. KnownInv'
  BY <1>4 DEF KnownInv, Pc, Pd, Pu
<1>10. OwnInv'
  BY <1>5, <1>6, <1>7, <1>8 DEF OwnInv, ResourcesExact, There, Pc, Pd, Pu
<1> QED
  BY <1>9, <1>10

\* The resource that a creation of this kind would get.
NewResource(kind) == Resource(kind, NewHandle(kind))
IfValid(r) == IF r.id = NoHandle THEN {} ELSE {r}

\* What a creation does, besides deletions of D recorded with it.
Issues(kind, D) ==
  /\ \E C, X : /\ C \cup X = IfValid(NewResource(kind))
               /\ Pending("create")' = Pending("create") \cup C
               /\ dropped' = dropped \cup X
  /\ Pending("delete")' = Pending("delete") \cup D
  /\ Pending("update")' = Pending("update")
  /\ \A c \in queue' : c \in queue \/ GoodCommand(c)
  /\ nHandles' = IF NewHandle(kind) = NoHandle THEN nHandles
                 ELSE [nHandles EXCEPT ![kind] = @ + 1]
  /\ UNCHANGED <<live, drawn, phase>>

\* A new handle has not been given out; no other handle is taken back.
LEMMA HandleFacts ==
  ASSUME nHandles \in [Kinds -> Nat], NEW kind \in Kinds,
         nHandles' = IF NewHandle(kind) = NoHandle THEN nHandles
                     ELSE [nHandles EXCEPT ![kind] = @ + 1]
  PROVE  /\ nHandles' \in [Kinds -> Nat]
         /\ \A k \in Kinds : nHandles[k] <= nHandles'[k]
         /\ KnownStays
         /\ \A r \in IfValid(NewResource(kind)) : ~Known(r) /\ Known(r)'
         /\ NewHandle(kind) \in 0 .. nHandles'[kind]
         /\ NewHandle(kind) # NoHandle => NewHandle(kind) = nHandles[kind] + 1
         /\ NewResource(kind).id = NewHandle(kind) /\ NewResource(kind).kind = kind
<1>1. /\ NewHandle(kind) # NoHandle => NewHandle(kind) = nHandles[kind] + 1
      /\ NewResource(kind) = [kind |-> kind, id |-> NewHandle(kind)]
  BY DEF NewHandle, NewResource, Resource
<1>2. nHandles' \in [Kinds -> Nat] /\ \A k \in Kinds : nHandles[k] <= nHandles'[k]
  OBVIOUS
<1>3. KnownStays
  BY <1>2 DEF KnownStays, Known
<1>4. \A r \in IfValid(NewResource(kind)) : ~Known(r) /\ Known(r)'
  BY <1>1, <1>2 DEF IfValid, Known
<1>5. NewHandle(kind) \in 0 .. nHandles'[kind]
  BY <1>1, <1>2 DEF NoHandle
<1> QED
  BY <1>1, <1>2, <1>3, <1>4, <1>5

\* Recording one command.
LEMMA PendingAdd ==
  ASSUME NEW c, queue' = queue \cup {c}, NEW op
  PROVE  Pending(op)' = Pending(op) \cup (IF c.op = op THEN {c.res} ELSE {})
BY DEF Pending

\* Recording a creation (if the handle is valid and the command fits), after
\* deletions of D.
LEMMA RecordIssues ==
  ASSUME NEW kind \in Kinds, NEW m, NEW Q, NEW D,
         \A d \in Q : d = Deletion(d.res) /\ d.res.kind \in {"texture", "buffer"},
         D = {d.res : d \in Q},
         queue' = (queue \cup Q) \cup
                    IF NewHandle(kind) # NoHandle /\ nPut < MaxCommands
                    THEN {Command("create", NewResource(kind), m)} ELSE {},
         dropped' = IF NewHandle(kind) # NoHandle /\ ~(nPut < MaxCommands)
                    THEN dropped \cup {NewResource(kind)} ELSE dropped,
         nHandles' = IF NewHandle(kind) = NoHandle THEN nHandles
                     ELSE [nHandles EXCEPT ![kind] = @ + 1],
         UNCHANGED <<live, drawn, phase>>
  PROVE  Issues(kind, D)
<1> DEFINE r == NewResource(kind)
           c == Command("create", r, m)
           fits == NewHandle(kind) # NoHandle /\ nPut < MaxCommands
           C == IF fits THEN {r} ELSE {}
           X == IF NewHandle(kind) # NoHandle /\ ~(nPut < MaxCommands)
                THEN {r} ELSE {}
<1>1. c.op = "create" /\ c.res = r /\ r.id = NewHandle(kind) /\ r.kind = kind
  BY DEF Command, NewResource, Resource
<1>2. \A d \in Q : d.op = "delete" /\ d.op # "create" /\ d.op # "update"
  BY DEF Deletion, Command
<1>3. C \cup X = IfValid(NewResource(kind))
  BY <1>1 DEF IfValid
<1>4. queue' = (queue \cup Q) \cup (IF fits THEN {c} ELSE {})
  OBVIOUS
<1>5. dropped' = dropped \cup X
  OBVIOUS
<1> HIDE DEF c, r, fits, X
<1>6. Pending("create")' = Pending("create") \cup C
  BY <1>1, <1>2, <1>4 DEF Pending
<1>7. Pending("update")' = Pending("update")
  BY <1>1, <1>2, <1>4 DEF Pending
<1>8. Pending("delete")' = Pending("delete") \cup D
  BY <1>1, <1>2, <1>4 DEF Pending
<1>9. \A d \in queue' : d \in queue \/ GoodCommand(d)
  BY <1>1, <1>4 DEF GoodCommand
<1> HIDE DEF C
<1> QED
  BY <1>3, <1>5, <1>6, <1>7, <1>8, <1>9 DEF Issues

\* Create, the rest of TbShaderProgramLoader::create and ReloadTexture in
\* these terms.
LEMMA CreateIssues ==
  ASSUME NEW kind \in Kinds, NEW m, Create(kind, m)
  PROVE  Issues(kind, {})
<1>1. queue' = (queue \cup {}) \cup
                 IF NewHandle(kind) # NoHandle /\ nPut < MaxCommands
                 THEN {Command("create", NewResource(kind), m)} ELSE {}
  BY DEF Create, Put, NewResource
<1>2. dropped' = IF NewHandle(kind) # NoHandle /\ ~(nPut < MaxCommands)
                 THEN dropped \cup {NewResource(kind)} ELSE dropped
  BY DEF Create, NewResource
<1>3. /\ nHandles' = IF NewHandle(kind) = NoHandle THEN nHandles
                     ELSE [nHandles EXCEPT ![kind] = @ + 1]
      /\ UNCHANGED <<live, drawn, phase>>
  BY DEF Create
<1> DEFINE None == {}
<1>4. None = {d.res : d \in None}
  OBVIOUS
<1> QED
  BY <1>1, <1>2, <1>3, <1>4, RecordIssues

\* FinishLoad of a program records its creation, without data.
LEMMA FinishIssues ==
  ASSUME FinishProgram
  PROVE  Issues("program", {})
<1> DEFINE kind == "program"
<1>1. queue' = (queue \cup {}) \cup
                 IF NewHandle(kind) # NoHandle /\ nPut < MaxCommands
                 THEN {Command("create", NewResource(kind), NoBlock)} ELSE {}
  BY DEF FinishProgram, Put, NewResource
<1>2. dropped' = IF NewHandle(kind) # NoHandle /\ ~(nPut < MaxCommands)
                 THEN dropped \cup {NewResource(kind)} ELSE dropped
  BY DEF FinishProgram, NewResource
<1>3. /\ nHandles' = IF NewHandle(kind) = NoHandle THEN nHandles
                     ELSE [nHandles EXCEPT ![kind] = @ + 1]
      /\ UNCHANGED <<live, drawn, phase>>
  BY DEF FinishProgram
<1> DEFINE None == {}
<1>4. None = {d.res : d \in None}
  OBVIOUS
<1>5. kind \in Kinds
  BY DEF Kinds
<1> HIDE DEF kind
<1>6. Issues(kind, {})
  BY <1>1, <1>2, <1>3, <1>4, <1>5, RecordIssues
<1> QED
  BY <1>6 DEF kind

\* What TbTextureLoader::unload deletes.
LEMMA UnloadedResource ==
  ASSUME NEW k
  PROVE  IfValid(HandleOf(k)) = {d.res : d \in UnloadTextureData(k)}
<1>1. HandleOf(k).id = table[k]
  BY DEF HandleOf, Resource
<1>2. Deletion(HandleOf(k)).res = HandleOf(k)
  BY DEF Deletion, Command
<1>3. CASE table[k] = NoHandle
  BY <1>1, <1>3 DEF IfValid, UnloadTextureData
<1>4. CASE table[k] # NoHandle
  <2>1. UnloadTextureData(k) = {Deletion(HandleOf(k))}
    BY <1>4 DEF UnloadTextureData
  <2>2. IfValid(HandleOf(k)) = {HandleOf(k)}
    BY <1>1, <1>4 DEF IfValid
  <2> QED
    BY <1>2, <2>1, <2>2
<1> QED
  BY <1>3, <1>4

\* Reload records the deletion of the old texture and the creation of the new.
LEMMA ReloadIssues ==
  ASSUME NEW k \in TextureKeys, ReloadTexture(k)
  PROVE  Issues("texture", IfValid(HandleOf(k)))
<1> DEFINE kind == "texture"
           Q == UnloadTextureData(k)
<1>1. queue' = (queue \cup Q) \cup
                 IF NewHandle(kind) # NoHandle /\ nPut < MaxCommands
                 THEN {Command("create", NewResource(kind), FreeBlock)} ELSE {}
  BY DEF ReloadTexture, NewResource
<1>2. dropped' = IF NewHandle(kind) # NoHandle /\ ~(nPut < MaxCommands)
                 THEN dropped \cup {NewResource(kind)} ELSE dropped
  BY DEF ReloadTexture, NewResource
<1>3. /\ nHandles' = IF NewHandle(kind) = NoHandle THEN nHandles
                     ELSE [nHandles EXCEPT ![kind] = @ + 1]
      /\ UNCHANGED <<live, drawn, phase>>
  BY DEF ReloadTexture
<1>4. IfValid(HandleOf(k)) = {d.res : d \in Q}
  BY UnloadedResource
<1>5. \A d \in Q : d = Deletion(d.res) /\ d.res.kind \in {"texture", "buffer"}
  BY DEF UnloadTextureData, Deletion, Command, HandleOf, Resource, KindOf
<1>6. kind \in Kinds
  BY DEF Kinds
<1> HIDE DEF Q
<1> QED
  BY <1>1, <1>2, <1>3, <1>4, <1>5, <1>6, RecordIssues

-----------------------------------------------------------------------------
(* The table *)

\* What the client holds apart from asset k.
Others(k) ==
  {HandleOf(x) : x \in {y \in DOMAIN table \ {k} : table[y] # NoHandle}}
    \cup {Resource("buffer", h) : h \in buffers}

\* What the client holds is asset k's resource and the others.
LEMMA HeldSplit ==
  ASSUME NEW k
  PROVE  Held = Others(k) \cup (IF k \in DOMAIN table THEN IfValid(HandleOf(k)) ELSE {})
<1>1. HandleOf(k).id = table[k]
  BY DEF HandleOf, Resource
<1> QED
  BY <1>1 DEF Held, Others, IfValid

\* Entry k of the table replaced, or added: the others stay.
LEMMA HeldWith ==
  ASSUME NEW k, NEW h, table' = With(k, h), buffers' = buffers
  PROVE  Held' = Others(k) \cup IfValid(Resource(KindOf(k), h))
<1>1. DOMAIN table' = DOMAIN table \cup {k}
  BY DEF With
<1>2. \A x \in DOMAIN table : x # k => table'[x] = table[x]
  BY DEF With
<1>3. table'[k] = h
  BY DEF With
<1>4. \A x : HandleOf(x)' = Resource(KindOf(x), table'[x])
  BY DEF HandleOf
<1>5. Resource(KindOf(k), h).id = h
  BY DEF Resource
<1>6. {HandleOf(x) : x \in {y \in DOMAIN table : table[y] # NoHandle}}'
        = {HandleOf(x) : x \in {y \in DOMAIN table \ {k} : table[y] # NoHandle}}
            \cup IfValid(Resource(KindOf(k), h))
  BY <1>1, <1>2, <1>3, <1>4, <1>5 DEF IfValid, HandleOf
<1> QED
  BY <1>6 DEF Held, Others

\* Entry k of the table removed: the others stay.
LEMMA HeldWithout ==
  ASSUME NEW k, table' = Without(k), buffers' = buffers
  PROVE  Held' = Others(k)
<1>1. DOMAIN table' = DOMAIN table \ {k}
  BY DEF Without
<1>2. \A x \in DOMAIN table : x # k => table'[x] = table[x]
  BY DEF Without
<1>3. \A x : HandleOf(x)' = Resource(KindOf(x), table'[x])
  BY DEF HandleOf
<1> QED
  BY <1>1, <1>2, <1>3 DEF Held, Others, HandleOf

\* No other asset or buffer has the resource of asset k.
LEMMA OthersApart ==
  ASSUME TableInv, NEW k \in DOMAIN table
  PROVE  IfValid(HandleOf(k)) \cap Others(k) = {}
<1>1. \A x : HandleOf(x) = [kind |-> KindOf(x), id |-> table[x]]
  BY DEF HandleOf, Resource
<1>2. \A x : KindOf(x) # "buffer"
  BY DEF KindOf
<1>3. ASSUME NEW x \in DOMAIN table \ {k}, HandleOf(x) = HandleOf(k),
             table[k] # NoHandle
      PROVE  FALSE
  BY <1>1, <1>3 DEF TableInv
<1>4. ASSUME NEW h, Resource("buffer", h) = HandleOf(k) PROVE FALSE
  BY <1>1, <1>2, <1>4 DEF Resource
<1> QED
  BY <1>1, <1>3, <1>4 DEF IfValid, Others

\* An entry of the table gets a new handle, or none, or is removed.
LEMMA TableWith ==
  ASSUME TableInv, NEW k, NEW kind \in Kinds, KindOf(k) = kind,
         NEW h, table' = With(k, h), buffers' = buffers,
         \/ h = NoHandle /\ nHandles' = nHandles
         \/ /\ h = NewHandle(kind)
            /\ nHandles' = IF NewHandle(kind) = NoHandle THEN nHandles
                           ELSE [nHandles EXCEPT ![kind] = @ + 1],
         loading' \in ProgramKeys \cup {Nobody}, todo' \in Seq(ShaderKeys)
  PROVE  TableInv'
<1>1. /\ DOMAIN table' = DOMAIN table \cup {k}
      /\ \A x \in DOMAIN table : x # k => table'[x] = table[x]
      /\ table'[k] = h
  BY DEF With
<1>2. /\ nHandles \in [Kinds -> Nat]
      /\ \A x \in DOMAIN table : table[x] \in 0 .. nHandles[KindOf(x)]
      /\ \A x, y \in DOMAIN table :
           KindOf(x) = KindOf(y) /\ table[x] = table[y] /\ table[x] # NoHandle => x = y
      /\ buffers \subseteq 1 .. nHandles["buffer"]
  BY DEF TableInv
<1>3. \A x : KindOf(x) \in Kinds
  BY DEF KindOf, Kinds
<1>4. /\ nHandles' \in [Kinds -> Nat]
      /\ \A q \in Kinds : nHandles[q] <= nHandles'[q]
      /\ h \in 0 .. nHandles'[kind]
      /\ h # NoHandle => h = nHandles[kind] + 1
  BY <1>2, HandleFacts DEF NoHandle
<1>5. \A x \in DOMAIN table' : table'[x] \in 0 .. nHandles'[KindOf(x)]
  BY <1>1, <1>2, <1>3, <1>4
<1>6. \A x, y \in DOMAIN table' :
        KindOf(x) = KindOf(y) /\ table'[x] = table'[y] /\ table'[x] # NoHandle => x = y
  <2> SUFFICES ASSUME NEW x \in DOMAIN table', NEW y \in DOMAIN table',
                      KindOf(x) = KindOf(y), table'[x] = table'[y],
                      table'[x] # NoHandle, x # y
               PROVE  FALSE
    OBVIOUS
  <2>1. CASE x # k /\ y # k
    BY <1>1, <1>2, <2>1
  <2>2. CASE x = k
    BY <1>1, <1>2, <1>4, <2>2
  <2>3. CASE y = k
    BY <1>1, <1>2, <1>4, <2>3
  <2> QED
    BY <2>1, <2>2, <2>3
<1>7. buffers' \subseteq 1 .. nHandles'["buffer"]
  <2>1. nHandles["buffer"] \in Nat /\ nHandles'["buffer"] \in Nat
        /\ nHandles["buffer"] <= nHandles'["buffer"]
    BY <1>2, <1>4 DEF Kinds
  <2> QED
    BY <1>2, <2>1
<1> QED
  BY <1>4, <1>5, <1>6, <1>7 DEF TableInv

\* A table without one of its entries is still a good one.
LEMMA TableWithout ==
  ASSUME TableInv, NEW k, table' = Without(k), buffers' = buffers,
         UNCHANGED <<nHandles, loading, todo>>
  PROVE  TableInv'
BY DEF TableInv, Without

\* A creation for asset k (or for no asset), with its old resource deleted,
\* keeps the books.
LEMMA IssuesKeep ==
  ASSUME TableInv, KnownInv, OwnInv, phase # "off", NEW kind \in Kinds,
         NEW D, Issues(kind, D), NEW O, O \subseteq Held, D \subseteq Held,
         D \cap O = {}, Held' = O \cup IfValid(NewResource(kind)),
         Held \subseteq O \cup D
  PROVE  KnownInv' /\ OwnInv'
<1>1. PICK C, X : /\ C \cup X = IfValid(NewResource(kind))
                  /\ Pending("create")' = Pending("create") \cup C
                  /\ dropped' = dropped \cup X
  BY DEF Issues
<1>2. KnownStays /\ \A r \in C \cup X : ~Known(r) /\ Known(r)'
  BY <1>1, HandleFacts DEF TableInv, Issues
<1>3. \A r \in Held : Known(r)
  BY DEF KnownInv
<1>4. Changes(C, X, D)
  BY <1>1, <1>2, <1>3 DEF Changes, Issues
<1> QED
  BY <1>4, ChangesKeep

-----------------------------------------------------------------------------
(* Every action *)

\* Keys determine kinds.
LEMMA KindFacts ==
  /\ \A k \in TextureKeys : KindOf(k) = "texture"
  /\ \A k \in ProgramKeys : KindOf(k) = "program"
  /\ \A k \in ShaderKeys : KindOf(k) = "shader"
  /\ {"texture", "program", "shader", "buffer"} \subseteq Kinds
BY KeysAssumption DEF KindOf, Kinds

\* In the record phase new commands must be good ones.
LEMMA QueueKeeps ==
  ASSUME QueueInv, phase' = "record", \A c \in queue' : c \in queue \/ GoodCommand(c)
  PROVE  QueueInv'
<1>1. \A c : GoodCommand(c)' <=> GoodCommand(c)
  BY DEF GoodCommand, Deletion, Command, NoResource, Resource, NoBlock
<1> QED
  BY <1>1 DEF QueueInv, GoodCommand

\* A step that touches none of it.
LEMMA Unchanged ==
  ASSUME ResInv, UNCHANGED <<nHandles, queue, live, drawn, phase, dropped, table, buffers>>,
         loading' \in ProgramKeys \cup {Nobody}, todo' \in Seq(ShaderKeys)
  PROVE  ResInv'
<1>1. Held' = Held /\ \A op : Pending(op)' = Pending(op)
  BY DEF Held, Pending, HandleOf
<1>2. TableInv'
  BY DEF ResInv, TableInv
<1>3. QueueInv'
  BY DEF ResInv, QueueInv, GoodCommand, Deletion
<1>4. KnownInv'
  BY <1>1 DEF ResInv, KnownInv, Known
<1>5. OwnInv'
  BY <1>1 DEF ResInv, OwnInv, ResourcesExact, There
<1> QED
  BY <1>2, <1>3, <1>4, <1>5 DEF ResInv

\* A new entry: Load of a texture, of a shader, of a program.
LEMMA NewEntry ==
  ASSUME ResInv, phase = "record", NEW k, k \notin DOMAIN table,
         NEW kind \in Kinds, KindOf(k) = kind, Issues(kind, {}),
         table' = With(k, NewHandle(kind)), buffers' = buffers,
         loading' \in ProgramKeys \cup {Nobody}, todo' \in Seq(ShaderKeys)
  PROVE  ResInv'
<1>1. TableInv'
  BY TableWith DEF ResInv, Issues
<1>2. QueueInv'
  BY QueueKeeps DEF ResInv, Issues
<1>3. Held' = Others(k) \cup IfValid(NewResource(kind))
  BY HeldWith DEF NewResource
<1>4. Held = Others(k) \cup (IF k \in DOMAIN table THEN IfValid(HandleOf(k)) ELSE {})
  BY HeldSplit
<1>5. Held \subseteq Others(k) \cup {}
  BY <1>4
<1>6. KnownInv' /\ OwnInv'
  BY <1>3, <1>4, <1>5, IssuesKeep DEF ResInv
<1> QED
  BY <1>1, <1>2, <1>6 DEF ResInv

\* Nothing is created: entries are removed or emptied, buffers deleted.
LEMMA OnlyDeletes ==
  ASSUME KnownInv, OwnInv, phase # "off", NEW D, D \subseteq Held, D \cap Held' = {},
         Held' \subseteq Held, Held \subseteq Held' \cup D,
         Pending("create")' = Pending("create"),
         Pending("delete")' = Pending("delete") \cup D,
         Pending("update")' \subseteq Pending("update") \cup Held',
         drawn' \subseteq drawn \cup Held',
         UNCHANGED <<nHandles, live, dropped>>
  PROVE  KnownInv' /\ OwnInv'
<1>1. KnownStays
  BY DEF KnownStays, Known
<1>2. dropped' = dropped \cup {} /\ Pending("create")' = Pending("create") \cup {}
  OBVIOUS
<1>3. Changes({}, {}, D)
  BY <1>1, <1>2 DEF Changes
<1> QED
  BY <1>3, ChangesKeep

\* Nothing is created or deleted either.
LEMMA OnlyUses ==
  ASSUME KnownInv, OwnInv, phase # "off", Held' = Held,
         Pending("create")' = Pending("create"),
         Pending("delete")' = Pending("delete"),
         Pending("update")' \subseteq Pending("update") \cup Held,
         drawn' \subseteq drawn \cup Held,
         UNCHANGED <<nHandles, live, dropped>>
  PROVE  KnownInv' /\ OwnInv'
<1> DEFINE D == {}
<1>1. /\ D \subseteq Held /\ D \cap Held' = {} /\ Held \subseteq Held' \cup D
      /\ Pending("delete")' = Pending("delete") \cup D
  OBVIOUS
<1> HIDE DEF D
<1> QED
  BY <1>1, OnlyDeletes

\* Recording deletions of D.
LEMMA RecordDeletes ==
  ASSUME NEW Q, \A d \in Q : d = Deletion(d.res), queue' = queue \cup Q
  PROVE  /\ Pending("create")' = Pending("create")
         /\ Pending("update")' = Pending("update")
         /\ Pending("delete")' = Pending("delete") \cup {d.res : d \in Q}
<1>1. \A d \in Q : d.op = "delete" /\ d.op # "create" /\ d.op # "update"
  BY DEF Deletion, Command
<1> QED
  BY <1>1 DEF Pending

\* What unload records are good commands.
LEMMA UnloadGood ==
  ASSUME NEW k \in TextureKeys, NEW d \in UnloadTextureData(k)
  PROVE  d = Deletion(d.res) /\ GoodCommand(d)
<1>1. d = Deletion(HandleOf(k)) /\ d.res = HandleOf(k)
  BY DEF UnloadTextureData, Deletion, Command
<1>2. d.res.kind = "texture"
  BY <1>1, KindFacts DEF HandleOf, Resource
<1> QED
  BY <1>1, <1>2 DEF GoodCommand

\* Unload and a failed reload.
LEMMA Unloads ==
  ASSUME ResInv, phase = "record", phase' = "record", NEW k \in TextureKeys,
         k \in DOMAIN table, queue' = queue \cup UnloadTextureData(k),
         Held' = Others(k), TableInv',
         UNCHANGED <<nHandles, live, drawn, dropped>>
  PROVE  ResInv'
<1> DEFINE D == IfValid(HandleOf(k))
<1>1. Held = Others(k) \cup D /\ D \cap Others(k) = {}
  BY HeldSplit, OthersApart DEF ResInv
<1>2. D = {d.res : d \in UnloadTextureData(k)}
  BY UnloadedResource
<1>3. \A d \in UnloadTextureData(k) : d = Deletion(d.res) /\ GoodCommand(d)
  BY UnloadGood
<1> HIDE DEF D
<1>4. /\ Pending("create")' = Pending("create")
      /\ Pending("update")' = Pending("update")
      /\ Pending("delete")' = Pending("delete") \cup D
  BY <1>2, <1>3, RecordDeletes
<1>5. KnownInv' /\ OwnInv'
  BY <1>1, <1>4, OnlyDeletes DEF ResInv
<1>6. QueueInv'
  BY <1>3, QueueKeeps DEF ResInv
<1> QED
  BY <1>5, <1>6 DEF ResInv

\* Reload unloads the old texture and creates the new one.
LEMMA Reloads ==
  ASSUME ResInv, NEW k \in TextureKeys, ReloadTexture(k)
  PROVE  ResInv'
<1> DEFINE D == IfValid(HandleOf(k))
<1>1. /\ phase = "record" /\ phase' = "record" /\ k \in DOMAIN table
      /\ table' = With(k, NewHandle("texture")) /\ buffers' = buffers
      /\ loading' = loading /\ todo' = todo
  BY DEF ReloadTexture, Idle
<1>2. Issues("texture", D)
  BY ReloadIssues
<1>3. "texture" \in Kinds /\ KindOf(k) = "texture"
  BY KindFacts
<1>4. Held = Others(k) \cup D /\ D \cap Others(k) = {}
  BY <1>1, HeldSplit, OthersApart DEF ResInv
<1>5. Held' = Others(k) \cup IfValid(NewResource("texture"))
  BY <1>1, <1>3, HeldWith DEF NewResource
<1> HIDE DEF D
<1>6. KnownInv' /\ OwnInv'
  BY <1>1, <1>2, <1>3, <1>4, <1>5, IssuesKeep DEF ResInv
<1>7. TableInv'
  BY <1>1, <1>2, <1>3, TableWith DEF ResInv, TableInv, Issues
<1>8. QueueInv'
  BY <1>1, <1>2, QueueKeeps DEF ResInv, Issues
<1> QED
  BY <1>6, <1>7, <1>8 DEF ResInv

\* The textures.
LEMMA TextureStep ==
  ASSUME ResInv, NEW k \in TextureKeys,
         \/ LoadTexture(k) \/ LoadTextureFails(k) \/ UnloadTexture(k)
         \/ ReloadTexture(k) \/ ReloadTextureFails(k)
  PROVE  ResInv'
<1>1. CASE LoadTexture(k)
  <2>1. "texture" \in Kinds /\ KindOf(k) = "texture"
    BY KindFacts
  <2>2. Issues("texture", {})
    BY <1>1, <2>1, CreateIssues DEF LoadTexture
  <2> QED
    BY <1>1, <2>1, <2>2, NewEntry DEF LoadTexture, Idle, ResInv, TableInv
<1>2. CASE LoadTextureFails(k)
  BY <1>2, Unchanged DEF LoadTextureFails, ResInv, TableInv
<1>3. CASE UnloadTexture(k)
  <2>1. Held' = Others(k)
    BY <1>3, HeldWithout DEF UnloadTexture
  <2>2. TableInv'
    BY <1>3, TableWithout DEF UnloadTexture, ResInv
  <2> QED
    BY <1>3, <2>1, <2>2, Unloads DEF UnloadTexture, Idle
<1>4. CASE ReloadTexture(k)
  BY <1>4, Reloads
<1>5. CASE ReloadTextureFails(k)
  <2>1. Held' = Others(k)
    <3>1. Resource(KindOf(k), NoHandle).id = NoHandle
      BY DEF Resource
    <3> QED
      BY <1>5, <3>1, HeldWith DEF ReloadTextureFails, IfValid
  <2>2. TableInv'
    BY <1>5, KindFacts, TableWith DEF ReloadTextureFails, ResInv, TableInv
  <2> QED
    BY <1>5, <2>1, <2>2, Unloads DEF ReloadTextureFails, Idle
<1> QED
  BY <1>1, <1>2, <1>3, <1>4, <1>5

\* The programs and their shaders.
LEMMA ProgramStep ==
  ASSUME ResInv, LoadingInv,
         \/ \E p \in ProgramKeys : BeginProgram(p) \/ BeginProgramFails(p)
         \/ ShaderPresent \/ LoadShader \/ LoadShaderFails \/ FinishProgram
  PROVE  ResInv'
<1>1. ASSUME NEW p \in ProgramKeys, BeginProgram(p) PROVE ResInv'
  BY <1>1, ShadersAssumption, Unchanged DEF BeginProgram
<1>2. CASE ShaderPresent
  <2>1. Tail(todo) \in Seq(ShaderKeys)
    BY <1>2 DEF ShaderPresent, InLoop, ResInv, TableInv
  <2> QED
    BY <1>2, <2>1, Unchanged DEF ShaderPresent, frontend, ResInv, TableInv
<1>3. CASE LoadShader
  <2>1. Head(todo) \in ShaderKeys /\ Tail(todo) \in Seq(ShaderKeys)
    BY <1>3 DEF LoadShader, InLoop, ResInv, TableInv
  <2>2. "shader" \in Kinds /\ KindOf(Head(todo)) = "shader"
    BY <2>1, KindFacts
  <2>3. Issues("shader", {})
    BY <1>3, <2>2, CreateIssues DEF LoadShader
  <2> QED
    BY <1>3, <2>1, <2>2, <2>3, NewEntry DEF LoadShader, InLoop, ResInv, TableInv
<1>4. CASE LoadShaderFails
  BY <1>4, Unchanged DEF LoadShaderFails
<1>5. CASE FinishProgram
  <2>1. loading \in ProgramKeys /\ loading \notin DOMAIN table
    BY <1>5 DEF FinishProgram, ResInv, TableInv, LoadingInv
  <2>2. "program" \in Kinds /\ KindOf(loading) = "program"
    BY <2>1, KindFacts
  <2>3. Issues("program", {})
    BY <1>5, FinishIssues
  <2>4. /\ phase = "record" /\ buffers' = buffers
        /\ table' = With(loading, NewHandle("program"))
        /\ loading' \in ProgramKeys \cup {Nobody} /\ todo' \in Seq(ShaderKeys)
    BY <1>5 DEF FinishProgram, ResInv, TableInv
  <2> QED
    BY <2>1, <2>2, <2>3, <2>4, NewEntry
<1>6. ASSUME NEW p \in ProgramKeys, BeginProgramFails(p) PROVE ResInv'
  BY <1>6, Unchanged DEF BeginProgramFails, ResInv, TableInv
<1> QED
  BY <1>1, <1>2, <1>3, <1>4, <1>5, <1>6

\* What the client holds when its buffers change.
LEMMA HeldBuffers ==
  ASSUME UNCHANGED table
  PROVE  Held' = {HandleOf(k) : k \in {x \in DOMAIN table : table[x] # NoHandle}}
                   \cup {Resource("buffer", h) : h \in buffers'}
BY DEF Held, HandleOf

\* The buffers.
LEMMA CreateBufferStep == ASSUME ResInv, CreateBuffer PROVE ResInv'
<1> DEFINE New == IfValid(NewResource("buffer"))
<1>1. /\ phase = "record" /\ phase' = "record" /\ table' = table
      /\ buffers' = buffers \cup ({NewHandle("buffer")} \ {NoHandle})
      /\ loading' = loading /\ todo' = todo
  BY DEF CreateBuffer, Idle, Create
<1>2. "buffer" \in Kinds
  BY KindFacts
<1>3. Issues("buffer", {})
  BY <1>2, CreateIssues DEF CreateBuffer
<1>4. New = {Resource("buffer", h) : h \in {NewHandle("buffer")} \ {NoHandle}}
  BY DEF IfValid, NewResource, Resource
<1>5. Held' = Held \cup New
  BY <1>1, <1>4, HeldBuffers DEF Held
<1> HIDE DEF New
<1>6. KnownInv' /\ OwnInv'
  BY <1>1, <1>2, <1>3, <1>5, IssuesKeep DEF ResInv, New
<1>7. QueueInv'
  BY <1>1, <1>3, QueueKeeps DEF ResInv, Issues
<1>8. TableInv'
  <2>1. /\ nHandles' \in [Kinds -> Nat]
        /\ \A k \in Kinds : nHandles[k] <= nHandles'[k]
        /\ NewHandle("buffer") \in 0 .. nHandles'["buffer"]
    BY <1>2, <1>3, HandleFacts DEF Issues, ResInv, TableInv
  <2>2. /\ nHandles \in [Kinds -> Nat]
        /\ \A k \in DOMAIN table : table[k] \in 0 .. nHandles[KindOf(k)]
        /\ buffers \subseteq 1 .. nHandles["buffer"]
    BY DEF ResInv, TableInv
  <2>3. \A k : KindOf(k) \in Kinds
    BY DEF KindOf, Kinds
  <2>4. \A k \in DOMAIN table : table[k] \in 0 .. nHandles'[KindOf(k)]
    BY <2>1, <2>2, <2>3
  <2>5. buffers' \subseteq 1 .. nHandles'["buffer"]
    <3>1. /\ nHandles["buffer"] \in Nat /\ nHandles'["buffer"] \in Nat
          /\ nHandles["buffer"] <= nHandles'["buffer"]
      BY <1>2, <2>1, <2>2
    <3>2. /\ NewHandle("buffer") \in 0 .. nHandles'["buffer"]
          /\ buffers \subseteq 1 .. nHandles["buffer"]
      BY <2>1, <2>2
    <3>3. \A x \in buffers : x \in 1 .. nHandles'["buffer"]
      BY <3>1, <3>2
    <3>4. NewHandle("buffer") # 0 => NewHandle("buffer") \in 1 .. nHandles'["buffer"]
      BY <3>1, <3>2
    <3> QED
      BY <1>1, <3>3, <3>4 DEF NoHandle
  <2> QED
    BY <1>1, <2>1, <2>4, <2>5 DEF ResInv, TableInv
<1> QED
  BY <1>6, <1>7, <1>8 DEF ResInv

\* NGpu::UpdateBuffer adds at most an update of a buffer that is held.
LEMMA UpdateBufferStep ==
  ASSUME ResInv, NEW h \in buffers, UpdateBuffer(h)
  PROVE  ResInv'
<1> DEFINE r == Resource("buffer", h)
<1>1. r \in Held /\ r.kind \in Kinds
  BY KindFacts DEF Held, Resource
<1>2. /\ phase = "record" /\ phase' = "record"
      /\ UNCHANGED <<nHandles, live, drawn, dropped, table, buffers, loading, todo>>
      /\ \/ queue' = queue
         \/ \E m : queue' = queue \cup {Command("update", r, m)}
  BY DEF UpdateBuffer, Idle, Update, Put
<1> HIDE DEF r
<1>3. \A m : Command("update", r, m).op = "update" /\ Command("update", r, m).res = r
  BY DEF Command
<1>4. Held' = Held
  BY <1>2, HeldBuffers DEF Held
<1>5. /\ Pending("create")' = Pending("create")
      /\ Pending("delete")' = Pending("delete")
      /\ Pending("update")' \subseteq Pending("update") \cup {r}
      /\ \A c \in queue' : c \in queue \/ GoodCommand(c)
  <2>1. CASE queue' = queue
    BY <2>1 DEF Pending
  <2>2. ASSUME NEW m, queue' = queue \cup {Command("update", r, m)}
        PROVE  <1>5!:
    <3> DEFINE c == Command("update", r, m)
    <3>1. c.op = "update" /\ c.res = r /\ queue' = queue \cup {c}
      BY <1>3, <2>2
    <3> HIDE DEF c
    <3>2. \A op : Pending(op)' = Pending(op) \cup (IF c.op = op THEN {c.res} ELSE {})
      BY <3>1, PendingAdd
    <3> QED
      BY <1>1, <3>1, <3>2 DEF GoodCommand
  <2> QED
    BY <1>2, <2>1, <2>2
<1>6. KnownInv' /\ OwnInv'
  BY <1>1, <1>2, <1>4, <1>5, OnlyUses DEF ResInv
<1>7. QueueInv'
  BY <1>2, <1>5, QueueKeeps DEF ResInv
<1>8. TableInv'
  BY <1>2 DEF ResInv, TableInv
<1> QED
  BY <1>6, <1>7, <1>8 DEF ResInv

\* NGpu::DeleteBuffer takes the buffer from the client and records its deletion.
LEMMA DeleteBufferStep ==
  ASSUME ResInv, NEW h \in buffers, DeleteBuffer(h)
  PROVE  ResInv'
<1> DEFINE r == Resource("buffer", h)
           Q == {Deletion(r)}
<1>1. /\ phase = "record" /\ phase' = "record" /\ queue' = queue \cup Q
      /\ buffers' = buffers \ {h}
      /\ UNCHANGED <<nHandles, live, drawn, dropped, table, loading, todo>>
  BY DEF DeleteBuffer, Idle
<1>2. \A d \in Q : d = Deletion(d.res) /\ GoodCommand(d)
  BY DEF Deletion, Command, GoodCommand, Resource
<1>3. {d.res : d \in Q} = {r}
  BY DEF Deletion, Command
<1>4. r \in Held /\ Held' = Held \ {r}
  <2>1. r \in Held
    BY DEF Held
  <2>2. \A x : HandleOf(x) # r
    BY DEF HandleOf, KindOf, Resource
  <2>3. \A g : Resource("buffer", g) = r <=> g = h
    BY DEF Resource
  <2> HIDE DEF r
  <2> DEFINE A == {HandleOf(k) : k \in {x \in DOMAIN table : table[x] # NoHandle}}
  <2>4. r \notin A
    BY <2>2
  <2>5. {Resource("buffer", g) : g \in buffers'}
          = {Resource("buffer", g) : g \in buffers} \ {r}
    BY <1>1, <2>3
  <2>6. Held = A \cup {Resource("buffer", g) : g \in buffers}
    BY DEF Held
  <2>7. Held' = A \cup {Resource("buffer", g) : g \in buffers'}
    BY <1>1, HeldBuffers
  <2> HIDE DEF A
  <2> QED
    BY <2>1, <2>4, <2>5, <2>6, <2>7
<1> HIDE DEF r, Q
<1>5. /\ Pending("create")' = Pending("create")
      /\ Pending("update")' = Pending("update")
      /\ Pending("delete")' = Pending("delete") \cup {r}
  BY <1>1, <1>2, <1>3, RecordDeletes
<1>6. KnownInv' /\ OwnInv'
  BY <1>1, <1>4, <1>5, OnlyDeletes DEF ResInv
<1>7. QueueInv'
  BY <1>1, <1>2, QueueKeeps DEF ResInv
<1>8. TableInv'
  BY <1>1 DEF ResInv, TableInv
<1> QED
  BY <1>6, <1>7, <1>8 DEF ResInv

\* Draw calls use only what the client holds.
LEMMA DrawStep == ASSUME ResInv, DrawWith(Held) PROVE ResInv'
<1>1. /\ phase = "record" /\ phase' = "record" /\ drawn' = drawn \cup Held
      /\ UNCHANGED <<nHandles, queue, live, dropped, table, buffers, loading, todo>>
  BY DEF DrawWith, Draw, Idle
<1>2. Held' = Held /\ \A op : Pending(op)' = Pending(op)
  BY <1>1, HeldBuffers DEF Held, Pending
<1>3. KnownInv' /\ OwnInv'
  BY <1>1, <1>2, OnlyUses DEF ResInv
<1>4. QueueInv'
  BY <1>1, QueueKeeps DEF ResInv
<1>5. TableInv'
  BY <1>1 DEF ResInv, TableInv
<1> QED
  BY <1>3, <1>4, <1>5 DEF ResInv

-----------------------------------------------------------------------------
(* The frame *)

\* NextFrame, and Shutdown: the frame's last commands.
LEMMA EndOfRecording ==
  ASSUME ResInv, NextFrame \/ Shutdown, UNCHANGED <<table, buffers, loading, todo>>
  PROVE  ResInv'
<1> DEFINE c == Command("render", NoResource, NoBlock)
           d == Command("shutdown", NoResource, NoBlock)
<1>1. /\ phase = "record" /\ phase' = "execute"
      /\ queue' = queue \cup {c} \/ queue' = queue \cup {c, d}
      /\ UNCHANGED <<nHandles, live, drawn, dropped>>
  BY DEF NextFrame, Shutdown
<1>2. c.op = "render" /\ d.op = "shutdown" /\ GoodCommand(c) /\ GoodCommand(d)
  BY DEF Command, GoodCommand
<1> HIDE DEF c, d
<1>3. Held' = Held
  BY <1>1, HeldBuffers DEF Held
<1>4. \A op \in {"create", "delete", "update"} : Pending(op)' = Pending(op)
  BY <1>1, <1>2 DEF Pending
<1>5. KnownInv' /\ OwnInv'
  BY <1>1, <1>3, <1>4, OnlyUses DEF ResInv
<1>6. QueueInv'
  <2>1. \A e \in queue' : GoodCommand(e)
    BY <1>1, <1>2 DEF ResInv, QueueInv
  <2>2. \A e : GoodCommand(e)' <=> GoodCommand(e)
    BY DEF GoodCommand, Deletion
  <2>3. c \in queue'
    BY <1>1
  <2> QED
    BY <1>2, <2>1, <2>2, <2>3 DEF QueueInv
<1>7. TableInv'
  BY <1>1 DEF ResInv, TableInv
<1> QED
  BY <1>5, <1>6, <1>7 DEF ResInv

\* The end of a frame, when all of its commands have been executed.
LEMMA EndFrameStep ==
  ASSUME ResInv, EndFrame, UNCHANGED <<table, buffers, loading, todo>>
  PROVE  ResInv'
<1>1. /\ phase = "execute" /\ phase' = "record"
      /\ UNCHANGED <<nHandles, queue, live, drawn, dropped, table, buffers, loading, todo>>
  BY DEF EndFrame
<1>2. Held' = Held /\ \A op : Pending(op)' = Pending(op)
  BY <1>1, HeldBuffers DEF Held, Pending
<1>3. KnownInv' /\ OwnInv'
  BY <1>1, <1>2, OnlyUses DEF ResInv
<1>4. QueueInv'
  BY <1>1, QueueKeeps DEF ResInv
<1>5. TableInv'
  BY <1>1 DEF ResInv, TableInv
<1> QED
  BY <1>3, <1>4, <1>5 DEF ResInv

\* The command that has executed is gone from the queue.
LEMMA PendingRemove ==
  ASSUME NEW c \in queue, queue' = queue \ {c}, NEW op
  PROVE  /\ Pending(op)' \subseteq Pending(op)
         /\ Pending(op) \subseteq Pending(op)' \cup {c.res}
         /\ c.op # op => Pending(op)' = Pending(op)
BY DEF Pending

\* No resource is deleted twice.
LEMMA DeletedOnce ==
  ASSUME QueueInv, NEW c \in queue, c.op = "delete", queue' = queue \ {c}
  PROVE  Pending("delete")' = Pending("delete") \ {c.res}
<1>1. \A d \in queue : d.op = "delete" => d = Deletion(d.res)
  BY DEF QueueInv, GoodCommand
<1> QED
  BY <1>1 DEF Pending

\* What a frame's command does to the books.
LEMMA ExecuteOwn ==
  ASSUME ResInv, NEW c \in queue, Execute(c), UNCHANGED <<table, buffers>>
  PROVE  KnownInv' /\ OwnInv'
<1> DEFINE Pc == Pending("create")
           Pd == Pending("delete")
           Pu == Pending("update")
<1>1. /\ phase = "execute" /\ IsNext(c) /\ queue' = queue \ {c}
      /\ nHandles' = nHandles /\ dropped' = dropped
      /\ live' = CASE c.op = "create"   -> live \cup {c.res}
                   [] c.op = "delete"   -> live \ {c.res}
                   [] c.op = "shutdown" -> {}
                   [] OTHER             -> live
      /\ drawn' = IF c.op = "render" THEN {} ELSE drawn
      /\ phase' = IF c.op = "shutdown" THEN "off" ELSE phase
  BY DEF Execute
<1>2. Held' = Held
  BY HeldBuffers DEF Held
<1>3. /\ Held \subseteq live \cup Pc \cup dropped
      /\ Held \cap Pd = {}
      /\ live \cup Pc \subseteq Held \cup Pd
      /\ Pu \cup Pd \cup drawn \subseteq live \cup Pc \cup dropped
  BY <1>1 DEF ResInv, OwnInv, ResourcesExact, There
<1>4. \A r \in Held \cup live \cup dropped \cup Pc \cup Pu \cup Pd : Known(r)
  BY DEF ResInv, KnownInv
<1>5. \A r : Known(r)' <=> Known(r)
  BY <1>1 DEF Known
<1>6. /\ Pc' \subseteq Pc /\ Pd' \subseteq Pd /\ Pu' \subseteq Pu
      /\ Pc \subseteq Pc' \cup {c.res}
      /\ c.op # "create" => Pc' = Pc
      /\ c.op # "delete" => Pd' = Pd
  BY <1>1, PendingRemove
<1>7. c.op = "create" => c.res \in Pc
  BY DEF Pending
<1>8. KnownInv'
  <2>1. live' \subseteq live \cup Pc
    BY <1>1, <1>7
  <2>2. \A r \in Held' \cup live' \cup dropped' \cup Pc' \cup Pu' \cup Pd' : Known(r)'
    BY <1>1, <1>2, <1>4, <1>5, <1>6, <2>1
  <2> QED
    BY <2>2 DEF KnownInv
<1>9. OwnInv'
  <2> SUFFICES ASSUME phase' # "off"
               PROVE  /\ Held' \subseteq live' \cup Pc' \cup dropped'
                      /\ Held' \cap Pd' = {}
                      /\ live' \cup Pc' \subseteq Held' \cup Pd'
                      /\ Pu' \cup Pd' \cup drawn' \subseteq live' \cup Pc' \cup dropped'
    BY DEF OwnInv, ResourcesExact, There
  <2>1. c.op # "shutdown"
    BY <1>1
  <2>2. CASE c.op = "create"
    <3>1. live' = live \cup {c.res} /\ drawn' = drawn
      BY <1>1, <2>2
    <3> HIDE DEF Pc, Pd, Pu
    <3> QED
      BY <1>1, <1>2, <1>3, <1>6, <1>7, <2>2, <3>1
  <2>3. CASE c.op = "delete"
    <3>1. live' = live \ {c.res} /\ drawn' = drawn
      BY <1>1, <2>3
    <3>2. Pc = {} /\ Pu = {} /\ drawn = {}
      BY <1>1, <2>3, NextNotCreate, NextDelete DEF ResInv
    <3>3. Pd' = Pd \ {c.res} /\ c.res \in Pd
      BY <1>1, <2>3, DeletedOnce DEF ResInv, Pending
    <3> HIDE DEF Pc, Pd, Pu
    <3> QED
      BY <1>1, <1>2, <1>3, <1>6, <3>1, <3>2, <3>3
  <2>4. CASE c.op # "create" /\ c.op # "delete"
    <3>1. live' = live /\ drawn' \subseteq drawn
      BY <1>1, <2>1, <2>4
    <3> HIDE DEF Pc, Pd, Pu
    <3> QED
      BY <1>1, <1>2, <1>3, <1>6, <2>4, <3>1
  <2> QED
    BY <2>2, <2>3, <2>4
<1> QED
  BY <1>8, <1>9

\* One command of the frame is executed.
LEMMA ExecuteStep ==
  ASSUME ResInv, NEW c \in queue, Execute(c),
         UNCHANGED <<table, buffers, loading, todo>>
  PROVE  ResInv'
<1>1. KnownInv' /\ OwnInv'
  BY ExecuteOwn
<1>2. TableInv'
  BY DEF Execute, ResInv, TableInv
<1>3. QueueInv'
  <2>1. \A e : GoodCommand(e)' <=> GoodCommand(e)
    BY DEF GoodCommand, Deletion
  <2>2. queue' = queue \ {c} /\ drawn' = IF c.op = "render" THEN {} ELSE drawn
    BY DEF Execute
  <2>3. phase = "execute"
    BY DEF Execute
  <2> QED
    BY <2>1, <2>2, <2>3 DEF ResInv, QueueInv
<1> QED
  BY <1>1, <1>2, <1>3 DEF ResInv

\* Every step keeps the resources in order.
LEMMA ResNext == ASSUME ResInv, LoadingInv, [Next]_vars PROVE ResInv'
<1>1. CASE \E k \in TextureKeys :
             \/ LoadTexture(k) \/ LoadTextureFails(k) \/ UnloadTexture(k)
             \/ ReloadTexture(k) \/ ReloadTextureFails(k)
  BY <1>1, TextureStep
<1>2. CASE \/ \E p \in ProgramKeys : BeginProgram(p) \/ BeginProgramFails(p)
           \/ ShaderPresent \/ LoadShader \/ LoadShaderFails \/ FinishProgram
  BY <1>2, ProgramStep
<1>3. CASE CreateBuffer
  BY <1>3, CreateBufferStep
<1>4. CASE \E h \in buffers : UpdateBuffer(h) \/ DeleteBuffer(h)
  BY <1>4, UpdateBufferStep, DeleteBufferStep
<1>5. CASE DrawWith(Held)
  BY <1>5, DrawStep
<1>6. CASE Frame
  BY <1>6, EndOfRecording, EndFrameStep, ExecuteStep DEF Frame
<1>7. CASE UNCHANGED vars
  BY <1>7, Unchanged DEF vars, frontend, ResInv, TableInv
<1> QED
  BY <1>1, <1>2, <1>3, <1>4, <1>5, <1>6, <1>7 DEF Next

\* Only the shaders enter the table while a program is being loaded.
LEMMA LoadingNext == ASSUME ResInv, LoadingInv, [Next]_vars PROVE LoadingInv'
<1>1. ASSUME NEW p \in ProgramKeys, BeginProgram(p) PROVE LoadingInv'
  BY <1>1 DEF BeginProgram, LoadingInv
<1>2. CASE ShaderPresent
  BY <1>2 DEF ShaderPresent, frontend, LoadingInv
<1>3. CASE LoadShader
  <2>1. Head(todo) \in ShaderKeys /\ loading \in ProgramKeys
    BY <1>3 DEF LoadShader, InLoop, ResInv, TableInv
  <2>2. Head(todo) # loading
    BY <2>1, KeysAssumption
  <2>3. DOMAIN table' = DOMAIN table \cup {Head(todo)} /\ loading' = loading
    BY <1>3 DEF LoadShader, With
  <2> QED
    BY <2>2, <2>3 DEF LoadingInv
<1>4. CASE LoadShaderFails \/ FinishProgram
  BY <1>4 DEF LoadShaderFails, FinishProgram, LoadingInv
<1>5. ASSUME UNCHANGED loading, loading = Nobody PROVE LoadingInv'
  BY <1>5 DEF LoadingInv
<1>6. ASSUME NEW k \in TextureKeys,
             \/ LoadTexture(k) \/ LoadTextureFails(k) \/ UnloadTexture(k)
             \/ ReloadTexture(k) \/ ReloadTextureFails(k)
      PROVE  LoadingInv'
  BY <1>5, <1>6 DEF LoadTexture, LoadTextureFails, UnloadTexture, ReloadTexture,
                    ReloadTextureFails, Idle
<1>7. ASSUME NEW p \in ProgramKeys, BeginProgramFails(p) PROVE LoadingInv'
  BY <1>5, <1>7 DEF BeginProgramFails, Idle
<1>8. CASE CreateBuffer \/ DrawWith(Held) \/ Frame
  BY <1>5, <1>8 DEF CreateBuffer, DrawWith, Frame, Idle
<1>9. ASSUME NEW h \in buffers, UpdateBuffer(h) \/ DeleteBuffer(h) PROVE LoadingInv'
  BY <1>5, <1>9 DEF UpdateBuffer, DeleteBuffer, Idle
<1>10. CASE UNCHANGED vars
  BY <1>10 DEF vars, LoadingInv
<1> QED
  BY <1>1, <1>2, <1>3, <1>4, <1>6, <1>7, <1>8, <1>9, <1>10 DEF Next

\* Nothing exists at first.
LEMMA ResInit == Init => ResInv /\ LoadingInv
<1> SUFFICES ASSUME Init PROVE ResInv /\ LoadingInv
  OBVIOUS
<1>1. Held = {} /\ \A op : Pending(op) = {}
  BY DEF Init, FrontendInit, Held, Pending
<1>2. TableInv
  BY DEF Init, FrontendInit, TableInv, Kinds
<1>3. QueueInv
  BY DEF Init, FrontendInit, QueueInv
<1>4. KnownInv
  BY <1>1 DEF Init, FrontendInit, KnownInv
<1>5. OwnInv
  BY <1>1 DEF Init, FrontendInit, OwnInv, ResourcesExact, There
<1>6. LoadingInv
  BY DEF Init, LoadingInv
<1> QED
  BY <1>2, <1>3, <1>4, <1>5, <1>6 DEF ResInv

-----------------------------------------------------------------------------
(* Results *)

\* The invariant of the resources holds in every reachable state.
THEOREM ResourcesInvariant == Spec => [](ResInv /\ LoadingInv)
BY ResInit, ResNext, LoadingNext, PTL DEF Spec

\* Table, queue and backend agree on what exists.
THEOREM ResourcesAgree == Spec => []ResourcesExact
<1>1. ResInv => ResourcesExact
  BY DEF ResInv, OwnInv
<1> QED
  BY <1>1, ResourcesInvariant, PTL

\* Every command of a frame finds what it uses, whatever the order of calls.
THEOREM UseFinds == Spec => []UseFindsResource
BY InvGivesUse, ResourcesInvariant, PTL
=============================================================================
