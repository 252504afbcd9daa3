-------------------------- MODULE BsmpClientProofs --------------------------
(***************************************************************************)
(* Proofs about the BSMP server and its client (BsmpServer.tla,            *)
(* BsmpClient.tla), for any tables of variables and functions, any size of *)
(* the curves, any calls and any number of faults.                         *)
(***************************************************************************)
EXTENDS BsmpClient, LoopTheorems

----------------------------------------------------------------------------
(* The shape of the world.                                                 *)

Bit == {0, 1}
VarInfo == [size : Nat, writable : BOOLEAN]
FuncInfo == [input_size : Nat, output_size : Nat]
GroupInfo == [id : Nat, writable : BOOLEAN, size : Nat, vars : Seq(Nat)]
Block == [1 .. BlockSize -> Bit]
CurveInfo == [writable : BOOLEAN, start : Nat, checksum : {Cleared} \cup [1 .. NBlocks -> Block]]
Slots == 0 .. BSMP_MAX_GROUPS - 1

ServerType ==
    [vars : Seq(VarInfo), data : Seq(Seq(Bit)), count : Nat, groups : [Slots -> GroupInfo],
     curves : Seq(CurveInfo), funcs : Seq(FuncInfo)]

WorldType ==
    [srv : ServerType, mem : [0 .. 3 * NBlocks - 1 -> Block],
     ends : [0 .. 1 -> 0 .. NBlocks * BlockSize],
     c28 : [selected : {0, 1}, playing : BOOLEAN, scope : BOOLEAN]]

\* A group as a master may see it.
Sound(list, grp, g) ==
    /\ grp.id = g /\ grp.size = SizesOf(list, grp.vars)
    /\ \A k \in DOMAIN grp.vars : grp.vars[k] < Len(list)
    /\ \A k \in 2 .. Len(grp.vars) : grp.vars[k - 1] < grp.vars[k]
    /\ grp.writable <=> \A k \in DOMAIN grp.vars : list[grp.vars[k] + 1].writable

\* Every variable has as many bytes as its size.
Fits(list, data) ==
    Len(data) = Len(list) /\ \A k \in DOMAIN list : data[k] \in [1 .. list[k].size -> Bit]

CurvesPlaced(curves) ==
    /\ Len(curves) = 3
    /\ \A k \in 1 .. 3 : curves[k].start = (k - 1) * NBlocks /\ (curves[k].writable <=> k < 3)

----------------------------------------------------------------------------
(* The sizes of the variables of a group.                                  *)

SizeIn(list, id) == IF Has(list, id) THEN list[id + 1].size ELSE 0

LEMMA SizeInNat ==
    ASSUME NEW list \in Seq(VarInfo), NEW id \in Nat
    PROVE  SizeIn(list, id) \in Nat
<1>1. CASE id < Len(list)
  <2>1. id + 1 \in 1 .. Len(list)
    BY <1>1
  <2>2. list[id + 1] \in VarInfo
    BY <2>1
  <2> QED BY <2>2, <1>1 DEF SizeIn, Has, VarInfo
<1> QED BY <1>1 DEF SizeIn, Has

\* SizesOf is the sum the loop computes: nothing for no variable, one size more a turn.
LEMMA SizesUnfold ==
    ASSUME NEW list \in Seq(VarInfo), NEW ids \in Seq(Nat)
    PROVE  \E g \in [0 .. Len(ids) -> Nat] :
              /\ SizesOf(list, ids) = g[Len(ids)] /\ g[0] = 0
              /\ \A k \in 1 .. Len(ids) : g[k] = g[k - 1] + SizeIn(list, ids[k])
<1> DEFINE n == Len(ids)
           F == [p \in (1 .. n) \X Nat |-> p[2] + SizeIn(list, ids[p[1]])]
           Is(g) == g = [k \in 0 .. n |-> IF k = 0 THEN 0
                                          ELSE g[k - 1] + SizeIn(list, ids[k])]
<1>1. n \in Nat /\ \A k \in 1 .. n : SizeIn(list, ids[k]) \in Nat
  <2>1. n \in Nat /\ \A k \in 1 .. n : ids[k] \in Nat
    OBVIOUS
  <2> HIDE DEF n
  <2> QED BY <2>1, SizeInNat, Zenon
<1> HIDE DEF n
<1>2. F \in [(1 .. n) \X Nat -> Nat] /\ \A k \in 1 .. n, x \in Nat : F[<<k, x>>] = x + SizeIn(list, ids[k])
  BY <1>1, SMTT(60)
<1> HIDE DEF F
<1>3. PICK f \in [0 .. n -> Nat] : f[0] = 0 /\ \A k \in 1 .. n : f[k] = F[<<k, f[k - 1]>>]
  <2>1. 0 \in Nat /\ n \in Nat /\ F \in [(1 .. n) \X Nat -> Nat]
    BY <1>1, <1>2
  <2>2. Turns(Nat, 0, F, n) # {}
    BY <2>1, LoopDefined
  <2> QED BY <2>2 DEF Turns
<1>4. \A k \in 1 .. n : f[k] = f[k - 1] + SizeIn(list, ids[k])
  <2> TAKE k \in 1 .. n
  <2>1. k - 1 \in 0 .. n
    BY <1>1
  <2>2. f[k - 1] \in Nat
    BY <1>3, <2>1
  <2> QED BY <1>2, <1>3, <2>2
<1>5. Is(f)
  <2>1. f = [k \in 0 .. n |-> f[k]]
    BY <1>3
  <2>2. \A k \in 0 .. n : f[k] = IF k = 0 THEN 0 ELSE f[k - 1] + SizeIn(list, ids[k])
    BY <1>1, <1>3, <1>4
  <2> QED BY <2>1, <2>2
<1> DEFINE loop == CHOOSE g : Is(g)
<1>6. Is(loop)
  <2> HIDE DEF Is
  <2> QED BY <1>5
<1>7. SizesOf(list, ids) = loop[n]
  BY DEF SizesOf, SizeIn, n
<1> HIDE DEF loop
<1>8. loop[0] = 0 /\ \A k \in 1 .. n : loop[k] = loop[k - 1] + SizeIn(list, ids[k])
  BY <1>1, <1>6
<1>9. \A k \in 0 .. n : loop[k] \in Nat
  <2>1. \A k \in 1 .. n : loop[k - 1] \in Nat => loop[k] \in Nat
    BY <1>1, <1>8
  <2>2. loop[0] \in Nat
    BY <1>8
  <2> QED BY <1>1, <2>1, <2>2, LoopInduction, Zenon
<1>10. loop \in [0 .. n -> Nat]
  BY <1>6, <1>9
<1> QED BY <1>7, <1>8, <1>10 DEF n

LEMMA SizesNat ==
    ASSUME NEW list \in Seq(VarInfo), NEW ids \in Seq(Nat)
    PROVE  SizesOf(list, ids) \in Nat
<1>1. PICK g \in [0 .. Len(ids) -> Nat] : SizesOf(list, ids) = g[Len(ids)]
  BY SizesUnfold
<1>2. Len(ids) \in 0 .. Len(ids)
  OBVIOUS
<1> QED BY <1>1, <1>2

\* The total depends on the sizes the identifiers have.
LEMMA SizesAgree ==
    ASSUME NEW l \in Seq(VarInfo), NEW m \in Seq(VarInfo), NEW ids \in Seq(Nat),
           \A k \in DOMAIN ids : SizeIn(l, ids[k]) = SizeIn(m, ids[k])
    PROVE  SizesOf(l, ids) = SizesOf(m, ids)
<1> DEFINE n == Len(ids)
<1>1. PICK g \in [0 .. n -> Nat] :
          /\ SizesOf(l, ids) = g[n] /\ g[0] = 0
          /\ \A k \in 1 .. n : g[k] = g[k - 1] + SizeIn(l, ids[k])
  BY SizesUnfold
<1>2. PICK h \in [0 .. n -> Nat] :
          /\ SizesOf(m, ids) = h[n] /\ h[0] = 0
          /\ \A k \in 1 .. n : h[k] = h[k - 1] + SizeIn(m, ids[k])
  BY SizesUnfold
<1>3. n \in Nat /\ n \in 0 .. n /\ DOMAIN ids = 1 .. n
  OBVIOUS
<1> HIDE DEF n
<1>4. \A k \in 1 .. n : g[k - 1] = h[k - 1] => g[k] = h[k]
  BY <1>1, <1>2, <1>3
<1>5. g[0] = h[0]
  BY <1>1, <1>2
<1>6. \A k \in 0 .. n : g[k] = h[k]
  <2>1. Parallel(g, h, n)
    BY <1>4, <1>5 DEF Parallel
  <2> QED BY <1>3, <2>1, SameTurns, ZenonT(60)
<1> QED BY <1>1, <1>2, <1>3, <1>6

\* One more variable adds its size.
LEMMA SizesAppend ==
    ASSUME NEW list \in Seq(VarInfo), NEW ids \in Seq(Nat), NEW id \in Nat
    PROVE  SizesOf(list, Append(ids, id)) = SizesOf(list, ids) + SizeIn(list, id)
<1> DEFINE n == Len(ids)
           more == Append(ids, id)
<1>1. /\ more \in Seq(Nat) /\ Len(more) = n + 1 /\ n \in Nat /\ n \in 0 .. n
      /\ more[n + 1] = id /\ \A k \in 1 .. n : more[k] = ids[k]
      /\ n + 1 \in 1 .. n + 1
  OBVIOUS
<1>2. PICK g \in [0 .. n -> Nat] :
          /\ SizesOf(list, ids) = g[n] /\ g[0] = 0
          /\ \A k \in 1 .. n : g[k] = g[k - 1] + SizeIn(list, ids[k])
  BY SizesUnfold
<1> HIDE DEF n, more
<1>3. PICK h \in [0 .. n + 1 -> Nat] :
          /\ SizesOf(list, more) = h[n + 1] /\ h[0] = 0
          /\ \A k \in 1 .. n + 1 : h[k] = h[k - 1] + SizeIn(list, more[k])
  <2>1. PICK h \in [0 .. Len(more) -> Nat] :
            /\ SizesOf(list, more) = h[Len(more)] /\ h[0] = 0
            /\ \A k \in 1 .. Len(more) : h[k] = h[k - 1] + SizeIn(list, more[k])
    BY <1>1, SizesUnfold
  <2> QED BY <1>1, <2>1
<1>4. \A k \in 1 .. n : g[k - 1] = h[k - 1] => g[k] = h[k]
  <2> TAKE k \in 1 .. n
  <2>1. k \in 1 .. n + 1
    BY <1>1
  <2> QED BY <1>1, <1>2, <1>3, <2>1
<1>5. g[0] = h[0]
  BY <1>2, <1>3
<1>6. \A k \in 0 .. n : g[k] = h[k]
  <2>1. Parallel(g, h, n)
    BY <1>4, <1>5 DEF Parallel
  <2>2. n \in Nat
    BY <1>1
  <2> QED BY <2>1, <2>2, SameTurns
<1>7. h[n + 1] = h[n] + SizeIn(list, id)
  BY <1>1, <1>3
<1>8. g[n] = h[n]
  BY <1>1, <1>6
<1> QED BY <1>2, <1>3, <1>7, <1>8 DEF more

LEMMA SizesEmpty ==
    ASSUME NEW list \in Seq(VarInfo)
    PROVE  SizesOf(list, <<>>) = 0
<1>1. <<>> \in Seq(Nat) /\ Len(<<>>) = 0
  OBVIOUS
<1> QED BY <1>1, SizesUnfold, ZenonT(60)

----------------------------------------------------------------------------
(* Making a group.                                                         *)

LEMMA GroupInit ==
    ASSUME NEW list \in Seq(VarInfo), NEW g \in Nat
    PROVE  /\ group_init(g) \in GroupInfo /\ group_init(g).vars = <<>>
           /\ Sound(list, group_init(g), g)
<1>1. group_init(g) \in GroupInfo
  BY DEF group_init, GroupInfo
<1> QED BY <1>1, SizesEmpty DEF group_init, Sound

\* group_add_var keeps the shape of a group.
LEMMA GroupAddTyped ==
    ASSUME NEW grp \in GroupInfo, NEW id \in Nat, NEW var \in VarInfo
    PROVE  /\ group_add_var(grp, id, var) \in GroupInfo
           /\ group_add_var(grp, id, var).id = grp.id
           /\ group_add_var(grp, id, var).vars = Append(grp.vars, id)
           /\ group_add_var(grp, id, var).size = grp.size + var.size
           /\ group_add_var(grp, id, var).writable = (grp.writable /\ var.writable)
<1>1. /\ grp.id \in Nat /\ grp.size \in Nat /\ grp.vars \in Seq(Nat) /\ grp.writable \in BOOLEAN
      /\ var.size \in Nat /\ var.writable \in BOOLEAN
  BY DEF GroupInfo, VarInfo
<1> DEFINE w == grp.writable /\ var.writable
           v == Append(grp.vars, id)
           z == grp.size + var.size
<1>2. group_add_var(grp, id, var) = [grp EXCEPT !.vars = v, !.size = z, !.writable = w]
  BY Zenon DEF group_add_var
<1>3. w \in BOOLEAN /\ v \in Seq(Nat) /\ z \in Nat
  BY <1>1
<1> HIDE DEF w, v, z
<1>4. [grp EXCEPT !.vars = v, !.size = z, !.writable = w] \in GroupInfo
  BY <1>3 DEF GroupInfo
<1>5. LET new == [grp EXCEPT !.vars = v, !.size = z, !.writable = w]
      IN new.id = grp.id /\ new.vars = v /\ new.size = z /\ new.writable = w
  BY DEF GroupInfo
<1> QED BY <1>2, <1>4, <1>5 DEF w, v, z

\* A variable after the last one keeps a group sound.
LEMMA GroupAddSound ==
    ASSUME NEW list \in Seq(VarInfo), NEW grp \in GroupInfo, NEW g, Sound(list, grp, g),
           NEW id \in Nat, id < Len(list), grp.vars # <<>> => grp.vars[Len(grp.vars)] < id
    PROVE  Sound(list, group_add_var(grp, id, list[id + 1]), g)
<1> DEFINE n == Len(grp.vars)
           var == list[id + 1]
           new == group_add_var(grp, id, var)
<1>1. id + 1 \in DOMAIN list /\ var \in VarInfo /\ grp.vars \in Seq(Nat) /\ n \in Nat
  BY DEF GroupInfo
<1>2. /\ new.id = grp.id /\ new.vars = Append(grp.vars, id) /\ new.size = grp.size + var.size
      /\ new.writable = (grp.writable /\ var.writable)
  BY <1>1, GroupAddTyped
<1>3. var.size = SizeIn(list, id)
  BY DEF SizeIn, Has
<1> HIDE DEF new, var
<1>4. new.size = SizesOf(list, new.vars)
  BY <1>1, <1>2, <1>3, SizesAppend DEF Sound
<1>5. /\ Len(new.vars) = n + 1 /\ new.vars[n + 1] = id /\ DOMAIN new.vars = 1 .. n + 1
      /\ DOMAIN grp.vars = 1 .. n /\ \A k \in 1 .. n : new.vars[k] = grp.vars[k]
      /\ \A k \in 1 .. n : grp.vars[k] \in Nat
  BY <1>1, <1>2
<1>6. n # 0 => grp.vars[n] < id
  BY <1>1
<1> HIDE DEF n
<1>7. \A k \in DOMAIN new.vars : new.vars[k] < Len(list)
  <2> TAKE k \in DOMAIN new.vars
  <2>1. CASE k = n + 1
    BY <1>5, <2>1
  <2>2. CASE k # n + 1
    <3>1. k \in 1 .. n
      BY <1>1, <1>5, <2>2
    <3> QED BY <1>5, <3>1 DEF Sound
  <2> QED BY <2>1, <2>2
<1>8. \A k \in 2 .. Len(new.vars) : new.vars[k - 1] < new.vars[k]
  <2> TAKE k \in 2 .. Len(new.vars)
  <2>1. CASE k = n + 1
    BY <1>1, <1>5, <1>6, <2>1
  <2>2. CASE k # n + 1
    <3>1. k \in 2 .. n /\ k \in 1 .. n /\ k - 1 \in 1 .. n
      BY <1>1, <1>5, <2>2
    <3>2. grp.vars[k - 1] < grp.vars[k]
      BY <3>1 DEF Sound, n
    <3> QED BY <1>5, <3>1, <3>2
  <2> QED BY <2>1, <2>2
<1>9. new.writable <=> \A k \in DOMAIN new.vars : list[new.vars[k] + 1].writable
  <2>1. var = list[id + 1]
    BY DEF var
  <2>2. (\A k \in DOMAIN new.vars : list[new.vars[k] + 1].writable)
          <=> (\A k \in DOMAIN grp.vars : list[grp.vars[k] + 1].writable) /\ var.writable
    <3>1. \A k \in 1 .. n + 1 : k \in 1 .. n \/ k = n + 1
      BY <1>1
    <3>2. n + 1 \in 1 .. n + 1 /\ \A k \in 1 .. n : k \in 1 .. n + 1
      BY <1>1
    <3> QED BY <1>5, <2>1, <3>1, <3>2
  <2> QED BY <1>2, <2>2 DEF Sound
<1> QED BY <1>2, <1>4, <1>7, <1>8, <1>9 DEF Sound, new, var

Partial == [grp : GroupInfo, ok : BOOLEAN]

\* One turn of the loop of group_create.
Added(list, x, i, p) ==
    IF \/ ~x.ok \/ p[i] >= Len(list)
       \/ i > 1 /\ p[i] <= x.grp.vars[i - 1]
    THEN [x EXCEPT !.ok = FALSE]
    ELSE [x EXCEPT !.grp = group_add_var(@, p[i], list[p[i] + 1])]

LEMMA AddedTyped ==
    ASSUME NEW list \in Seq(VarInfo), NEW p \in Seq(Nat), NEW i \in 1 .. Len(p), NEW x \in Partial
    PROVE  Added(list, x, i, p) \in Partial
<1> DEFINE refuse == \/ ~x.ok \/ p[i] >= Len(list)
                     \/ i > 1 /\ p[i] <= x.grp.vars[i - 1]
<1>1. CASE refuse
  <2>1. Added(list, x, i, p) = [x EXCEPT !.ok = FALSE]
    BY <1>1, Zenon DEF Added
  <2> QED BY <2>1 DEF Partial
<1>2. CASE ~refuse
  <2> DEFINE new == group_add_var(x.grp, p[i], list[p[i] + 1])
  <2>1. Added(list, x, i, p) = [x EXCEPT !.grp = new]
    BY <1>2, Zenon DEF Added
  <2>2. p[i] \in Nat /\ p[i] + 1 \in 1 .. Len(list)
    BY <1>2
  <2>3. list[p[i] + 1] \in VarInfo /\ x.grp \in GroupInfo
    BY <2>2 DEF Partial
  <2>4. new \in GroupInfo
    BY <2>2, <2>3, GroupAddTyped
  <2> HIDE DEF new
  <2> QED BY <2>1, <2>4 DEF Partial
<1> QED BY <1>1, <1>2

\* Populate is a loop over the identifiers of the request, ended by the first refusal.
LEMMA PopulateUnfold ==
    ASSUME NEW s \in ServerType, NEW grp \in GroupInfo, NEW p \in Seq(Nat)
    PROVE  \E g \in [0 .. Len(p) -> Partial] :
              /\ Populate(s, grp, p) = g[Len(p)] /\ g[0] = [grp |-> grp, ok |-> TRUE]
              /\ \A i \in 1 .. Len(p) : g[i] = Added(s.vars, g[i - 1], i, p)
<1> DEFINE n == Len(p)
           first == [grp |-> grp, ok |-> TRUE]
           F == [q \in (1 .. n) \X Partial |-> Added(s.vars, q[2], q[1], p)]
           Is(g) == g = [i \in 0 .. n |-> IF i = 0 THEN first
                                          ELSE Added(s.vars, g[i - 1], i, p)]
<1>1. n \in Nat /\ first \in Partial /\ s.vars \in Seq(VarInfo)
  BY DEF Partial, ServerType
<1>2. \A i \in 1 .. n, x \in Partial : Added(s.vars, x, i, p) \in Partial
  BY <1>1, AddedTyped
<1> HIDE DEF n, first
<1>3. /\ F \in [(1 .. n) \X Partial -> Partial]
      /\ \A i \in 1 .. n, x \in Partial : F[<<i, x>>] = Added(s.vars, x, i, p)
  BY <1>2
<1> HIDE DEF F
<1>4. PICK f \in [0 .. n -> Partial] : f[0] = first /\ \A i \in 1 .. n : f[i] = F[<<i, f[i - 1]>>]
  <2>1. Turns(Partial, first, F, n) # {}
    BY <1>1, <1>3, LoopDefined
  <2> QED BY <2>1 DEF Turns
<1>5. Is(f)
  <2>1. \A i \in 1 .. n : i \in 0 .. n /\ i # 0 /\ i - 1 \in 0 .. n
    BY <1>1
  <2>2. \A i \in 1 .. n : f[i] = Added(s.vars, f[i - 1], i, p)
    BY <1>3, <1>4, <2>1
  <2>3. f = [i \in 0 .. n |-> f[i]]
    BY <1>4
  <2>4. \A i \in 0 .. n : f[i] = IF i = 0 THEN first ELSE Added(s.vars, f[i - 1], i, p)
    BY <1>1, <1>4, <2>2
  <2> QED BY <2>3, <2>4
<1> DEFINE loop == CHOOSE g : Is(g)
<1>6. Is(loop)
  <2> HIDE DEF Is
  <2> QED BY <1>5
<1>7. Populate(s, grp, p) = loop[n]
  BY DEF Populate, Added, n, first
<1> HIDE DEF loop
<1>8. loop[0] = first /\ \A i \in 1 .. n : loop[i] = Added(s.vars, loop[i - 1], i, p)
  BY <1>1, <1>6
<1>9. \A i \in 0 .. n : loop[i] \in Partial
  <2>1. \A i \in 1 .. n : loop[i - 1] \in Partial => loop[i] \in Partial
    BY <1>2, <1>8
  <2>2. loop[0] \in Partial
    BY <1>1, <1>8
  <2> QED BY <1>1, <2>1, <2>2, LoopInduction, Zenon
<1>10. loop \in [0 .. n -> Partial]
  BY <1>6, <1>9
<1> QED BY <1>7, <1>8, <1>10 DEF n, first

\* The loop leaves a sound group, also when it ends early; the variables are
\* those of the request if it does not.
LEMMA PopulateFacts ==
    ASSUME NEW s \in ServerType, NEW p \in Seq(Nat), NEW c \in Nat
    PROVE  LET made == Populate(s, group_init(c), p)
           IN  /\ made \in Partial /\ Sound(s.vars, made.grp, c)
               /\ made.ok => made.grp.vars = p
<1> DEFINE n == Len(p)
<1>1. n \in Nat /\ n \in 0 .. n /\ s.vars \in Seq(VarInfo) /\ \A i \in 1 .. n : p[i] \in Nat
  BY DEF ServerType
<1>2. group_init(c) \in GroupInfo /\ group_init(c).vars = <<>> /\ Sound(s.vars, group_init(c), c)
  BY <1>1, GroupInit
<1>3. PICK g \in [0 .. n -> Partial] :
          /\ Populate(s, group_init(c), p) = g[n] /\ g[0] = [grp |-> group_init(c), ok |-> TRUE]
          /\ \A i \in 1 .. n : g[i] = Added(s.vars, g[i - 1], i, p)
  BY <1>2, PopulateUnfold
<1> HIDE DEF n
<1> DEFINE Good(i) == /\ Sound(s.vars, g[i].grp, c)
                      /\ g[i].ok => /\ Len(g[i].grp.vars) = i
                                    /\ \A k \in 1 .. i : g[i].grp.vars[k] = p[k]
           G == {i \in 0 .. n : Good(i)}
<1>4. 0 \in G
  <2>1. g[0].grp = group_init(c) /\ Len(<<>>) = 0
    BY <1>3
  <2> QED BY <1>1, <1>2, <2>1
<1>5. ASSUME NEW i \in 1 .. n, i - 1 \in G PROVE i \in G
  <2> DEFINE x == g[i - 1]
  <2>1. x \in Partial /\ Good(i - 1) /\ i - 1 \in 0 .. n /\ i \in 0 .. n /\ i \in Nat \ {0}
    BY <1>1, <1>3, <1>5
  <2>2. g[i] = Added(s.vars, x, i, p) /\ p[i] \in Nat
    BY <1>1, <1>3
  <2> DEFINE refuse == \/ ~x.ok \/ p[i] >= Len(s.vars)
                       \/ i > 1 /\ p[i] <= x.grp.vars[i - 1]
  <2>3. CASE refuse
    <3>1. g[i] = [x EXCEPT !.ok = FALSE]
      BY <2>2, <2>3, Zenon DEF Added
    <3>2. g[i].grp = x.grp /\ ~g[i].ok
      BY <2>1, <3>1 DEF Partial
    <3> QED BY <2>1, <3>2
  <2>4. CASE ~refuse
    <3> DEFINE old == x.grp
               new == group_add_var(old, p[i], s.vars[p[i] + 1])
    <3>1. g[i] = [x EXCEPT !.grp = new]
      BY <2>2, <2>4, Zenon DEF Added
    <3>2. g[i].grp = new
      BY <2>1, <3>1 DEF Partial
    <3>3. /\ old \in GroupInfo /\ old.vars \in Seq(Nat) /\ Sound(s.vars, old, c)
          /\ Len(old.vars) = i - 1 /\ \A k \in 1 .. i - 1 : old.vars[k] = p[k]
      BY <2>1, <2>4 DEF Partial, GroupInfo
    <3>4. p[i] < Len(s.vars)
      BY <1>1, <2>2, <2>4
    <3>5. old.vars # <<>> => old.vars[Len(old.vars)] < p[i]
      <4> SUFFICES ASSUME old.vars # <<>> PROVE old.vars[i - 1] < p[i]
        BY <3>3
      <4>1. i > 1 /\ i - 1 \in 1 .. Len(old.vars)
        BY <2>1, <3>3
      <4>2. old.vars[i - 1] \in Nat
        BY <3>3, <4>1
      <4> QED BY <2>2, <2>4, <4>1, <4>2
    <3>6. s.vars[p[i] + 1] \in VarInfo
      <4>1. p[i] + 1 \in 1 .. Len(s.vars)
        BY <1>1, <2>2, <3>4
      <4> QED BY <1>1, <4>1
    <3> HIDE DEF old, x
    <3>7. Sound(s.vars, new, c)
      BY <1>1, <2>2, <3>3, <3>4, <3>5, GroupAddSound
    <3>8. new.vars = Append(old.vars, p[i])
      BY <2>2, <3>3, <3>6, GroupAddTyped
    <3> HIDE DEF new
    <3>9. Len(new.vars) = i /\ \A k \in 1 .. i : new.vars[k] = p[k]
      BY <2>1, <3>3, <3>8
    <3> QED BY <2>1, <3>2, <3>7, <3>9
  <2> QED BY <2>3, <2>4
<1>6. n \in G
  <2> HIDE DEF G
  <2> QED BY <1>1, <1>4, <1>5, TurnInduction
<1>7. g[n] \in Partial /\ Good(n)
  BY <1>1, <1>3, <1>6
<1>8. g[n].ok => g[n].grp.vars = p
  <2> SUFFICES ASSUME g[n].ok PROVE g[n].grp.vars = p
    OBVIOUS
  <2> DEFINE v == g[n].grp.vars
  <2>1. v \in Seq(Nat) /\ Len(v) = n /\ \A k \in 1 .. n : v[k] = p[k]
    BY <1>7 DEF Partial, GroupInfo
  <2> HIDE DEF v
  <2>2. v = [k \in 1 .. n |-> v[k]] /\ p = [k \in 1 .. n |-> p[k]]
    BY <2>1 DEF n
  <2>3. v = p
    BY <2>1, <2>2
  <2> QED BY <2>3 DEF v
<1> QED BY <1>3, <1>7, <1>8

----------------------------------------------------------------------------
(* Registering the variables.                                              *)

\* A sound group stays so when variables are registered.
LEMMA SoundGrows ==
    ASSUME NEW list \in Seq(VarInfo), NEW var \in VarInfo, NEW grp \in GroupInfo, NEW g,
           Sound(list, grp, g)
    PROVE  Sound(Append(list, var), grp, g)
<1> DEFINE more == Append(list, var)
           n == Len(list)
<1>1. /\ more \in Seq(VarInfo) /\ Len(more) = n + 1 /\ n \in Nat
      /\ \A k \in 1 .. n : more[k] = list[k]
  OBVIOUS
<1>2. grp.vars \in Seq(Nat) /\ \A k \in DOMAIN grp.vars : grp.vars[k] \in Nat /\ grp.vars[k] < n
  BY DEF GroupInfo, Sound
<1> HIDE DEF more, n
<1>3. \A id \in Nat : id < n => more[id + 1] = list[id + 1]
  <2> TAKE id \in Nat
  <2>1. id < n => id + 1 \in 1 .. n
    BY <1>1
  <2> QED BY <1>1, <2>1
<1>4. \A k \in DOMAIN grp.vars : /\ grp.vars[k] < Len(more) /\ Has(list, grp.vars[k])
                                 /\ Has(more, grp.vars[k])
                                 /\ more[grp.vars[k] + 1] = list[grp.vars[k] + 1]
  BY <1>1, <1>2, <1>3 DEF Has, n
<1>5. \A k \in DOMAIN grp.vars : SizeIn(list, grp.vars[k]) = SizeIn(more, grp.vars[k])
  BY <1>4 DEF SizeIn
<1>6. SizesOf(list, grp.vars) = SizesOf(more, grp.vars)
  BY <1>1, <1>2, <1>5, SizesAgree
<1>7. Sound(more, grp, g)
  BY <1>4, <1>6 DEF Sound
<1> QED BY <1>7 DEF more

LEMMA AppendFacts ==
    ASSUME NEW T, NEW q \in Seq(T), NEW e \in T
    PROVE  /\ Append(q, e) \in Seq(T) /\ Len(Append(q, e)) = Len(q) + 1
           /\ Append(q, e)[Len(q) + 1] = e /\ \A k \in 1 .. Len(q) : Append(q, e)[k] = q[k]
OBVIOUS

LEMMA ZerosTyped ==
    ASSUME NEW n \in Nat
    PROVE  Zeros(n) \in [1 .. n -> Bit] /\ Zeros(n) \in Seq(Bit)
BY DEF Zeros, Bit

RegInv(s) ==
    /\ s \in ServerType /\ Fits(s.vars, s.data) /\ s.count = 3 /\ s.curves = <<>>
    /\ Len(s.vars) <= BSMP_MAX_VARIABLES
    /\ \A k \in DOMAIN s.vars : s.vars[k].size \in 1 .. 128
    /\ \A g \in 0 .. 2 : Sound(s.vars, s.groups[g], g)

LEMMA ServerConstants ==
    /\ BSMP_MAX_VARIABLES \in Nat /\ BSMP_MAX_GROUPS \in Nat /\ BSMP_MAX_GROUPS >= 3
    /\ 0 \in Slots /\ 1 \in Slots /\ 2 \in Slots
    /\ Variables \in Seq(VarInfo) /\ Functions \in Seq(FuncInfo)
    /\ NBlocks \in Nat /\ NBlocks >= 1 /\ BlockSize \in Nat /\ BlockSize >= 1
<1>1. BSMP_MAX_GROUPS \in Nat /\ BSMP_MAX_GROUPS >= 3
  BY ServerAssumption
<1>2. 0 \in Slots /\ 1 \in Slots /\ 2 \in Slots
  BY <1>1 DEF Slots
<1> QED BY <1>1, <1>2, ServerAssumption DEF VarInfo, FuncInfo

LEMMA RegInit == RegInv(bsmp_server_init)
<1> DEFINE s == bsmp_server_init
           groups == [i \in 0 .. BSMP_MAX_GROUPS - 1 |->
                         IF i < GROUP_STANDARD_COUNT THEN group_init(i) ELSE NoGroup]
<1>1. <<>> \in Seq(VarInfo) /\ <<>> \in Seq(Seq(Bit)) /\ <<>> \in Seq(CurveInfo) /\ <<>> \in Seq(FuncInfo)
  OBVIOUS
<1>2. \A i \in Nat : group_init(i) \in GroupInfo /\ Sound(<<>>, group_init(i), i)
  BY <1>1, GroupInit
<1>3. NoGroup \in GroupInfo
  BY DEF NoGroup, GroupInfo
<1>4. groups \in [Slots -> GroupInfo] /\ \A g \in 0 .. 2 : groups[g] = group_init(g)
  BY <1>2, <1>3, ServerConstants DEF Slots, GROUP_STANDARD_COUNT
<1>5. /\ s.vars = <<>> /\ s.data = <<>> /\ s.count = 3 /\ s.groups = groups
      /\ s.curves = <<>> /\ s.funcs = <<>>
  BY DEF bsmp_server_init, GROUP_STANDARD_COUNT
<1>6. s = [vars |-> <<>>, data |-> <<>>, count |-> 3, groups |-> groups, curves |-> <<>>, funcs |-> <<>>]
  BY DEF bsmp_server_init, GROUP_STANDARD_COUNT
<1> HIDE DEF groups
<1>7. s \in ServerType
  BY <1>1, <1>4, <1>6 DEF ServerType
<1> HIDE DEF s
<1>8. Fits(s.vars, s.data)
  BY <1>5 DEF Fits
<1>9. \A g \in 0 .. 2 : Sound(s.vars, s.groups[g], g)
  BY <1>2, <1>4, <1>5
<1> QED BY <1>5, <1>7, <1>8, <1>9, ServerConstants DEF RegInv, s

\* Registering one variable keeps the standard groups sound.
LEMMA RegStep ==
    ASSUME NEW s, RegInv(s), NEW var \in VarInfo, var.size > 0
    PROVE  /\ RegInv(bsmp_register_variable(s, var))
           /\ Len(bsmp_register_variable(s, var).vars) <= Len(s.vars) + 1
<1> DEFINE id == Len(s.vars)
           own == IF var.writable THEN GROUP_WRITE_ID ELSE GROUP_READ_ID
           more == Append(s.vars, var)
           all == group_add_var(s.groups[0], id, var)
           mine == group_add_var(s.groups[own], id, var)
           data == Append(s.data, Zeros(var.size))
           new == [s EXCEPT !.vars = more, !.data = data,
                            !.groups = [@ EXCEPT ![0] = all, ![own] = mine]]
<1>1. CASE ~var_check(var) \/ Len(s.vars) >= BSMP_MAX_VARIABLES
  <2>1. bsmp_register_variable(s, var) = s /\ Len(s.vars) \in Nat
    BY <1>1 DEF bsmp_register_variable, RegInv, ServerType
  <2> QED BY <2>1
<1>2. CASE ~(~var_check(var) \/ Len(s.vars) >= BSMP_MAX_VARIABLES)
  <2>1. var.size \in Nat /\ var.size \in 1 .. 128 /\ id \in Nat /\ id + 1 <= BSMP_MAX_VARIABLES
    <3>1. var.size \in Nat
      BY DEF VarInfo
    <3>2. var.size <= 128 /\ ~(id >= BSMP_MAX_VARIABLES)
      BY <1>2 DEF var_check, BSMP_VAR_MAX_SIZE
    <3>3. id \in Nat
      BY DEF RegInv, ServerType
    <3>4. \A m \in Nat : m > 0 /\ m <= 128 => m \in 1 .. 128
      OBVIOUS
    <3>5. \A m, n \in Nat : ~(m >= n) => m + 1 <= n
      OBVIOUS
    <3>6. BSMP_MAX_VARIABLES \in Nat
      BY ServerConstants
    <3> HIDE DEF id
    <3>7. var.size \in 1 .. 128
      BY <3>1, <3>2, <3>4
    <3>8. id + 1 <= BSMP_MAX_VARIABLES
      BY <3>2, <3>3, <3>5, <3>6
    <3> QED BY <3>1, <3>3, <3>7, <3>8
  <2>2. own \in {1, 2} /\ own \in Slots /\ own # 0
    BY ServerConstants DEF GROUP_WRITE_ID, GROUP_READ_ID
  <2>3. bsmp_register_variable(s, var) = new
    BY <1>2, <2>2 DEF bsmp_register_variable, GROUP_ALL_ID, RegInv, ServerType
  <2>4. /\ s.vars \in Seq(VarInfo) /\ s.data \in Seq(Seq(Bit)) /\ s.groups \in [Slots -> GroupInfo]
        /\ Len(s.data) = id
    BY DEF RegInv, ServerType, Fits
  <2>5. /\ more \in Seq(VarInfo) /\ Len(more) = id + 1 /\ more[id + 1] = var /\ id < Len(more)
        /\ DOMAIN more = 1 .. id + 1 /\ \A k \in 1 .. id : more[k] = s.vars[k]
    BY <2>1, <2>4
  <2>6. Zeros(var.size) \in [1 .. var.size -> Bit] /\ Zeros(var.size) \in Seq(Bit)
    BY <2>1, ZerosTyped
  <2>7. /\ data \in Seq(Seq(Bit)) /\ Len(data) = id + 1 /\ data[id + 1] = Zeros(var.size)
        /\ \A k \in 1 .. id : data[k] = s.data[k]
    BY <2>4, <2>6, AppendFacts
  <2>8. ASSUME NEW g \in 0 .. 2
        PROVE  /\ group_add_var(s.groups[g], id, var) \in GroupInfo
               /\ Sound(more, group_add_var(s.groups[g], id, var), g)
               /\ Sound(more, s.groups[g], g)
    <3> DEFINE grp == s.groups[g]
    <3>1. grp \in GroupInfo /\ Sound(s.vars, grp, g)
      BY <2>4, ServerConstants DEF RegInv
    <3>2. Sound(more, grp, g)
      BY <2>4, <3>1, SoundGrows
    <3>3. grp.vars # <<>> => grp.vars[Len(grp.vars)] < id
      <4>1. grp.vars \in Seq(Nat)
        BY <3>1 DEF GroupInfo
      <4>2. grp.vars # <<>> => Len(grp.vars) \in DOMAIN grp.vars
        BY <4>1
      <4> QED BY <3>1, <4>2 DEF Sound
    <3> HIDE DEF grp, more, id
    <3>4. Sound(more, group_add_var(grp, id, more[id + 1]), g)
      BY <2>1, <2>5, <3>1, <3>2, <3>3, GroupAddSound
    <3>5. group_add_var(grp, id, var) \in GroupInfo
      BY <2>1, <3>1, GroupAddTyped
    <3> QED BY <2>5, <3>2, <3>4, <3>5 DEF grp
  <2>9. /\ all \in GroupInfo /\ Sound(more, all, 0) /\ mine \in GroupInfo /\ Sound(more, mine, own)
    <3>1. own \in 0 .. 2 /\ 0 \in 0 .. 2
      BY <2>2
    <3> HIDE DEF own
    <3> QED BY <2>8, <3>1
  <2> DEFINE groups == [s.groups EXCEPT ![0] = all, ![own] = mine]
  <2> HIDE DEF all, mine, own, more, data, id
  <2>10. /\ groups \in [Slots -> GroupInfo] /\ groups[0] = all /\ groups[own] = mine
         /\ \A g \in Slots : g # 0 /\ g # own => groups[g] = s.groups[g]
    BY <2>2, <2>4, <2>9, ServerConstants
  <2>11. \A g \in 0 .. 2 : Sound(more, groups[g], g)
    <3> TAKE g \in 0 .. 2
    <3>1. g \in Slots
      BY ServerConstants
    <3> HIDE DEF groups
    <3>2. CASE g = 0
      BY <2>9, <2>10, <3>2
    <3>3. CASE g = own
      BY <2>9, <2>10, <3>3
    <3>4. CASE g # 0 /\ g # own
      BY <2>8, <2>10, <3>1, <3>4
    <3> QED BY <3>2, <3>3, <3>4
  <2>12. new = [s EXCEPT !.vars = more, !.data = data, !.groups = groups]
    BY DEF RegInv, ServerType
  <2> HIDE DEF groups, new
  <2>13. /\ new \in ServerType /\ new.vars = more /\ new.data = data /\ new.groups = groups
         /\ new.count = s.count /\ new.curves = s.curves
    BY <2>5, <2>7, <2>10, <2>12 DEF RegInv, ServerType
  <2>14. Fits(more, data) /\ \A k \in DOMAIN more : more[k].size \in 1 .. 128
    <3>1. ASSUME NEW k \in DOMAIN more
          PROVE  data[k] \in [1 .. more[k].size -> Bit] /\ more[k].size \in 1 .. 128
      <4>1. CASE k = id + 1
        BY <2>1, <2>5, <2>6, <2>7, <4>1
      <4>2. CASE k # id + 1
        <5>1. k \in 1 .. id /\ k \in DOMAIN s.vars
          BY <2>1, <2>4, <2>5, <4>2 DEF id
        <5> QED BY <2>5, <2>7, <5>1 DEF RegInv, Fits
      <4> QED BY <4>1, <4>2
    <3> QED BY <2>5, <2>7, <3>1 DEF Fits
  <2>15. RegInv(new)
    BY <2>1, <2>5, <2>11, <2>13, <2>14 DEF RegInv
  <2>16. Len(new.vars) <= id + 1
    BY <2>1, <2>5, <2>13
  <2> QED BY <2>3, <2>15, <2>16 DEF new, id
<1> QED BY <1>1, <1>2

\* So does registering all of them.
LEMMA RegisteredAll ==
    \E s : /\ RegInv(s) /\ Len(s.vars) <= Len(Variables)
           /\ bsmp_init = [s EXCEPT !.funcs = Functions, !.curves = <<Curve(0), Curve(1), Curve(2)>>]
<1> DEFINE n == Len(Variables)
           T == {s \in ServerType : RegInv(s)}
           first == bsmp_server_init
           F == [q \in (1 .. n) \X T |-> bsmp_register_variable(q[2], Variables[q[1]])]
           Is(g) == g = [k \in 0 .. n |-> IF k = 0 THEN first
                                          ELSE bsmp_register_variable(g[k - 1], Variables[k])]
<1>1. n \in Nat /\ n \in 0 .. n /\ first \in T
      /\ \A k \in 1 .. n : Variables[k] \in VarInfo /\ Variables[k].size > 0
  BY ServerConstants, ListAssumption, RegInit DEF RegInv
<1>2. \A k \in 1 .. n, s \in T : bsmp_register_variable(s, Variables[k]) \in T
  <2> SUFFICES ASSUME NEW k \in 1 .. n, NEW s \in T
               PROVE  bsmp_register_variable(s, Variables[k]) \in T
    OBVIOUS
  <2>1. RegInv(s) /\ Variables[k] \in VarInfo /\ Variables[k].size > 0
    BY <1>1
  <2> DEFINE next == bsmp_register_variable(s, Variables[k])
  <2>2. RegInv(next)
    BY <2>1, RegStep
  <2> HIDE DEF next
  <2>3. next \in ServerType
    BY <2>2 DEF RegInv
  <2>4. next \in T
    BY <2>2, <2>3
  <2> QED BY <2>4 DEF next
<1>11. \A k \in 1 .. n, s \in T : Len(bsmp_register_variable(s, Variables[k]).vars) <= Len(s.vars) + 1
  BY <1>1, RegStep
<1>12. \A s \in T : Len(s.vars) \in Nat
  BY DEF ServerType
<1>13. Len(first.vars) = 0
  BY DEF bsmp_server_init
<1> HIDE DEF n, first, T
<1>3. /\ F \in [(1 .. n) \X T -> T]
      /\ \A k \in 1 .. n, s \in T : F[<<k, s>>] = bsmp_register_variable(s, Variables[k])
  BY <1>2
<1> HIDE DEF F
<1>4. PICK f \in [0 .. n -> T] : f[0] = first /\ \A k \in 1 .. n : f[k] = F[<<k, f[k - 1]>>]
  <2>1. Turns(T, first, F, n) # {}
    BY <1>1, <1>3, LoopDefined
  <2> QED BY <2>1 DEF Turns
<1>5. Is(f)
  <2>1. \A k \in 1 .. n : k \in 0 .. n /\ k # 0 /\ k - 1 \in 0 .. n
    BY <1>1
  <2>2. \A k \in 1 .. n : f[k] = bsmp_register_variable(f[k - 1], Variables[k])
    BY <1>3, <1>4, <2>1
  <2>3. f = [k \in 0 .. n |-> f[k]]
    BY <1>4
  <2>4. \A k \in 0 .. n : f[k] = IF k = 0 THEN first
                                 ELSE bsmp_register_variable(f[k - 1], Variables[k])
    BY <1>1, <1>4, <2>2
  <2> QED BY <2>3, <2>4
<1> DEFINE loop == CHOOSE g : Is(g)
<1>6. Is(loop)
  <2> HIDE DEF Is
  <2> QED BY <1>5
<1>7. bsmp_init = [loop[n] EXCEPT !.funcs = Functions, !.curves = <<Curve(0), Curve(1), Curve(2)>>]
  BY DEF bsmp_init, n, first
<1> HIDE DEF loop
<1>8. loop[0] = first /\ \A k \in 1 .. n : loop[k] = bsmp_register_variable(loop[k - 1], Variables[k])
  BY <1>1, <1>6
<1>9. \A k \in 0 .. n : loop[k] \in T
  <2>1. \A k \in 1 .. n : loop[k - 1] \in T => loop[k] \in T
    BY <1>2, <1>8
  <2>2. loop[0] \in T
    BY <1>1, <1>8
  <2>3. \A k \in 0 .. n : loop[k] \in T
    BY <1>1, <2>1, <2>2, LoopInduction, Zenon
  <2> QED BY <1>1, <2>3
<1>10. RegInv(loop[n])
  BY <1>1, <1>9 DEF T
<1>14. Len(loop[n].vars) <= n
  <2> DEFINE G == {k \in 0 .. n : Len(loop[k].vars) <= k}
  <2>1. 0 \in G
    BY <1>1, <1>8, <1>13
  <2>2. ASSUME NEW k \in 1 .. n, k - 1 \in G PROVE k \in G
    <3>1. k - 1 \in 0 .. n /\ k \in 0 .. n /\ Len(loop[k - 1].vars) <= k - 1
      BY <1>1, <2>2
    <3>2. Len(loop[k].vars) \in Nat /\ Len(loop[k - 1].vars) \in Nat
      BY <1>9, <1>12, <3>1
    <3>3. Len(loop[k].vars) <= Len(loop[k - 1].vars) + 1
      BY <1>8, <1>9, <1>11, <3>1
    <3> QED BY <3>1, <3>2, <3>3
  <2> HIDE DEF G
  <2>3. 0 .. n \subseteq G
    BY <1>1, <2>1, <2>2, TurnInduction
  <2> QED BY <1>1, <2>3 DEF G
<1> QED BY <1>7, <1>10, <1>14 DEF n

\* What every command keeps of the server.
ServerInv(s) ==
    /\ s \in ServerType /\ s.vars = bsmp_init.vars /\ Fits(s.vars, s.data)
    /\ s.count \in 3 .. BSMP_MAX_GROUPS
    /\ \A g \in 0 .. s.count - 1 : Sound(s.vars, s.groups[g], g)
    /\ CurvesPlaced(s.curves)

\* The server that bsmp_init leaves satisfies the invariant of the server.
LEMMA ServerStarts ==
    /\ ServerInv(bsmp_init) /\ bsmp_init.count = 3
    /\ Len(bsmp_init.vars) <= BSMP_MAX_VARIABLES
    /\ \A k \in DOMAIN bsmp_init.vars : bsmp_init.vars[k].size \in 1 .. 128
    /\ Len(bsmp_init.vars) < 128
    /\ \A k \in 1 .. 3 : bsmp_init.curves[k].checksum = Cleared
<1> DEFINE curves == <<Curve(0), Curve(1), Curve(2)>>
<1>1. PICK s : /\ RegInv(s) /\ Len(s.vars) <= Len(Variables)
               /\ bsmp_init = [s EXCEPT !.funcs = Functions, !.curves = curves]
  BY RegisteredAll
<1>2. /\ Curve(0) \in CurveInfo /\ Curve(1) \in CurveInfo /\ Curve(2) \in CurveInfo
  BY ServerConstants DEF Curve, CurveInfo
<1>3. /\ curves[1].start = 0 /\ curves[2].start = NBlocks /\ curves[3].start = 2 * NBlocks
      /\ curves[1].writable /\ curves[2].writable /\ ~curves[3].writable
      /\ \A k \in 1 .. 3 : curves[k].checksum = Cleared
  <2>1. /\ Curve(0).start = 0 /\ Curve(1).start = NBlocks /\ Curve(2).start = 2 * NBlocks
        /\ Curve(0).checksum = Cleared /\ Curve(1).checksum = Cleared /\ Curve(2).checksum = Cleared
    BY ServerConstants DEF Curve
  <2>4. Curve(0).writable = (0 < 2) /\ Curve(1).writable = (1 < 2) /\ Curve(2).writable = (2 < 2)
    BY Zenon DEF Curve
  <2>5. Curve(0).writable /\ Curve(1).writable /\ ~Curve(2).writable
    <3>1. 0 < 2 /\ 1 < 2 /\ ~(2 < 2)
      OBVIOUS
    <3> QED BY <2>4, <3>1, Zenon
  <2>2. curves[1] = Curve(0) /\ curves[2] = Curve(1) /\ curves[3] = Curve(2)
    OBVIOUS
  <2>3. \A k \in 1 .. 3 : k = 1 \/ k = 2 \/ k = 3
    OBVIOUS
  <2> HIDE DEF curves
  <2> QED BY <2>1, <2>2, <2>3, <2>5
<1>4. curves \in Seq(CurveInfo) /\ Len(curves) = 3
  BY <1>2
<1>5. CurvesPlaced(curves)
  BY <1>3, <1>4, ServerConstants DEF CurvesPlaced
<1> HIDE DEF curves
<1>6. /\ bsmp_init \in ServerType /\ bsmp_init.vars = s.vars /\ bsmp_init.data = s.data
      /\ bsmp_init.count = s.count /\ bsmp_init.groups = s.groups /\ bsmp_init.curves = curves
  BY <1>1, <1>4, ServerConstants DEF RegInv, ServerType
<1>7. s.count = 3 /\ \A g \in 0 .. 2 : Sound(s.vars, s.groups[g], g)
  BY <1>1 DEF RegInv
<1>8. s.count - 1 = 2 /\ s.count \in 3 .. BSMP_MAX_GROUPS
  BY <1>7, ServerConstants
<1>9. ServerInv(bsmp_init)
  BY <1>1, <1>5, <1>6, <1>7, <1>8 DEF ServerInv, RegInv
<1>10. Len(bsmp_init.vars) < 128
  <2>1. Len(s.vars) \in Nat /\ Len(Variables) \in Nat /\ Len(s.vars) <= Len(Variables)
    BY <1>1, ServerConstants DEF RegInv, ServerType
  <2> QED BY <1>6, <2>1, ListAssumption
<1> QED BY <1>1, <1>3, <1>6, <1>9, <1>10 DEF RegInv

----------------------------------------------------------------------------
(* What a command leaves.                                                  *)

WorldInv(w) ==
    /\ w \in WorldType /\ ServerInv(w.srv)
    /\ \A id \in 0 .. 1 : w.srv.curves[id + 1].checksum \in {Cleared, Content(w, id)}

\* No command touches a read-only variable, or what the C28 does.
Served(w, after) ==
    /\ WorldInv(after) /\ after.c28 = w.c28
    /\ \A k \in DOMAIN w.srv.vars : ~w.srv.vars[k].writable => after.srv.data[k] = w.srv.data[k]

SameGroups(w, after) == after.srv.count = w.srv.count /\ after.srv.groups = w.srv.groups

WithServer(w, s) == [w EXCEPT !.srv = s]

LEMMA WithServerFacts ==
    ASSUME NEW w \in WorldType, NEW s \in ServerType
    PROVE  /\ WithServer(w, s) \in WorldType /\ WithServer(w, s).srv = s
           /\ WithServer(w, s).mem = w.mem /\ WithServer(w, s).ends = w.ends
           /\ WithServer(w, s).c28 = w.c28
<1>1. WithServer(w, s) \in WorldType
  BY DEF WithServer, WorldType
<1>2. /\ WithServer(w, s).srv = s /\ WithServer(w, s).mem = w.mem
      /\ WithServer(w, s).ends = w.ends /\ WithServer(w, s).c28 = w.c28
  BY DEF WithServer, WorldType
<1> QED BY <1>1, <1>2

LEMMA NothingServed ==
    ASSUME NEW w, WorldInv(w)
    PROVE  /\ Served(w, w) /\ SameGroups(w, w)
           /\ \A code, payload : Send(w, w.srv, code, payload).world = w
           /\ \A code : Refuse(w, code).world = w
<1>1. [w EXCEPT !.srv = w.srv] = w
  BY DEF WorldInv, WorldType
<1> QED BY <1>1 DEF Served, SameGroups, Send, Refuse

\* The requests the server may get: data are bits.
Clean(code, p) ==
    /\ p \in Seq(Nat)
    /\ code \in DOMAIN Header => \A k \in DOMAIN p : k > Header[code] => p[k] \in Bit

LEMMA RestFacts ==
    ASSUME NEW p \in Seq(Nat), NEW n \in Nat, n <= Len(p), \A k \in DOMAIN p : k > n => p[k] \in Bit
    PROVE  /\ Rest(p, n) \in Seq(Bit) /\ Len(Rest(p, n)) = Len(p) - n
           /\ Rest(p, n) \in [1 .. Len(p) - n -> Bit]
           /\ \A k \in 1 .. Len(p) - n : Rest(p, n)[k] = p[n + k]
<1>1. Rest(p, n) = [k \in 1 .. Len(p) - n |-> p[n + k]]
  BY DEF Rest
<1>2. \A k \in 1 .. Len(p) - n : n + k \in DOMAIN p /\ n + k > n
  OBVIOUS
<1>3. Rest(p, n) \in [1 .. Len(p) - n -> Bit]
  BY <1>1, <1>2
<1>4. Len(p) - n \in Nat
  OBVIOUS
<1> QED BY <1>1, <1>3, <1>4

LEMMA BinOpFacts ==
    ASSUME NEW op \in BinOps, NEW n \in Nat, NEW data \in [1 .. n -> Bit], NEW mask \in [1 .. n -> Bit]
    PROVE  BinOp(op, data, mask) \in [1 .. n -> Bit]
<1>1. \A d, m \in Bit : bin_op(op, d, m) \in Bit
  BY DEF bin_op, Bit, BinOps
<1> QED BY <1>1 DEF BinOp

LEMMA BitsSeq ==
    ASSUME NEW n \in Nat, NEW v \in [1 .. n -> Bit]
    PROVE  v \in Seq(Bit) /\ Len(v) = n
OBVIOUS

LEMMA ElementTyped ==
    ASSUME NEW T, NEW q \in Seq(T), NEW k \in 1 .. Len(q)
    PROVE  q[k] \in T
OBVIOUS

\* Writing one variable changes its bytes only, and keeps their number.
LEMMA SetVarFacts ==
    ASSUME NEW s \in ServerType, NEW id \in Nat, id < Len(s.data), NEW v \in Seq(Bit)
    PROVE  /\ SetVar(s, id, v) \in ServerType
           /\ SetVar(s, id, v).vars = s.vars /\ SetVar(s, id, v).count = s.count
           /\ SetVar(s, id, v).groups = s.groups /\ SetVar(s, id, v).curves = s.curves
           /\ SetVar(s, id, v).funcs = s.funcs
           /\ Len(SetVar(s, id, v).data) = Len(s.data) /\ SetVar(s, id, v).data[id + 1] = v
           /\ \A k \in DOMAIN s.data : k # id + 1 => SetVar(s, id, v).data[k] = s.data[k]
<1> DEFINE d == [s.data EXCEPT ![id + 1] = v]
           n == Len(s.data)
<1>1. s.data \in Seq(Seq(Bit)) /\ n \in Nat /\ id + 1 \in 1 .. n
  BY DEF ServerType
<1>2. d \in [1 .. n -> Seq(Bit)] /\ d[id + 1] = v /\ \A k \in 1 .. n : k # id + 1 => d[k] = s.data[k]
  BY <1>1
<1>3. d \in Seq(Seq(Bit)) /\ Len(d) = n
  BY <1>1, <1>2
<1>4. SetVar(s, id, v) = [s EXCEPT !.data = d]
  BY DEF SetVar, ServerType
<1> HIDE DEF d
<1>5. [s EXCEPT !.data = d] \in ServerType
  BY <1>3 DEF ServerType
<1>6. LET t == [s EXCEPT !.data = d]
      IN  /\ t.vars = s.vars /\ t.count = s.count /\ t.groups = s.groups
          /\ t.curves = s.curves /\ t.funcs = s.funcs /\ t.data = d
  BY DEF ServerType
<1> QED BY <1>1, <1>2, <1>3, <1>4, <1>5, <1>6

----------------------------------------------------------------------------
(* The loop over the variables of a group.                                 *)

\* The part of the bytes that variable k of the group takes never passes the
\* total size.
LEMMA PartsInside ==
    ASSUME NEW n \in Nat, NEW g \in [0 .. n -> Nat], \A k \in 1 .. n : g[k] >= g[k - 1]
    PROVE  \A k \in 0 .. n : g[k] <= g[n]
<1> DEFINE G == {k \in 0 .. n : \A j \in 0 .. k : g[j] <= g[k]}
<1>1. 0 \in G
  <2>1. \A j \in 0 .. 0 : j = 0
    OBVIOUS
  <2> QED BY <2>1
<1>2. ASSUME NEW k \in 1 .. n, k - 1 \in G PROVE k \in G
  <2>1. \A j \in 0 .. k : j = k \/ j \in 0 .. k - 1
    OBVIOUS
  <2>2. g[k] \in Nat /\ g[k - 1] \in Nat /\ \A j \in 0 .. k - 1 : g[j] \in Nat
    OBVIOUS
  <2>3. \A j \in 0 .. k - 1 : g[j] <= g[k]
    BY <1>2, <2>2
  <2>4. g[k] <= g[k] /\ k \in 0 .. n
    BY <2>2
  <2> QED BY <2>1, <2>3, <2>4
<1>3. n \in G
  <2>1. n \in 0 .. n
    OBVIOUS
  <2> HIDE DEF G
  <2> QED BY <1>1, <1>2, <2>1, TurnInduction
<1> QED BY <1>3

\* The server after some variables of ids have new values.
Rewritten(s, t, ids) ==
    /\ t \in ServerType /\ Fits(t.vars, t.data)
    /\ t.vars = s.vars /\ t.count = s.count /\ t.groups = s.groups
    /\ t.curves = s.curves /\ t.funcs = s.funcs
    /\ \A k \in DOMAIN s.data : (\A j \in DOMAIN ids : k # ids[j] + 1) => t.data[k] = s.data[k]

NewValue(s, id, part, op) == IF op = Assign THEN part ELSE BinOp(op, s.data[id + 1], part)

\* One turn of the loop.
Turn(s, ids, bytes, op, k, x) ==
    LET part == SubSeq(bytes, x.payloadp + 1, x.payloadp + s.vars[ids[k] + 1].size)
    IN [srv |-> SetVar(x.srv, ids[k], NewValue(s, ids[k], part, op)),
        payloadp |-> x.payloadp + s.vars[ids[k] + 1].size]

LEMMA SubSeqBits ==
    ASSUME NEW bytes \in Seq(Bit), NEW at \in Nat, NEW size \in Nat, at + size <= Len(bytes)
    PROVE  SubSeq(bytes, at + 1, at + size) \in [1 .. size -> Bit]
<1>1. SubSeq(bytes, at + 1, at + size) = [k \in 1 .. size |-> bytes[at + k]]
  <2>1. at + size - (at + 1) + 1 = size
    OBVIOUS
  <2>2. \A k \in 1 .. size : at + 1 + k - 1 = at + k
    OBVIOUS
  <2>3. SubSeq(bytes, at + 1, at + size)
          = [k \in 1 .. at + size - (at + 1) + 1 |-> bytes[at + 1 + k - 1]]
    OBVIOUS
  <2> QED BY <2>1, <2>2, <2>3
<1>2. \A k \in 1 .. size : bytes[at + k] \in Bit
  <2>1. \A k \in 1 .. size : at + k \in 1 .. Len(bytes)
    OBVIOUS
  <2> QED BY <2>1
<1>3. [k \in 1 .. size |-> bytes[at + k]] \in [1 .. size -> Bit]
  BY <1>2
<1> QED BY <1>1, <1>3, Zenon

LEMMA SetVarRewrites ==
    ASSUME NEW s \in ServerType, Fits(s.vars, s.data), NEW ids \in Seq(Nat),
           NEW t, Rewritten(s, t, ids), NEW k \in DOMAIN ids, ids[k] < Len(s.vars),
           NEW v \in [1 .. s.vars[ids[k] + 1].size -> Bit]
    PROVE  Rewritten(s, SetVar(t, ids[k], v), ids)
<1> DEFINE id == ids[k]
           new == SetVar(t, id, v)
<1>1. id \in Nat /\ id + 1 \in 1 .. Len(s.vars) /\ s.vars \in Seq(VarInfo)
  BY DEF ServerType
<1>2. s.vars[id + 1] \in VarInfo
  BY <1>1
<1>3. s.vars[id + 1].size \in Nat
  BY <1>2 DEF VarInfo
<1>4. v \in Seq(Bit)
  BY <1>3, BitsSeq
<1>5. t \in ServerType /\ t.vars = s.vars /\ Len(t.data) = Len(s.vars) /\ t.data \in Seq(Seq(Bit))
  BY DEF Rewritten, Fits, ServerType
<1>6. DOMAIN t.data = 1 .. Len(s.vars) /\ DOMAIN s.vars = 1 .. Len(s.vars)
  BY <1>1, <1>5
<1> HIDE DEF id
<1>7. /\ new \in ServerType /\ new.vars = t.vars /\ new.count = t.count
      /\ new.groups = t.groups /\ new.curves = t.curves /\ new.funcs = t.funcs
      /\ Len(new.data) = Len(t.data) /\ new.data[id + 1] = v
      /\ \A j \in DOMAIN t.data : j # id + 1 => new.data[j] = t.data[j]
  BY <1>1, <1>4, <1>5, SetVarFacts DEF id
<1> HIDE DEF new
<1>8. Fits(new.vars, new.data)
  <2>1. ASSUME NEW j \in DOMAIN s.vars PROVE new.data[j] \in [1 .. s.vars[j].size -> Bit]
    <3>1. CASE j = id + 1
      BY <1>7, <3>1 DEF id
    <3>2. CASE j # id + 1
      BY <1>5, <1>6, <1>7, <2>1, <3>2 DEF Rewritten, Fits
    <3> QED BY <3>1, <3>2
  <2> QED BY <1>5, <1>7, <2>1 DEF Fits
<1>9. ASSUME NEW j \in DOMAIN s.data, \A i \in DOMAIN ids : j # ids[i] + 1
      PROVE  new.data[j] = s.data[j]
  <2>1. t.data[j] = s.data[j] /\ j # id + 1
    BY <1>9 DEF Rewritten, id
  <2>2. j \in DOMAIN t.data
    BY <1>6 DEF Fits, ServerType
  <2> QED BY <1>7, <2>1, <2>2
<1> QED BY <1>7, <1>8, <1>9 DEF Rewritten, new, id

\* The places of the parts: each begins where the one before it ends.
Places(s, ids, g) ==
    /\ g \in [0 .. Len(ids) -> Nat] /\ g[0] = 0 /\ g[Len(ids)] = SizesOf(s.vars, ids)
    /\ \A k \in 1 .. Len(ids) :
          /\ g[k] = g[k - 1] + s.vars[ids[k] + 1].size /\ g[k] <= g[Len(ids)]
          /\ s.vars[ids[k] + 1].size \in Nat

\* The servers f the loop goes through.
GroupLoop(s, ids, bytes, op, g, f) ==
    /\ DOMAIN f = 0 .. Len(ids) /\ f[0] = [srv |-> s, payloadp |-> 0]
    /\ \A k \in 1 .. Len(ids) : f[k] = Turn(s, ids, bytes, op, k, f[k - 1])
    /\ \A k \in 0 .. Len(ids) : Rewritten(s, f[k].srv, ids) /\ f[k].payloadp = g[k]

\* The loop takes its turns, and the last one leaves what ForGroup gives.
LEMMA ForGroupLoop ==
    ASSUME NEW s \in ServerType, Fits(s.vars, s.data), NEW ids \in Seq(Nat),
           \A k \in DOMAIN ids : ids[k] < Len(s.vars),
           NEW bytes \in Seq(Bit), Len(bytes) = SizesOf(s.vars, ids),
           NEW op \in BinOps \cup {Assign}
    PROVE  \E g, f : /\ Places(s, ids, g) /\ GroupLoop(s, ids, bytes, op, g, f)
                    /\ ForGroup(s, ids, bytes, op) = f[Len(ids)].srv
<1> DEFINE n == Len(ids)
           T == {x \in [srv : ServerType, payloadp : Nat] : Rewritten(s, x.srv, ids)}
           first == [srv |-> s, payloadp |-> 0]
           Next1(k, x) == Turn(s, ids, bytes, op, k, x)
           F == [q \in (1 .. n) \X T |-> IF Next1(q[1], q[2]) \in T THEN Next1(q[1], q[2]) ELSE q[2]]
           Is(g) == g = [k \in 0 .. n |-> IF k = 0 THEN first ELSE Next1(k, g[k - 1])]
           size(k) == s.vars[ids[k] + 1].size
<1>1. n \in Nat /\ n \in 0 .. n /\ s.vars \in Seq(VarInfo) /\ DOMAIN ids = 1 .. n
  BY DEF ServerType
<1>0. DOMAIN s.vars = 1 .. Len(s.vars)
  BY <1>1
<1>2. first \in T
  BY DEF Rewritten
<1>3. PICK g \in [0 .. n -> Nat] :
          /\ SizesOf(s.vars, ids) = g[n] /\ g[0] = 0
          /\ \A k \in 1 .. n : g[k] = g[k - 1] + SizeIn(s.vars, ids[k])
  BY <1>1, SizesUnfold
<1>4. \A k \in 1 .. n : /\ ids[k] \in Nat /\ ids[k] + 1 \in 1 .. Len(s.vars)
                        /\ size(k) \in Nat /\ SizeIn(s.vars, ids[k]) = size(k)
  <2> TAKE k \in 1 .. n
  <2>0. k \in DOMAIN ids /\ Len(s.vars) \in Nat
    BY <1>1
  <2>1. ids[k] \in Nat /\ ids[k] < Len(s.vars)
    BY <2>0
  <2>2. ids[k] + 1 \in 1 .. Len(s.vars)
    BY <2>0, <2>1
  <2>3. s.vars[ids[k] + 1] \in VarInfo
    BY <1>1, <2>2
  <2> QED BY <2>1, <2>2, <2>3 DEF SizeIn, Has, VarInfo
<1> HIDE DEF n
<1>5. \A k \in 1 .. n : g[k] = g[k - 1] + size(k) /\ g[k] <= g[n] /\ g[k - 1] \in Nat
  <2>1. \A k \in 1 .. n : k \in 0 .. n /\ k - 1 \in 0 .. n
    BY <1>1
  <2>2. \A k \in 1 .. n : g[k] = g[k - 1] + size(k) /\ g[k - 1] \in Nat
    BY <1>3, <1>4, <2>1
  <2>3. \A k \in 1 .. n : g[k] >= g[k - 1]
    <3> TAKE k \in 1 .. n
    <3>1. size(k) \in Nat
      BY <1>4
    <3> HIDE DEF size
    <3> QED BY <2>2, <3>1
  <2>4. \A k \in 0 .. n : g[k] <= g[n]
    BY <1>1, <1>3, <2>3, PartsInside
  <2> QED BY <2>1, <2>2, <2>4
<1>6. ASSUME NEW k \in 1 .. n, NEW x \in T, x.payloadp = g[k - 1]
      PROVE  Next1(k, x) \in T /\ Next1(k, x).payloadp = g[k]
  <2> DEFINE id == ids[k]
             part == SubSeq(bytes, x.payloadp + 1, x.payloadp + size(k))
             v == NewValue(s, id, part, op)
             t == SetVar(x.srv, id, v)
             at == x.payloadp + size(k)
  <2>1. Next1(k, x) = [srv |-> t, payloadp |-> at]
    BY DEF Turn
  <2>2. x.payloadp \in Nat /\ at = g[k] /\ at <= Len(bytes) /\ at \in Nat /\ size(k) \in Nat
    <3>1. x.payloadp \in Nat
      OBVIOUS
    <3>2. size(k) \in Nat /\ g[k] = g[k - 1] + size(k) /\ g[k] <= g[n] /\ g[n] = Len(bytes)
      BY <1>3, <1>4, <1>5
    <3> HIDE DEF size, T
    <3> QED BY <1>6, <3>1, <3>2
  <2>3. part \in [1 .. size(k) -> Bit]
    BY <2>2, SubSeqBits
  <2>4. v \in [1 .. size(k) -> Bit]
    <3>1. CASE op = Assign
      BY <2>3, <3>1 DEF NewValue
    <3>2. CASE op \in BinOps
      <4>1. op # Assign
        BY <3>2 DEF BinOps, Assign
      <4>2. s.data[id + 1] \in [1 .. size(k) -> Bit]
        <5>1. id + 1 \in DOMAIN s.vars
          BY <1>0, <1>4, Zenon
        <5>2. \A j \in DOMAIN s.vars : s.data[j] \in [1 .. s.vars[j].size -> Bit]
          BY Zenon DEF Fits
        <5> QED BY <5>1, <5>2, Zenon
      <4> HIDE DEF part, size
      <4>3. BinOp(op, s.data[id + 1], part) \in [1 .. size(k) -> Bit]
        BY <2>2, <2>3, <3>2, <4>2, BinOpFacts
      <4> QED BY <4>1, <4>3 DEF NewValue
    <3> QED BY <3>1, <3>2
  <2>5. Rewritten(s, x.srv, ids) /\ k \in DOMAIN ids /\ ids[k] < Len(s.vars)
    BY <1>1
  <2>6. Rewritten(s, t, ids)
    <3> HIDE DEF v
    <3> QED BY <2>4, <2>5, SetVarRewrites
  <2>7. t \in ServerType
    BY <2>6 DEF Rewritten
  <2> HIDE DEF t, at, v
  <2> QED BY <2>1, <2>2, <2>6, <2>7
<1> HIDE DEF T, first, Next1
<1>7. /\ F \in [(1 .. n) \X T -> T]
      /\ \A k \in 1 .. n, x \in T : Next1(k, x) \in T => F[<<k, x>>] = Next1(k, x)
  OBVIOUS
<1> HIDE DEF F
<1>8. PICK f \in [0 .. n -> T] : f[0] = first /\ \A k \in 1 .. n : f[k] = F[<<k, f[k - 1]>>]
  <2>1. Turns(T, first, F, n) # {}
    BY <1>1, <1>2, <1>7, LoopDefined
  <2> QED BY <2>1 DEF Turns
<1>9. ASSUME NEW k \in 1 .. n, f[k - 1].payloadp = g[k - 1]
      PROVE  f[k] = Next1(k, f[k - 1]) /\ f[k].payloadp = g[k]
  <2>1. k - 1 \in 0 .. n
    BY <1>1
  <2>2. f[k - 1] \in T
    BY <1>8, <2>1
  <2>3. Next1(k, f[k - 1]) \in T /\ Next1(k, f[k - 1]).payloadp = g[k]
    BY <1>6, <1>9, <2>2
  <2> QED BY <1>7, <1>8, <2>2, <2>3
<1>10. \A k \in 0 .. n : f[k].payloadp = g[k]
  <2> DEFINE G == {k \in 0 .. n : f[k].payloadp = g[k]}
  <2>1. 0 \in G
    BY <1>1, <1>3, <1>8 DEF first
  <2>2. \A k \in 1 .. n : k - 1 \in G => k \in G
    BY <1>1, <1>9
  <2> HIDE DEF G
  <2>3. 0 .. n \subseteq G
    BY <1>1, <2>1, <2>2, TurnInduction
  <2> QED BY <2>3 DEF G
<1>11. \A k \in 1 .. n : f[k] = Next1(k, f[k - 1])
  <2>1. \A k \in 1 .. n : k - 1 \in 0 .. n
    BY <1>1
  <2> QED BY <1>9, <1>10, <2>1
<1>12. Is(f)
  <2>1. f = [k \in 0 .. n |-> f[k]]
    BY <1>8
  <2>2. \A k \in 0 .. n : f[k] = IF k = 0 THEN first ELSE Next1(k, f[k - 1])
    BY <1>1, <1>8, <1>11
  <2> QED BY <2>1, <2>2
<1> DEFINE loop == CHOOSE h : Is(h)
<1>13. Is(loop)
  <2> HIDE DEF Is
  <2> QED BY <1>12
<1>14. ForGroup(s, ids, bytes, op) = loop[n].srv
  BY DEF ForGroup, Turn, NewValue, n, first, Next1
<1> HIDE DEF loop
<1>15. loop[0] = first /\ \A k \in 1 .. n : loop[k] = Next1(k, loop[k - 1])
  BY <1>1, <1>13
<1>16. loop[n] = f[n]
  <2>1. Parallel(loop, f, n)
    BY <1>8, <1>11, <1>15 DEF Parallel
  <2>2. \A k \in 0 .. n : loop[k] = f[k]
    BY <1>1, <2>1, SameTurns
  <2> QED BY <1>1, <2>2
<1>17. Places(s, ids, g)
  BY <1>1, <1>3, <1>4, <1>5 DEF Places, n
<1>18. GroupLoop(s, ids, bytes, op, g, f)
  <2>1. \A k \in 0 .. n : f[k] \in T
    BY <1>8
  <2>2. \A k \in 0 .. n : Rewritten(s, f[k].srv, ids)
    BY <2>1 DEF T
  <2>3. DOMAIN f = 0 .. n
    BY <1>8
  <2> QED BY <1>8, <1>10, <1>11, <2>2, <2>3 DEF GroupLoop, n, first, Next1
<1> QED BY <1>14, <1>16, <1>17, <1>18 DEF n

\* The loop over a group changes variables of the group only, and keeps their sizes.
LEMMA ForGroupFacts ==
    ASSUME NEW s \in ServerType, Fits(s.vars, s.data), NEW ids \in Seq(Nat),
           \A k \in DOMAIN ids : ids[k] < Len(s.vars),
           NEW bytes \in Seq(Bit), Len(bytes) = SizesOf(s.vars, ids),
           NEW op \in BinOps \cup {Assign}
    PROVE  Rewritten(s, ForGroup(s, ids, bytes, op), ids)
<1>1. PICK g, f : /\ Places(s, ids, g) /\ GroupLoop(s, ids, bytes, op, g, f)
                  /\ ForGroup(s, ids, bytes, op) = f[Len(ids)].srv
  BY ForGroupLoop
<1>2. Len(ids) \in 0 .. Len(ids)
  OBVIOUS
<1> QED BY <1>1, <1>2 DEF GroupLoop

----------------------------------------------------------------------------
(* The commands.                                                           *)

\* The commands that only read leave the world as it is.
LEMMA ReadersLeave ==
    ASSUME NEW w, WorldInv(w), NEW p, NEW r
    PROVE  /\ query_version(w, p).world = w /\ var_query_list(w, p).world = w
           /\ var_read(w, p).world = w /\ group_query_list(w, p).world = w
           /\ group_query(w, p).world = w /\ group_read(w, p).world = w
           /\ curve_query_list(w, p).world = w /\ curve_query_csum(w, p).world = w
           /\ curve_block_request(w, p).world = w /\ func_query_list(w, p).world = w
           /\ func_execute(w, p, r).world = w
<1>1. query_version(w, p).world = w
  BY NothingServed, Zenon DEF query_version
<1>2. var_query_list(w, p).world = w
  BY NothingServed, Zenon DEF var_query_list
<1>3. var_read(w, p).world = w
  BY NothingServed, Zenon DEF var_read
<1>4. group_query_list(w, p).world = w
  BY NothingServed, Zenon DEF group_query_list
<1>5. group_query(w, p).world = w
  BY NothingServed, Zenon DEF group_query
<1>6. group_read(w, p).world = w
  BY NothingServed, Zenon DEF group_read
<1>7. curve_query_list(w, p).world = w
  BY NothingServed, Zenon DEF curve_query_list
<1>8. curve_query_csum(w, p).world = w
  BY NothingServed, Zenon DEF curve_query_csum
<1>9. curve_block_request(w, p).world = w
  BY NothingServed, ZenonT(60) DEF curve_block_request
<1>10. func_query_list(w, p).world = w
  BY NothingServed, Zenon DEF func_query_list
<1>11. func_execute(w, p, r).world = w
  BY NothingServed, Zenon DEF func_execute
<1> QED BY <1>1, <1>2, <1>3, <1>4, <1>5, <1>6, <1>7, <1>8, <1>9, <1>10, <1>11

\* The content of a curve depends on its place and on the memory.
LEMMA ContentSame ==
    ASSUME NEW w, NEW v, NEW id, w.mem = v.mem,
           w.srv.curves[id + 1].start = v.srv.curves[id + 1].start
    PROVE  Content(w, id) = Content(v, id)
BY DEF Content

LEMMA RewritesServed ==
    ASSUME NEW w, WorldInv(w), NEW ids \in Seq(Nat), NEW t, Rewritten(w.srv, t, ids),
           \A j \in DOMAIN ids : w.srv.vars[ids[j] + 1].writable,
           NEW code, NEW payload
    PROVE  LET after == Send(w, t, code, payload).world
           IN  Served(w, after) /\ SameGroups(w, after)
<1> DEFINE after == Send(w, t, code, payload).world
<1>1. w \in WorldType /\ ServerInv(w.srv) /\ t \in ServerType
  BY DEF WorldInv, Rewritten
<1>2. after \in WorldType /\ after.srv = t /\ after.mem = w.mem /\ after.c28 = w.c28
  <2>1. after = WithServer(w, t)
    BY DEF Send, WithServer
  <2> QED BY <1>1, <2>1, WithServerFacts
<1> HIDE DEF after
<1>3. ServerInv(t)
  BY <1>1 DEF ServerInv, Rewritten
<1>4. t.curves = w.srv.curves
  BY DEF Rewritten
<1>5. \A id \in 0 .. 1 : Content(after, id) = Content(w, id)
  BY <1>2, <1>4, ContentSame
<1>6. \A id \in 0 .. 1 : t.curves[id + 1].checksum \in {Cleared, Content(after, id)}
  BY <1>4, <1>5 DEF WorldInv
<1>7. ASSUME NEW k \in DOMAIN w.srv.vars, ~w.srv.vars[k].writable
      PROVE  t.data[k] = w.srv.data[k]
  <2>1. \A j \in DOMAIN ids : k # ids[j] + 1
    BY <1>7
  <2>2. k \in DOMAIN w.srv.data
    BY <1>1 DEF ServerInv, Fits, ServerType
  <2> QED BY <2>1, <2>2 DEF Rewritten
<1>8. SameGroups(w, after)
  BY <1>2 DEF SameGroups, Rewritten
<1> QED BY <1>2, <1>3, <1>6, <1>7, <1>8 DEF Served, WorldInv, after

LEMMA OneRewritten ==
    ASSUME NEW s \in ServerType, Fits(s.vars, s.data), NEW id \in Nat, id < Len(s.vars),
           NEW v \in [1 .. s.vars[id + 1].size -> Bit]
    PROVE  Rewritten(s, SetVar(s, id, v), <<id>>)
<1> DEFINE ids == <<id>>
<1>1. ids \in Seq(Nat) /\ 1 \in DOMAIN ids /\ ids[1] = id
  OBVIOUS
<1>2. Rewritten(s, s, ids)
  BY DEF Rewritten
<1> HIDE DEF ids
<1>3. Rewritten(s, SetVar(s, ids[1], v), ids)
  BY <1>1, <1>2, SetVarRewrites
<1> QED BY <1>1, <1>3 DEF ids

\* What a request to write one variable finds.
LEMMA WriteOne ==
    ASSUME NEW w, WorldInv(w), NEW id \in Nat, id < Len(w.srv.vars),
           NEW v \in [1 .. w.srv.vars[id + 1].size -> Bit], w.srv.vars[id + 1].writable,
           NEW code, NEW payload
    PROVE  LET after == Send(w, SetVar(w.srv, id, v), code, payload).world
           IN  Served(w, after) /\ SameGroups(w, after)
<1> DEFINE ids == <<id>>
<1>1. ids \in Seq(Nat) /\ \A j \in DOMAIN ids : ids[j] = id
  OBVIOUS
<1>2. w.srv \in ServerType /\ Fits(w.srv.vars, w.srv.data)
  BY DEF WorldInv, ServerInv
<1>3. Rewritten(w.srv, SetVar(w.srv, id, v), ids)
  BY <1>2, OneRewritten
<1>4. \A j \in DOMAIN ids : w.srv.vars[ids[j] + 1].writable
  BY <1>1
<1> HIDE DEF ids
<1> QED BY <1>1, <1>3, <1>4, RewritesServed

LEMMA var_write_served ==
    ASSUME NEW w, WorldInv(w), NEW p, Clean("VAR_WRITE", p)
    PROVE  LET after == var_write(w, p).world IN Served(w, after) /\ SameGroups(w, after)
<1> DEFINE var == w.srv.vars[p[1] + 1]
           new == SetVar(w.srv, p[1], Rest(p, 1))
           goes == /\ ~(Len(p) < 2) /\ ~(p[1] >= Len(w.srv.vars))
                   /\ Len(p) = 1 + var.size /\ var.writable
<1>1. CASE ~goes
  <2>1. var_write(w, p).world = w
    BY <1>1, NothingServed, Zenon DEF var_write
  <2> QED BY <2>1, NothingServed
<1>2. CASE goes
  <2>1. var_write(w, p) = Send(w, new, "OK", <<>>)
    BY <1>2, Zenon DEF var_write
  <2>2. /\ p \in Seq(Nat) /\ \A k \in DOMAIN p : k > 1 => p[k] \in Bit
    BY DEF Clean, Header
  <2>3. Len(p) \in Nat /\ Len(p) >= 2 /\ p[1] \in Nat
    BY <1>2, <2>2
  <2>4. w.srv.vars \in Seq(VarInfo)
    BY DEF WorldInv, ServerInv, ServerType
  <2>5. p[1] < Len(w.srv.vars) /\ p[1] + 1 \in 1 .. Len(w.srv.vars)
    BY <1>2, <2>3, <2>4
  <2>6. var \in VarInfo
    BY <2>4, <2>5
  <2>7. Len(p) - 1 = var.size
    BY <1>2, <2>3, <2>6 DEF VarInfo
  <2>8. Rest(p, 1) \in [1 .. Len(p) - 1 -> Bit]
    BY <2>2, <2>3, RestFacts
  <2>9. Rest(p, 1) \in [1 .. var.size -> Bit] /\ var.writable
    BY <1>2, <2>7, <2>8
  <2> QED BY <2>1, <2>3, <2>5, <2>9, WriteOne
<1> QED BY <1>1, <1>2

LEMMA var_write_read_served ==
    ASSUME NEW w, WorldInv(w), NEW p, Clean("VAR_WRITE_READ", p)
    PROVE  LET after == var_write_read(w, p).world IN Served(w, after) /\ SameGroups(w, after)
<1> DEFINE var == w.srv.vars[p[1] + 1]
           new == SetVar(w.srv, p[1], Rest(p, 2))
           goes == /\ ~(Len(p) < 3) /\ ~(p[1] >= Len(w.srv.vars) \/ p[2] >= Len(w.srv.vars))
                   /\ Len(p) = 2 + var.size /\ var.writable
<1>1. CASE ~goes
  <2>1. var_write_read(w, p).world = w
    BY <1>1, NothingServed, Zenon DEF var_write_read
  <2> QED BY <2>1, NothingServed
<1>2. CASE goes
  <2>1. var_write_read(w, p) = Send(w, new, "VAR_VALUE", new.data[p[2] + 1])
    BY <1>2, Zenon DEF var_write_read
  <2>2. /\ p \in Seq(Nat) /\ \A k \in DOMAIN p : k > 2 => p[k] \in Bit
    BY DEF Clean, Header
  <2>3. Len(p) \in Nat /\ Len(p) >= 3 /\ p[1] \in Nat
    BY <1>2, <2>2
  <2>4. w.srv.vars \in Seq(VarInfo)
    BY DEF WorldInv, ServerInv, ServerType
  <2>5. p[1] < Len(w.srv.vars) /\ p[1] + 1 \in 1 .. Len(w.srv.vars)
    BY <1>2, <2>3, <2>4
  <2>6. var \in VarInfo
    BY <2>4, <2>5
  <2>7. Len(p) - 2 = var.size
    BY <1>2, <2>3, <2>6 DEF VarInfo
  <2>8. Rest(p, 2) \in [1 .. Len(p) - 2 -> Bit]
    BY <2>2, <2>3, RestFacts, SMTT(60)
  <2>9. Rest(p, 2) \in [1 .. var.size -> Bit] /\ var.writable
    BY <1>2, <2>7, <2>8
  <2> QED BY <2>1, <2>3, <2>5, <2>9, WriteOne
<1> QED BY <1>1, <1>2

LEMMA var_bin_op_served ==
    ASSUME NEW w, WorldInv(w), NEW p, Clean("VAR_BIN_OP", p)
    PROVE  LET after == var_bin_op(w, p).world IN Served(w, after) /\ SameGroups(w, after)
<1> DEFINE var == w.srv.vars[p[1] + 1]
           v == BinOp(p[2], w.srv.data[p[1] + 1], Rest(p, 2))
           goes == /\ ~(Len(p) < 3) /\ ~(p[1] >= Len(w.srv.vars)) /\ p[2] \in BinOps
                   /\ Len(p) = 2 + var.size /\ var.writable
<1>1. CASE ~goes
  <2>1. var_bin_op(w, p).world = w
    BY <1>1, NothingServed, Zenon DEF var_bin_op
  <2> QED BY <2>1, NothingServed
<1>2. CASE goes
  <2>1. var_bin_op(w, p) = Send(w, SetVar(w.srv, p[1], v), "OK", <<>>)
    BY <1>2, Zenon DEF var_bin_op
  <2>2. /\ p \in Seq(Nat) /\ \A k \in DOMAIN p : k > 2 => p[k] \in Bit
    BY DEF Clean, Header
  <2>3. Len(p) \in Nat /\ Len(p) >= 3 /\ p[1] \in Nat
    BY <1>2, <2>2
  <2>4. w.srv.vars \in Seq(VarInfo) /\ Fits(w.srv.vars, w.srv.data)
    BY DEF WorldInv, ServerInv, ServerType
  <2>5. p[1] < Len(w.srv.vars) /\ p[1] + 1 \in DOMAIN w.srv.vars
    BY <1>2, <2>3, <2>4
  <2>6. var \in VarInfo
    BY <2>4, <2>5
  <2>7. Len(p) - 2 = var.size /\ var.size \in Nat
    BY <1>2, <2>3, <2>6 DEF VarInfo
  <2>8. Rest(p, 2) \in [1 .. Len(p) - 2 -> Bit]
    BY <2>2, <2>3, RestFacts
  <2>9. w.srv.data[p[1] + 1] \in [1 .. var.size -> Bit]
    BY <2>4, <2>5 DEF Fits
  <2>10. v \in [1 .. var.size -> Bit] /\ var.writable
    BY <1>2, <2>7, <2>8, <2>9, BinOpFacts
  <2> HIDE DEF v
  <2> QED BY <2>1, <2>3, <2>5, <2>10, WriteOne
<1> QED BY <1>1, <1>2

\* A write to a visible writable group.
LEMMA WriteGroup ==
    ASSUME NEW w, WorldInv(w), NEW g \in Nat, g < w.srv.count, w.srv.groups[g].writable,
           NEW bytes \in Seq(Bit), Len(bytes) = w.srv.groups[g].size,
           NEW op \in BinOps \cup {Assign}
    PROVE  LET after == Send(w, ForGroup(w.srv, w.srv.groups[g].vars, bytes, op), "OK", <<>>).world
           IN  Served(w, after) /\ SameGroups(w, after)
<1> DEFINE grp == w.srv.groups[g]
           t == ForGroup(w.srv, grp.vars, bytes, op)
<1>1. w.srv \in ServerType /\ Fits(w.srv.vars, w.srv.data)
  BY DEF WorldInv, ServerInv
<1>2. g \in 0 .. w.srv.count - 1 /\ g \in Slots
  BY ServerConstants DEF WorldInv, ServerInv, Slots
<1>3. Sound(w.srv.vars, grp, g) /\ grp \in GroupInfo
  BY <1>1, <1>2 DEF WorldInv, ServerInv, ServerType
<1>4. /\ grp.vars \in Seq(Nat) /\ grp.size = SizesOf(w.srv.vars, grp.vars)
      /\ \A k \in DOMAIN grp.vars : grp.vars[k] < Len(w.srv.vars)
      /\ \A k \in DOMAIN grp.vars : w.srv.vars[grp.vars[k] + 1].writable
  BY <1>3 DEF GroupInfo, Sound
<1>5. Len(bytes) = grp.size
  OBVIOUS
<1> HIDE DEF grp
<1>6. Rewritten(w.srv, t, grp.vars)
  BY <1>1, <1>4, <1>5, ForGroupFacts
<1> HIDE DEF t
<1>7. LET after == Send(w, t, "OK", <<>>).world IN Served(w, after) /\ SameGroups(w, after)
  BY <1>4, <1>6, RewritesServed
<1> QED BY <1>7 DEF t, grp

LEMMA group_write_served ==
    ASSUME NEW w, WorldInv(w), NEW p, Clean("GROUP_WRITE", p)
    PROVE  LET after == group_write(w, p).world IN Served(w, after) /\ SameGroups(w, after)
<1> DEFINE grp == w.srv.groups[p[1]]
           goes == /\ ~(Len(p) < 2) /\ ~(p[1] >= w.srv.count)
                   /\ Len(p) = 1 + grp.size /\ grp.writable
<1>1. CASE ~goes
  <2>1. group_write(w, p).world = w
    BY <1>1, NothingServed, Zenon DEF group_write
  <2> QED BY <2>1, NothingServed
<1>2. CASE goes
  <2>1. group_write(w, p) = Send(w, ForGroup(w.srv, grp.vars, Rest(p, 1), Assign), "OK", <<>>)
    BY <1>2, Zenon DEF group_write
  <2>2. /\ p \in Seq(Nat) /\ \A k \in DOMAIN p : k > 1 => p[k] \in Bit
    BY DEF Clean, Header
  <2>3. Len(p) \in Nat /\ Len(p) >= 2 /\ p[1] \in Nat
    BY <1>2, <2>2
  <2>4. p[1] < w.srv.count /\ p[1] \in Slots /\ w.srv.groups \in [Slots -> GroupInfo]
    BY <1>2, <2>3, ServerConstants, SMTT(60) DEF WorldInv, ServerInv, ServerType, Slots
  <2>5. grp.size \in Nat
    BY <2>4 DEF GroupInfo
  <2>6. Rest(p, 1) \in Seq(Bit) /\ Len(Rest(p, 1)) = Len(p) - 1
    BY <2>2, <2>3, RestFacts
  <2>7. Len(Rest(p, 1)) = grp.size /\ grp.writable
    BY <1>2, <2>3, <2>5, <2>6, SMTT(60)
  <2> QED BY <2>1, <2>3, <2>4, <2>6, <2>7, WriteGroup
<1> QED BY <1>1, <1>2

LEMMA group_bin_op_served ==
    ASSUME NEW w, WorldInv(w), NEW p, Clean("GROUP_BIN_OP", p)
    PROVE  LET after == group_bin_op(w, p).world IN Served(w, after) /\ SameGroups(w, after)
<1> DEFINE grp == w.srv.groups[p[1]]
           goes == /\ ~(Len(p) < 2) /\ ~(p[1] >= w.srv.count) /\ p[2] \in BinOps
                   /\ Len(p) = 2 + grp.size /\ grp.writable
<1>1. CASE ~goes
  <2>1. group_bin_op(w, p).world = w
    BY <1>1, NothingServed, Zenon DEF group_bin_op
  <2> QED BY <2>1, NothingServed
<1>2. CASE goes
  <2>1. group_bin_op(w, p) = Send(w, ForGroup(w.srv, grp.vars, Rest(p, 2), p[2]), "OK", <<>>)
    BY <1>2, Zenon DEF group_bin_op
  <2>2. /\ p \in Seq(Nat) /\ \A k \in DOMAIN p : k > 2 => p[k] \in Bit
    BY DEF Clean, Header
  <2>3. Len(p) \in Nat /\ Len(p) >= 2 /\ p[1] \in Nat
    BY <1>2, <2>2
  <2>4. p[1] < w.srv.count /\ p[1] \in Slots /\ w.srv.groups \in [Slots -> GroupInfo]
    BY <1>2, <2>3, ServerConstants, SMTT(60) DEF WorldInv, ServerInv, ServerType, Slots
  <2>5. grp.size \in Nat
    BY <2>4 DEF GroupInfo
  <2>6. Rest(p, 2) \in Seq(Bit) /\ Len(Rest(p, 2)) = Len(p) - 2
    BY <2>2, <2>3, RestFacts
  <2>7. Len(Rest(p, 2)) = grp.size /\ grp.writable /\ p[2] \in BinOps \cup {Assign}
    BY <1>2, <2>3, <2>5, <2>6, SMTT(60)
  <2> QED BY <2>1, <2>3, <2>4, <2>6, <2>7, WriteGroup
<1> QED BY <1>1, <1>2

\* A server with other groups, the rest being the same.
LEMMA GroupsServed ==
    ASSUME NEW w, WorldInv(w), NEW t \in ServerType, t.vars = w.srv.vars, t.data = w.srv.data,
           t.curves = w.srv.curves, t.count \in 3 .. BSMP_MAX_GROUPS,
           \A g \in 0 .. t.count - 1 : Sound(t.vars, t.groups[g], g)
    PROVE  Served(w, WithServer(w, t))
<1> DEFINE after == WithServer(w, t)
<1>1. w \in WorldType /\ ServerInv(w.srv)
  BY DEF WorldInv
<1>2. after \in WorldType /\ after.srv = t /\ after.mem = w.mem /\ after.c28 = w.c28
  BY <1>1, WithServerFacts
<1> HIDE DEF after
<1>3. ServerInv(t)
  BY <1>1 DEF ServerInv
<1>4. \A id \in 0 .. 1 : Content(after, id) = Content(w, id)
  BY <1>2, ContentSame
<1>5. \A id \in 0 .. 1 : t.curves[id + 1].checksum \in {Cleared, Content(after, id)}
  BY <1>4 DEF WorldInv
<1> QED BY <1>2, <1>3, <1>5 DEF Served, WorldInv, after

\* A new group is sound and fits, whatever the slot held; a refused one stays out of sight.
LEMMA group_create_served ==
    ASSUME NEW w, WorldInv(w), NEW p \in Seq(Nat)
    PROVE  Served(w, group_create(w, p).world)
<1> DEFINE s == w.srv
           c == s.count
           made == Populate(s, group_init(c), p)
           filled == [s EXCEPT !.groups[c] = made.grp]
           more == [filled EXCEPT !.count = @ + 1]
           stops == (Len(p) < 1 \/ Len(p) > Len(s.vars)) \/ c = BSMP_MAX_GROUPS
<1>1. CASE stops
  <2>1. group_create(w, p).world = w
    BY <1>1, NothingServed, Zenon DEF group_create
  <2> QED BY <2>1, NothingServed
<1>2. CASE ~stops
  <2>1. group_create(w, p) = IF ~made.ok THEN Send(w, filled, "INVALID_ID", <<>>)
                             ELSE Send(w, more, "OK", <<>>)
    BY <1>2, Zenon DEF group_create
  <2>2. s \in ServerType /\ c \in 3 .. BSMP_MAX_GROUPS /\ c # BSMP_MAX_GROUPS
    BY <1>2 DEF WorldInv, ServerInv
  <2>3. c \in Nat /\ c \in Slots /\ c + 1 \in 3 .. BSMP_MAX_GROUPS
    BY <2>2, ServerConstants DEF Slots
  <2>4. made \in Partial /\ Sound(s.vars, made.grp, c)
    BY <2>2, <2>3, PopulateFacts
  <2>5. made.grp \in GroupInfo
    BY <2>4 DEF Partial
  <2> DEFINE groups == [s.groups EXCEPT ![c] = made.grp]
  <2>6. /\ groups \in [Slots -> GroupInfo] /\ groups[c] = made.grp
        /\ \A g \in Slots : g # c => groups[g] = s.groups[g]
    <3>1. s.groups \in [Slots -> GroupInfo]
      BY <2>2 DEF ServerType
    <3> HIDE DEF made, c, s
    <3> QED BY <2>3, <2>5, <3>1
  <2>7. filled = [s EXCEPT !.groups = groups]
    BY <2>2 DEF ServerType
  <2> HIDE DEF groups, made
  <2>8. /\ filled \in ServerType /\ filled.vars = s.vars /\ filled.data = s.data
        /\ filled.curves = s.curves /\ filled.count = c /\ filled.groups = groups
    BY <2>2, <2>6, <2>7 DEF ServerType
  <2> HIDE DEF filled
  <2>9. /\ more \in ServerType /\ more.vars = s.vars /\ more.data = s.data
        /\ more.curves = s.curves /\ more.count = c + 1 /\ more.groups = groups
    <3> DEFINE d == c + 1
    <3>1. more = [filled EXCEPT !.count = d]
      BY <2>8
    <3>2. d \in Nat
      BY <2>3
    <3> HIDE DEF d, more
    <3>3. more \in ServerType
      BY <2>8, <3>1, <3>2 DEF ServerType
    <3>4. /\ more.vars = filled.vars /\ more.data = filled.data /\ more.curves = filled.curves
          /\ more.count = d /\ more.groups = filled.groups
      BY <2>8, <3>1 DEF ServerType
    <3> QED BY <2>8, <3>3, <3>4 DEF d
  <2> HIDE DEF more
  <2>10. ASSUME NEW g \in 0 .. c - 1 PROVE Sound(s.vars, groups[g], g)
    <3>1. g \in Slots /\ g # c
      BY <2>3, ServerConstants DEF Slots
    <3>2. Sound(s.vars, s.groups[g], g)
      BY DEF WorldInv, ServerInv
    <3> QED BY <2>6, <3>1, <3>2
  <2>11. \A g \in 0 .. (c + 1) - 1 : Sound(s.vars, groups[g], g)
    <3>1. \A g \in 0 .. (c + 1) - 1 : g = c \/ g \in 0 .. c - 1
      BY <2>3
    <3> QED BY <2>4, <2>6, <2>10, <3>1
  <2>12. Served(w, WithServer(w, filled))
    BY <2>2, <2>8, <2>10, GroupsServed
  <2>13. Served(w, WithServer(w, more))
    BY <2>3, <2>9, <2>11, GroupsServed
  <2>14. group_create(w, p).world \in {WithServer(w, filled), WithServer(w, more)}
    BY <2>1 DEF Send, WithServer
  <2> QED BY <2>12, <2>13, <2>14
<1> QED BY <1>1, <1>2

\* Removing all groups leaves the standard ones.
LEMMA group_remove_all_served ==
    ASSUME NEW w, WorldInv(w), NEW p
    PROVE  Served(w, group_remove_all(w, p).world)
<1> DEFINE s == w.srv
           t == [s EXCEPT !.count = GROUP_STANDARD_COUNT]
<1>1. CASE p # <<>>
  <2>1. group_remove_all(w, p).world = w
    BY <1>1, NothingServed, Zenon DEF group_remove_all
  <2> QED BY <2>1, NothingServed
<1>2. CASE p = <<>>
  <2>1. group_remove_all(w, p).world = WithServer(w, t)
    BY <1>2 DEF group_remove_all, Send, WithServer
  <2>2. s \in ServerType /\ s.count \in 3 .. BSMP_MAX_GROUPS
    BY DEF WorldInv, ServerInv
  <2>3. /\ t \in ServerType /\ t.vars = s.vars /\ t.data = s.data
        /\ t.curves = s.curves /\ t.count = 3 /\ t.groups = s.groups
    BY <2>2 DEF ServerType, GROUP_STANDARD_COUNT
  <2> HIDE DEF t
  <2>4. t.count \in 3 .. BSMP_MAX_GROUPS /\ t.count - 1 = 2
    BY <2>3, ServerConstants
  <2>5. \A g \in 0 .. 2 : Sound(s.vars, s.groups[g], g)
    <3>1. \A g \in 0 .. 2 : g \in 0 .. s.count - 1
      BY <2>2
    <3> QED BY <3>1 DEF WorldInv, ServerInv
  <2>6. Served(w, WithServer(w, t))
    <3>1. \A g \in 0 .. t.count - 1 : Sound(t.vars, t.groups[g], g)
      BY <2>3, <2>4, <2>5
    <3> QED BY <2>3, <2>4, <3>1, GroupsServed
  <2> QED BY <2>1, <2>6
<1> QED BY <1>1, <1>2

----------------------------------------------------------------------------
(* The commands on curves.                                                 *)

\* A sequence is a function on its indices.
LEMMA SeqOfLength ==
    ASSUME NEW T, NEW n \in Nat, NEW q
    PROVE  /\ q \in Seq(T) /\ Len(q) = n => q \in [1 .. n -> T]
           /\ q \in [1 .. n -> T] => q \in Seq(T) /\ Len(q) = n
OBVIOUS

SetChecksum(s, id, sum) == [s EXCEPT !.curves[id + 1].checksum = sum]

LEMMA SetChecksumFacts ==
    ASSUME NEW s \in ServerType, CurvesPlaced(s.curves), NEW id \in 0 .. 2,
           NEW sum \in {Cleared} \cup [1 .. NBlocks -> Block]
    PROVE  /\ SetChecksum(s, id, sum) \in ServerType
           /\ SetChecksum(s, id, sum).vars = s.vars /\ SetChecksum(s, id, sum).data = s.data
           /\ SetChecksum(s, id, sum).count = s.count /\ SetChecksum(s, id, sum).groups = s.groups
           /\ SetChecksum(s, id, sum).funcs = s.funcs
           /\ CurvesPlaced(SetChecksum(s, id, sum).curves)
           /\ SetChecksum(s, id, sum).curves[id + 1].checksum = sum
           /\ \A k \in 1 .. 3 : k # id + 1 => SetChecksum(s, id, sum).curves[k] = s.curves[k]
<1> DEFINE old == s.curves[id + 1]
           new == [old EXCEPT !.checksum = sum]
           curves == [s.curves EXCEPT ![id + 1] = new]
           k0 == id + 1
<1>1. s.curves \in Seq(CurveInfo) /\ Len(s.curves) = 3 /\ k0 \in 1 .. 3
  BY DEF ServerType, CurvesPlaced
<1>2. old \in CurveInfo
  BY <1>1
<1> HIDE DEF old
<1>3. new \in CurveInfo /\ new.checksum = sum /\ new.start = old.start
  BY <1>2 DEF CurveInfo
<1>4. new.writable = old.writable
  BY <1>2 DEF CurveInfo
<1> HIDE DEF new
<1>5. /\ curves \in [1 .. 3 -> CurveInfo] /\ curves[k0] = new
      /\ \A k \in 1 .. 3 : k # k0 => curves[k] = s.curves[k]
  <2>1. s.curves \in [1 .. 3 -> CurveInfo]
    BY <1>1, SeqOfLength
  <2>2. curves = [s.curves EXCEPT ![k0] = new]
    OBVIOUS
  <2> HIDE DEF curves, k0
  <2> QED BY <1>1, <1>3, <2>1, <2>2
<1>6. curves \in Seq(CurveInfo) /\ Len(curves) = 3
  <2>1. 3 \in Nat /\ curves \in [1 .. 3 -> CurveInfo]
    BY <1>5
  <2> HIDE DEF curves, k0
  <2> QED BY <2>1, SeqOfLength, Zenon
<1>7. SetChecksum(s, id, sum) = [s EXCEPT !.curves = curves]
  BY <1>1 DEF SetChecksum, ServerType, new, old
<1> HIDE DEF curves
<1>8. [s EXCEPT !.curves = curves] \in ServerType
  BY <1>6 DEF ServerType
<1>9. LET t == [s EXCEPT !.curves = curves]
      IN  /\ t.vars = s.vars /\ t.data = s.data /\ t.count = s.count /\ t.groups = s.groups
          /\ t.funcs = s.funcs /\ t.curves = curves
  BY DEF ServerType
<1>10. CurvesPlaced(curves)
  <2>1. ASSUME NEW k \in 1 .. 3
        PROVE  curves[k].start = s.curves[k].start /\ curves[k].writable = s.curves[k].writable
    <3>1. CASE k = k0
      <4>1. curves[k] = new /\ s.curves[k] = old
        BY <1>5, <3>1 DEF old
      <4> QED BY <1>3, <1>4, <4>1
    <3>2. CASE k # k0
      BY <1>5, <3>2
    <3> QED BY <3>1, <3>2
  <2> QED BY <1>6, <2>1 DEF CurvesPlaced
<1> QED BY <1>3, <1>5, <1>7, <1>8, <1>9, <1>10

\* The blocks of a curve, and those of another one.
LEMMA BlockPlaces ==
    ASSUME NEW i \in 0 .. 2, NEW b \in 0 .. NBlocks - 1
    PROVE  /\ i * NBlocks + b \in 0 .. 3 * NBlocks - 1
           /\ \A j \in 0 .. 2, c \in 0 .. NBlocks - 1 :
                 j # i => j * NBlocks + c # i * NBlocks + b
<1>1. NBlocks \in Nat /\ NBlocks >= 1
  BY ServerConstants
<1>2. 0 * NBlocks = 0 /\ 1 * NBlocks = NBlocks /\ 2 * NBlocks = NBlocks + NBlocks
      /\ 3 * NBlocks = NBlocks + NBlocks + NBlocks
  BY <1>1
<1>3. \A j \in 0 .. 2 : j = 0 \/ j = 1 \/ j = 2
  OBVIOUS
<1>4. i * NBlocks + b \in 0 .. 3 * NBlocks - 1
  <2>1. CASE i = 0
    BY <1>1, <1>2, <2>1
  <2>2. CASE i = 1
    BY <1>1, <1>2, <2>2
  <2>3. CASE i = 2
    BY <1>1, <1>2, <2>3
  <2> QED BY <1>3, <2>1, <2>2, <2>3
<1>5. ASSUME NEW j \in 0 .. 2, NEW c \in 0 .. NBlocks - 1, j # i
      PROVE  j * NBlocks + c # i * NBlocks + b
  <2>1. CASE i = 0
    BY <1>1, <1>2, <1>3, <1>5, <2>1
  <2>2. CASE i = 1
    BY <1>1, <1>2, <1>3, <1>5, <2>2
  <2>3. CASE i = 2
    BY <1>1, <1>2, <1>3, <1>5, <2>3
  <2> QED BY <1>3, <2>1, <2>2, <2>3
<1> QED BY <1>4, <1>5

LEMMA EndInside ==
    ASSUME NEW b \in 0 .. NBlocks - 1, NEW n \in 0 .. BlockSize
    PROVE  b * BlockSize + n \in 0 .. NBlocks * BlockSize
<1>1. NBlocks \in Nat /\ BlockSize \in Nat /\ b \in Nat /\ n \in Nat /\ n <= BlockSize /\ b + 1 <= NBlocks
  BY ServerConstants
<1>2. \A m \in Nat : m * BlockSize \in Nat
  BY <1>1
<1>3. PICK d \in Nat : NBlocks = b + 1 + d
  <2>1. NBlocks - (b + 1) \in Nat /\ NBlocks = b + 1 + (NBlocks - (b + 1))
    BY <1>1
  <2> QED BY <2>1
<1>4. (b + 1 + d) * BlockSize = b * BlockSize + BlockSize + d * BlockSize
  BY <1>1
<1>5. b * BlockSize \in Nat /\ d * BlockSize \in Nat
  BY <1>1, <1>2
<1> QED BY <1>1, <1>3, <1>4, <1>5

\* What a curve holds: its blocks in the memory.
LEMMA ContentFacts ==
    ASSUME NEW w, WorldInv(w), NEW id \in 0 .. 2
    PROVE  /\ Content(w, id) = [b \in 1 .. NBlocks |-> w.mem[id * NBlocks + (b - 1)]]
           /\ Content(w, id) \in [1 .. NBlocks -> Block]
<1>1. w.srv.curves[id + 1].start = id * NBlocks
  <2>1. id + 1 \in 1 .. 3 /\ (id + 1) - 1 = id
    OBVIOUS
  <2> QED BY <2>1 DEF WorldInv, ServerInv, CurvesPlaced
<1>2. NBlocks \in Nat /\ id * NBlocks \in Nat
  BY ServerConstants
<1>3. Content(w, id) = [b \in 1 .. NBlocks |-> w.mem[id * NBlocks + (b - 1)]]
  <2>1. \A b \in 1 .. NBlocks : id * NBlocks + b - 1 = id * NBlocks + (b - 1)
    BY <1>2
  <2> QED BY <1>1, <2>1 DEF Content
<1>4. \A b \in 1 .. NBlocks : w.mem[id * NBlocks + (b - 1)] \in Block
  <2> TAKE b \in 1 .. NBlocks
  <2>1. b - 1 \in 0 .. NBlocks - 1
    BY <1>2
  <2>2. id * NBlocks + (b - 1) \in 0 .. 3 * NBlocks - 1
    BY <2>1, BlockPlaces
  <2>3. w.mem \in [0 .. 3 * NBlocks - 1 -> Block]
    BY DEF WorldInv, WorldType
  <2> QED BY <2>2, <2>3
<1> QED BY <1>3, <1>4

\* The checksum is computed from what the curve holds.
LEMMA curve_recalc_csum_served ==
    ASSUME NEW w, WorldInv(w), NEW p \in Seq(Nat)
    PROVE  LET after == curve_recalc_csum(w, p).world IN Served(w, after) /\ SameGroups(w, after)
<1> DEFINE id == p[1]
           sum == Content(w, id)
           t == SetChecksum(w.srv, id, sum)
           goes == Len(p) = 1 /\ ~(p[1] >= Len(w.srv.curves)) /\ CanRead(w, p[1])
<1>1. CASE ~goes
  <2>1. curve_recalc_csum(w, p).world = w
    BY <1>1, NothingServed, Zenon DEF curve_recalc_csum
  <2> QED BY <2>1, NothingServed
<1>2. CASE goes
  <2> DEFINE after == WithServer(w, t)
  <2>1. curve_recalc_csum(w, p).world = after
    BY <1>2 DEF curve_recalc_csum, Send, WithServer, SetChecksum
  <2>2. w \in WorldType /\ ServerInv(w.srv) /\ w.srv \in ServerType /\ CurvesPlaced(w.srv.curves)
    BY DEF WorldInv, ServerInv
  <2>3. id \in 0 .. 2
    <3>1. Len(w.srv.curves) = 3
      BY <2>2 DEF CurvesPlaced
    <3>2. Len(p) = 1 /\ ~(id >= 3)
      BY <1>2, <3>1
    <3>3. id \in Nat
      BY <3>2
    <3> QED BY <3>2, <3>3
  <2>4. sum \in [1 .. NBlocks -> Block]
    BY <2>3, ContentFacts
  <2> HIDE DEF sum
  <2>5. /\ t \in ServerType /\ t.vars = w.srv.vars /\ t.data = w.srv.data
        /\ t.count = w.srv.count /\ t.groups = w.srv.groups /\ CurvesPlaced(t.curves)
        /\ t.curves[id + 1].checksum = sum
        /\ \A k \in 1 .. 3 : k # id + 1 => t.curves[k] = w.srv.curves[k]
    <3>1. sum \in {Cleared} \cup [1 .. NBlocks -> Block]
      BY <2>4
    <3> HIDE DEF id
    <3> QED BY <2>2, <2>3, <3>1, SetChecksumFacts, ZenonT(60)
  <2> HIDE DEF t
  <2>6. after \in WorldType /\ after.srv = t /\ after.mem = w.mem /\ after.c28 = w.c28
    BY <2>2, <2>5, WithServerFacts
  <2> HIDE DEF after
  <2>7. ServerInv(t)
    BY <2>2, <2>5 DEF ServerInv
  <2>8. \A k \in 0 .. 1 : Content(after, k) = Content(w, k)
    <3> TAKE k \in 0 .. 1
    <3>1. k + 1 \in 1 .. 3
      OBVIOUS
    <3>2. t.curves[k + 1].start = w.srv.curves[k + 1].start
      BY <2>2, <2>5, <3>1 DEF CurvesPlaced
    <3> QED BY <2>6, <3>2, ContentSame
  <2>9. ASSUME NEW k \in 0 .. 1 PROVE t.curves[k + 1].checksum \in {Cleared, Content(after, k)}
    <3>1. CASE k = id
      BY <2>5, <2>8, <3>1 DEF sum
    <3>2. CASE k # id
      <4>1. k + 1 \in 1 .. 3 /\ k + 1 # id + 1
        BY <2>3, <3>2
      <4>2. t.curves[k + 1] = w.srv.curves[k + 1]
        BY <2>5, <4>1
      <4> QED BY <2>8, <4>2 DEF WorldInv
    <3> QED BY <3>1, <3>2
  <2>10. Served(w, after) /\ SameGroups(w, after)
    BY <2>5, <2>6, <2>7, <2>9 DEF Served, WorldInv, SameGroups
  <2> QED BY <2>1, <2>10
<1> QED BY <1>1, <1>2

\* A world with one block and one end of a waveform changed, and no checksum.
Blocked(w, id, at, block, end) ==
    [w EXCEPT !.mem[at] = block, !.ends[id] = end, !.srv = SetChecksum(@, id, Cleared)]

LEMMA BlockedServed ==
    ASSUME NEW w, WorldInv(w), NEW id \in 0 .. 1, NEW b \in 0 .. NBlocks - 1,
           NEW block \in Block, NEW end \in 0 .. NBlocks * BlockSize
    PROVE  LET after == Blocked(w, id, id * NBlocks + b, block, end)
           IN  Served(w, after) /\ SameGroups(w, after)
<1> DEFINE at == id * NBlocks + b
           mem == [w.mem EXCEPT ![at] = block]
           ends == [w.ends EXCEPT ![id] = end]
           t == SetChecksum(w.srv, id, Cleared)
           after == Blocked(w, id, at, block, end)
<1>1. /\ w \in WorldType /\ ServerInv(w.srv) /\ w.srv \in ServerType /\ CurvesPlaced(w.srv.curves)
      /\ w.mem \in [0 .. 3 * NBlocks - 1 -> Block] /\ w.ends \in [0 .. 1 -> 0 .. NBlocks * BlockSize]
  BY DEF WorldInv, ServerInv, WorldType
<1>2. id \in 0 .. 2 /\ at \in 0 .. 3 * NBlocks - 1
  <2>1. id \in 0 .. 2
    OBVIOUS
  <2> QED BY <2>1, BlockPlaces
<1>3. /\ t \in ServerType /\ t.vars = w.srv.vars /\ t.data = w.srv.data
      /\ t.count = w.srv.count /\ t.groups = w.srv.groups /\ CurvesPlaced(t.curves)
      /\ t.curves[id + 1].checksum = Cleared
      /\ \A k \in 1 .. 3 : k # id + 1 => t.curves[k] = w.srv.curves[k]
  BY <1>1, <1>2, SetChecksumFacts
<1> HIDE DEF t
<1>4. ends \in [0 .. 1 -> 0 .. NBlocks * BlockSize]
  <2> DEFINE top == NBlocks * BlockSize
  <2>1. w.ends \in [0 .. 1 -> 0 .. top] /\ end \in 0 .. top
    BY <1>1
  <2> HIDE DEF top
  <2>2. [w.ends EXCEPT ![id] = end] \in [0 .. 1 -> 0 .. top]
    BY <2>1
  <2> QED BY <2>2 DEF top
<1> HIDE DEF at
<1>5. /\ mem \in [0 .. 3 * NBlocks - 1 -> Block]
      /\ \A m \in 0 .. 3 * NBlocks - 1 : m # at => mem[m] = w.mem[m]
  <2> DEFINE top == 3 * NBlocks - 1
  <2>1. w.mem \in [0 .. top -> Block] /\ at \in 0 .. top
    BY <1>1, <1>2
  <2> HIDE DEF top
  <2>2. /\ [w.mem EXCEPT ![at] = block] \in [0 .. top -> Block]
        /\ \A m \in 0 .. top : m # at => [w.mem EXCEPT ![at] = block][m] = w.mem[m]
    BY <2>1
  <2> QED BY <2>2 DEF top
<1>6. after = [w EXCEPT !.mem = mem, !.ends = ends, !.srv = t]
  BY <1>1 DEF Blocked, WorldType, t
<1> HIDE DEF mem, ends, after
<1>7. after \in WorldType
  BY <1>1, <1>3, <1>4, <1>5, <1>6 DEF WorldType
<1>8. after.srv = t /\ after.mem = mem /\ after.c28 = w.c28
  BY <1>1, <1>6 DEF WorldType
<1>9. ServerInv(t)
  BY <1>1, <1>3 DEF ServerInv
<1>10. ASSUME NEW k \in 0 .. 1 PROVE t.curves[k + 1].checksum \in {Cleared, Content(after, k)}
  <2>1. CASE k = id
    BY <1>3, <2>1
  <2>2. CASE k # id
    <3>1. k + 1 \in 1 .. 3 /\ k + 1 # id + 1 /\ k \in 0 .. 2 /\ (k + 1) - 1 = k
      BY <2>2
    <3>2. t.curves[k + 1] = w.srv.curves[k + 1]
      BY <1>3, <3>1
    <3>3. w.srv.curves[k + 1].start = k * NBlocks
      BY <1>1, <3>1 DEF CurvesPlaced
    <3>4. NBlocks \in Nat /\ k * NBlocks \in Nat
      BY ServerConstants
    <3>5. \A c \in 1 .. NBlocks : mem[k * NBlocks + c - 1] = w.mem[k * NBlocks + c - 1]
      <4> TAKE c \in 1 .. NBlocks
      <4>1. c - 1 \in 0 .. NBlocks - 1 /\ k * NBlocks + c - 1 = k * NBlocks + (c - 1)
        BY <3>4
      <4>2. k * NBlocks + (c - 1) \in 0 .. 3 * NBlocks - 1
        BY <3>1, <4>1, BlockPlaces
      <4>3. k * NBlocks + (c - 1) # id * NBlocks + b
        BY <1>2, <2>2, <3>1, <4>1, BlockPlaces
      <4> QED BY <1>5, <4>1, <4>2, <4>3 DEF at
    <3>6. Content(after, k) = Content(w, k)
      BY <1>8, <3>2, <3>3, <3>5 DEF Content
    <3> QED BY <3>2, <3>6 DEF WorldInv
  <2> QED BY <2>1, <2>2
<1>11. Served(w, after) /\ SameGroups(w, after)
  BY <1>3, <1>7, <1>8, <1>9, <1>10 DEF Served, WorldInv, SameGroups
<1> QED BY <1>11 DEF after, at

\* A block that is written clears the checksum of its curve, and of no other.
LEMMA curve_block_served ==
    ASSUME NEW w, WorldInv(w), NEW p, Clean("CURVE_BLOCK", p)
    PROVE  LET after == curve_block(w, p).world IN Served(w, after) /\ SameGroups(w, after)
<1> DEFINE id == p[1]
           b == 256 * p[2] + p[3]
           bytes == Rest(p, 3)
           at == id * NBlocks + b
           block == [i \in DOMAIN w.mem[at] |-> IF i <= Len(bytes) THEN bytes[i] ELSE w.mem[at][i]]
           end == b * BlockSize + Len(bytes)
           goes == /\ ~(Len(p) < 4) /\ ~(p[1] >= Len(w.srv.curves)) /\ ~(Len(p) > BlockSize + 3)
                   /\ ~(b >= NBlocks) /\ w.srv.curves[p[1] + 1].writable /\ CanWrite(w, p[1])
<1>0. BSMP_CURVE_BLOCK_INFO = 3 /\ 3 + 1 = 4
  BY DEF BSMP_CURVE_BLOCK_INFO
<1>1. CASE ~goes
  <2>1. curve_block(w, p).world = w
    BY <1>0, <1>1, NothingServed, ZenonT(60) DEF curve_block
  <2> QED BY <2>1, NothingServed
<1>2. CASE goes
  <2> DEFINE written == write_block_wfmref(w, id, b, bytes)
             t == SetChecksum(w.srv, id, Cleared)
  <2>1. curve_block(w, p).world = [written EXCEPT !.srv = t]
    <3>1. curve_block(w, p) = Send(written, t, "OK", <<>>)
      BY <1>0, <1>2, Zenon DEF curve_block, SetChecksum
    <3> HIDE DEF written, t
    <3> QED BY <3>1 DEF Send
  <2>2. /\ p \in Seq(Nat) /\ \A k \in DOMAIN p : k > 3 => p[k] \in Bit
    BY DEF Clean, Header
  <2>3. Len(p) \in Nat /\ Len(p) >= 4 /\ p[1] \in Nat /\ p[2] \in Nat /\ p[3] \in Nat
    BY <1>2, <2>2, SMTT(60)
  <2>4. w \in WorldType /\ CurvesPlaced(w.srv.curves)
    BY DEF WorldInv, ServerInv
  <2>5. id \in 0 .. 1 /\ id \in 0 .. 2
    <3>0. Len(w.srv.curves) = 3
      BY <2>4 DEF CurvesPlaced
    <3>1. id + 1 \in 1 .. 3
      BY <1>2, <2>3, <3>0
    <3>2. id + 1 < 3
      BY <1>2, <2>4, <3>1 DEF CurvesPlaced
    <3> QED BY <2>3, <3>1, <3>2
  <2>6. w.srv.curves[id + 1].start = id * NBlocks
    <3>1. id + 1 \in 1 .. 3 /\ (id + 1) - 1 = id
      BY <2>5
    <3> QED BY <2>4, <3>1 DEF CurvesPlaced
  <2>7. b \in 0 .. NBlocks - 1
    BY <1>2, <2>3, ServerConstants, SMTT(60)
  <2>8. /\ bytes \in Seq(Bit) /\ Len(bytes) = Len(p) - 3 /\ Len(bytes) \in 0 .. BlockSize
        /\ bytes \in [1 .. Len(bytes) -> Bit]
    <3>1. bytes \in Seq(Bit) /\ Len(bytes) = Len(p) - 3 /\ bytes \in [1 .. Len(p) - 3 -> Bit]
      BY <2>2, <2>3, RestFacts, SMTT(60)
    <3>2. Len(p) - 3 \in 0 .. BlockSize
      BY <1>2, <2>3, ServerConstants
    <3> QED BY <3>1, <3>2
  <2> HIDE DEF b, bytes, id
  <2>9. at \in 0 .. 3 * NBlocks - 1
    BY <2>5, <2>7, BlockPlaces
  <2>10. w.mem[at] \in Block
    BY <2>4, <2>9 DEF WorldType
  <2>11. block \in Block
    <3>1. \A i \in 1 .. BlockSize : i <= Len(bytes) => bytes[i] \in Bit
      BY <2>8
    <3> QED BY <2>10, <3>1 DEF Block
  <2>12. end \in 0 .. NBlocks * BlockSize
    BY <2>7, <2>8, EndInside
  <2>13. curve_block(w, p).world = Blocked(w, id, at, block, end)
    <3>1. written = [w EXCEPT !.mem[at] = block, !.ends[id] = end]
      BY <2>6 DEF write_block_wfmref
    <3> HIDE DEF block, end, at
    <3>2. [written EXCEPT !.srv = t] = Blocked(w, id, at, block, end)
      BY <2>4, <3>1 DEF Blocked, WorldType
    <3> QED BY <2>1, <3>2
  <2> HIDE DEF block, end
  <2> QED BY <2>5, <2>7, <2>11, <2>12, <2>13, BlockedServed
<1> QED BY <1>1, <1>2

----------------------------------------------------------------------------
(* Any request.                                                            *)

\* The requests that change the groups.
GroupCodes == {"GROUP_CREATE", "GROUP_REMOVE_ALL"}

\* Every command keeps the invariant of the server.
LEMMA CommandServed ==
    ASSUME NEW w, WorldInv(w), NEW code \in Commands, NEW p, Clean(code, p), NEW r
    PROVE  LET after == command(w, code, p, r).world
           IN  Served(w, after) /\ (code \notin GroupCodes => SameGroups(w, after))
<1>0. p \in Seq(Nat) /\ Served(w, w) /\ SameGroups(w, w)
  BY NothingServed DEF Clean
<1>1. CASE code = "QUERY_VERSION"
  <2>1. command(w, code, p, r) = query_version(w, p)
    BY <1>1 DEF command
  <2>2. query_version(w, p).world = w
    BY ReadersLeave
  <2> QED BY <1>0, <2>1, <2>2
<1>2. CASE code = "VAR_QUERY_LIST"
  <2>1. command(w, code, p, r) = var_query_list(w, p)
    BY <1>2 DEF command
  <2>2. var_query_list(w, p).world = w
    BY ReadersLeave
  <2> QED BY <1>0, <2>1, <2>2
<1>3. CASE code = "VAR_READ"
  <2>1. command(w, code, p, r) = var_read(w, p)
    BY <1>3 DEF command
  <2>2. var_read(w, p).world = w
    BY ReadersLeave
  <2> QED BY <1>0, <2>1, <2>2
<1>4. CASE code = "VAR_WRITE"
  <2>1. command(w, code, p, r) = var_write(w, p)
    BY <1>4 DEF command
  <2> QED BY <1>0, <1>4, <2>1, var_write_served, Zenon
<1>5. CASE code = "VAR_BIN_OP"
  <2>1. command(w, code, p, r) = var_bin_op(w, p)
    BY <1>5 DEF command
  <2> QED BY <1>0, <1>5, <2>1, var_bin_op_served, Zenon
<1>6. CASE code = "VAR_WRITE_READ"
  <2>1. command(w, code, p, r) = var_write_read(w, p)
    BY <1>6 DEF command
  <2> QED BY <1>0, <1>6, <2>1, var_write_read_served, Zenon
<1>7. CASE code = "GROUP_QUERY_LIST"
  <2>1. command(w, code, p, r) = group_query_list(w, p)
    BY <1>7 DEF command
  <2>2. group_query_list(w, p).world = w
    BY ReadersLeave
  <2> QED BY <1>0, <2>1, <2>2
<1>8. CASE code = "GROUP_QUERY"
  <2>1. command(w, code, p, r) = group_query(w, p)
    BY <1>8 DEF command
  <2>2. group_query(w, p).world = w
    BY ReadersLeave
  <2> QED BY <1>0, <2>1, <2>2
<1>9. CASE code = "GROUP_READ"
  <2>1. command(w, code, p, r) = group_read(w, p)
    BY <1>9 DEF command
  <2>2. group_read(w, p).world = w
    BY ReadersLeave
  <2> QED BY <1>0, <2>1, <2>2
<1>10. CASE code = "GROUP_WRITE"
  <2>1. command(w, code, p, r) = group_write(w, p)
    BY <1>10 DEF command
  <2> QED BY <1>0, <1>10, <2>1, group_write_served, Zenon
<1>11. CASE code = "GROUP_BIN_OP"
  <2>1. command(w, code, p, r) = group_bin_op(w, p)
    BY <1>11 DEF command
  <2> QED BY <1>0, <1>11, <2>1, group_bin_op_served, Zenon
<1>12. CASE code = "GROUP_CREATE"
  <2>1. command(w, code, p, r) = group_create(w, p)
    BY <1>12 DEF command
  <2> QED BY <1>0, <1>12, <2>1, group_create_served, Zenon DEF GroupCodes
<1>13. CASE code = "GROUP_REMOVE_ALL"
  <2>1. command(w, code, p, r) = group_remove_all(w, p)
    BY <1>13 DEF command
  <2> QED BY <1>0, <1>13, <2>1, group_remove_all_served, Zenon DEF GroupCodes
<1>14. CASE code = "CURVE_QUERY_LIST"
  <2>1. command(w, code, p, r) = curve_query_list(w, p)
    BY <1>14 DEF command
  <2>2. curve_query_list(w, p).world = w
    BY ReadersLeave
  <2> QED BY <1>0, <2>1, <2>2
<1>15. CASE code = "CURVE_QUERY_CSUM"
  <2>1. command(w, code, p, r) = curve_query_csum(w, p)
    BY <1>15 DEF command
  <2>2. curve_query_csum(w, p).world = w
    BY ReadersLeave
  <2> QED BY <1>0, <2>1, <2>2
<1>16. CASE code = "CURVE_BLOCK_REQUEST"
  <2>1. command(w, code, p, r) = curve_block_request(w, p)
    BY <1>16 DEF command
  <2>2. curve_block_request(w, p).world = w
    BY ReadersLeave
  <2> QED BY <1>0, <2>1, <2>2
<1>17. CASE code = "CURVE_BLOCK"
  <2>1. command(w, code, p, r) = curve_block(w, p)
    BY <1>17 DEF command
  <2> QED BY <1>0, <1>17, <2>1, curve_block_served, Zenon
<1>18. CASE code = "CURVE_RECALC_CSUM"
  <2>1. command(w, code, p, r) = curve_recalc_csum(w, p)
    BY <1>18 DEF command
  <2> QED BY <1>0, <1>18, <2>1, curve_recalc_csum_served, Zenon
<1>19. CASE code = "FUNC_QUERY_LIST"
  <2>1. command(w, code, p, r) = func_query_list(w, p)
    BY <1>19 DEF command
  <2>2. func_query_list(w, p).world = w
    BY ReadersLeave
  <2> QED BY <1>0, <2>1, <2>2
<1>20. CASE code = "FUNC_EXECUTE"
  <2>1. command(w, code, p, r) = func_execute(w, p, r)
    BY <1>20 DEF command
  <2>2. func_execute(w, p, r).world = w
    BY ReadersLeave
  <2> QED BY <1>0, <2>1, <2>2
<1> QED BY <1>1, <1>2, <1>3, <1>4, <1>5, <1>6, <1>7, <1>8, <1>9, <1>10, <1>11, <1>12, <1>13, <1>14, <1>15, <1>16, <1>17, <1>18, <1>19, <1>20 DEF Commands

\* So does every packet, the malformed ones included.
LEMMA PacketServed ==
    ASSUME NEW w, WorldInv(w), NEW request, Clean(request.code, request.payload), NEW r
    PROVE  LET after == bsmp_process_packet(w, request, r).world
           IN  Served(w, after) /\ (request.code \notin GroupCodes => SameGroups(w, after))
<1>1. CASE Len(request.payload) # request.size \/ request.code \notin Commands
  <2>1. bsmp_process_packet(w, request, r).world = w
    BY <1>1, NothingServed, Zenon DEF bsmp_process_packet
  <2> QED BY <2>1, NothingServed
<1>2. CASE ~(Len(request.payload) # request.size \/ request.code \notin Commands)
  <2>1. bsmp_process_packet(w, request, r) = command(w, request.code, request.payload, r)
    BY <1>2, Zenon DEF bsmp_process_packet
  <2> QED BY <1>2, <2>1, CommandServed, Zenon
<1> QED BY <1>1, <1>2

----------------------------------------------------------------------------
(* The inductive invariant.  The lists of the client and the answers have  *)
(* their types; a call in a loop over groups or curves is inside the list; *)
(* and requests carry bits as data.                                        *)

Sums == {Cleared} \cup [1 .. NBlocks -> Block]
GroupSeen == [writable : BOOLEAN, count : Nat, size : Nat, vars : Seq(Nat)]
CurveSeen == [writable : BOOLEAN, block_size : Nat, nblocks : Nat, checksum : Sums]

CliType ==
    [vars : Seq(VarInfo), groups : Seq(GroupSeen), curves : Seq(CurveSeen), funcs : Seq(FuncInfo)]

OpNames ==
    {"read_var", "write_var", "write_read_vars", "bin_op_var", "read_group", "write_group",
     "bin_op_group", "create_group", "remove_all_groups", "request_curve_block", "read_curve",
     "send_curve_block", "write_curve", "recalc_checksum", "func_execute"}

Stages == {"version", "vars", "groups", "group", "curves", "csum", "funcs", "op"}

CallType ==
    [op : OpNames \cup {"client_init"}, id : Nat, arg : Nat, bytes : Seq(Nat),
     stage : Stages, i : Nat]

CallInv ==
    call # NoCall =>
        /\ call \in CallType /\ (call.stage = "op" => call.op \in OpNames)
        /\ call.op \notin {"create_group", "read_curve"} => call.bytes \in Seq(Bit)
        /\ call.stage = "group" => call.i < Len(cli.groups)
        /\ call.stage = "csum" => call.i < Len(cli.curves)

\* The lists the server gives.
VarBytes == [k \in DOMAIN bsmp_init.vars |->
    SIZE_MASK(bsmp_init.vars[k].size) + WRITABLE(bsmp_init.vars[k].writable)]

GroupBytes(s) == [k \in 1 .. s.count |->
    (WRITABLE(s.groups[k - 1].writable) + Len(s.groups[k - 1].vars)) % 256]

AnswerOK(m) ==
    /\ m.code = "VAR_LIST" => m.payload = VarBytes
    /\ m.code = "GROUP_LIST" => m.payload \in Seq(Nat) /\ Len(m.payload) <= BSMP_MAX_GROUPS
    /\ m.code = "GROUP" => m.payload \in Seq(Nat)
    /\ m.code = "CURVE_LIST" => m.payload \in Seq(Nat) /\ m.size = Len(m.payload)
    /\ m.code = "CURVE_CSUM" => m.payload[1] \in Sums
    /\ m.code = "CURVE_BLOCK" => m.payload \in Seq(Nat) /\ Len(m.payload) >= 3
    /\ m.code = "FUNC_LIST" => m.payload \in Seq(Nat)

ClientInv ==
    /\ WorldInv(world) /\ cli \in CliType /\ CallInv /\ AnswerOK(wire)
    /\ Len(cli.vars) <= BSMP_MAX_VARIABLES /\ Len(cli.groups) <= BSMP_MAX_GROUPS
    /\ ret.result \in Results
    /\ stale \in BOOLEAN /\ calls \in 0 .. MaxCalls /\ faults \in 0 .. MaxFaults

(* What the client knows of the groups while it has not been cut off.      *)
Seen(grp) == [writable |-> grp.writable, count |-> Len(grp.vars), size |-> grp.size, vars |-> grp.vars]

Agreed(c, s) ==
    c.vars # <<>> =>
        /\ Len(c.groups) = s.count
        /\ \A g \in 0 .. s.count - 1 : c.groups[g + 1] = Seen(s.groups[g])

\* The loop over the groups has come to group i.
AgreedUpTo(c, s, i) ==
    c.vars # <<>> =>
        /\ Len(c.groups) = s.count
        /\ \A g \in 0 .. s.count - 1 :
              /\ c.groups[g + 1].writable = s.groups[g].writable
              /\ c.groups[g + 1].count = Len(s.groups[g].vars)
              /\ g < i => c.groups[g + 1] = Seen(s.groups[g])

\* The operations after which the list of groups is read again.
ChangesGroups(c) == c.op \in {"create_group", "remove_all_groups"}

AgreeInv ==
    /\ cli.vars \in {<<>>, bsmp_init.vars}
    /\ call = NoCall => wire = Nothing
    /\ call # NoCall /\ call.stage \in {"version", "vars"} => stale
    /\ ~stale =>
          /\ call = NoCall => Agreed(cli, world.srv)
          /\ call # NoCall /\ call.stage = "groups" =>
                (wire.code = "GROUP_LIST" => wire.payload = GroupBytes(world.srv))
          /\ call # NoCall /\ call.stage = "group" =>
                /\ AgreedUpTo(cli, world.srv, call.i)
                /\ wire.code = "GROUP" => wire.payload = world.srv.groups[call.i].vars
          /\ call # NoCall /\ call.stage = "op" =>
                Agreed(cli, world.srv) \/ (wire.code = "OK" /\ ChangesGroups(call))
          /\ call # NoCall /\ call.stage \in {"curves", "csum", "funcs"} => Agreed(cli, world.srv)

----------------------------------------------------------------------------
(* The answers.                                                            *)

\* The answers the client takes data from.
DataCodes == {"VAR_LIST", "GROUP_LIST", "GROUP", "CURVE_LIST", "CURVE_CSUM", "CURVE_BLOCK",
              "FUNC_LIST"}

LEMMA PlainAnswer ==
    ASSUME NEW m, m.code \notin DataCodes
    PROVE  AnswerOK(m)
BY DEF AnswerOK, DataCodes

LEMMA DataAnswer ==
    ASSUME NEW m
    PROVE  /\ m.code = "VAR_LIST" /\ m.payload = VarBytes => AnswerOK(m)
           /\ m.code = "GROUP_LIST" /\ m.payload \in Seq(Nat) /\ Len(m.payload) <= BSMP_MAX_GROUPS
                 => AnswerOK(m)
           /\ m.code = "GROUP" /\ m.payload \in Seq(Nat) => AnswerOK(m)
           /\ m.code = "CURVE_LIST" /\ m.payload \in Seq(Nat) /\ m.size = Len(m.payload) => AnswerOK(m)
           /\ m.code = "CURVE_CSUM" /\ m.payload[1] \in Sums => AnswerOK(m)
           /\ m.code = "CURVE_BLOCK" /\ m.payload \in Seq(Nat) /\ Len(m.payload) >= 3 => AnswerOK(m)
           /\ m.code = "FUNC_LIST" /\ m.payload \in Seq(Nat) => AnswerOK(m)
BY DEF AnswerOK

\* A list is given to a request without payload.
ListOrNot(p, code, list) ==
    IF p # <<>> THEN Message("INVALID_PAYLOAD_SIZE", <<>>) ELSE Message(code, list)

LEMMA ListAnswer ==
    ASSUME NEW p, NEW code, NEW list, NEW m, m = ListOrNot(p, code, list)
    PROVE  m.code \notin DataCodes \/ (m.code = code /\ m.payload = list /\ m.size = Len(list))
<1>1. CASE p # <<>>
  <2>1. m = Message("INVALID_PAYLOAD_SIZE", <<>>)
    BY <1>1 DEF ListOrNot
  <2>2. m.code = "INVALID_PAYLOAD_SIZE"
    BY <2>1 DEF Message
  <2> QED BY <2>2 DEF DataCodes
<1>2. CASE p = <<>>
  <2>1. m = Message(code, list)
    BY <1>2 DEF ListOrNot
  <2> QED BY <2>1 DEF Message
<1> QED BY <1>1, <1>2

\* The other commands answer with none of them.
LEMMA OtherAnswers ==
    ASSUME NEW w, NEW p, NEW r
    PROVE  /\ query_version(w, p).answer.code \notin DataCodes
           /\ var_read(w, p).answer.code \notin DataCodes
           /\ var_write(w, p).answer.code \notin DataCodes
           /\ var_write_read(w, p).answer.code \notin DataCodes
           /\ var_bin_op(w, p).answer.code \notin DataCodes
           /\ group_read(w, p).answer.code \notin DataCodes
           /\ group_write(w, p).answer.code \notin DataCodes
           /\ group_bin_op(w, p).answer.code \notin DataCodes
           /\ group_create(w, p).answer.code \notin DataCodes
           /\ group_remove_all(w, p).answer.code \notin DataCodes
           /\ func_execute(w, p, r).answer.code \notin DataCodes
<1>1. query_version(w, p).answer.code \notin DataCodes
  BY DEF query_version, Refuse, Send, Message, DataCodes
<1>2. var_read(w, p).answer.code \notin DataCodes
  BY DEF var_read, Refuse, Send, Message, DataCodes
<1>3. var_write(w, p).answer.code \notin DataCodes
  BY DEF var_write, Refuse, Send, Message, DataCodes
<1>4. var_write_read(w, p).answer.code \notin DataCodes
  BY DEF var_write_read, Refuse, Send, Message, DataCodes
<1>5. var_bin_op(w, p).answer.code \notin DataCodes
  BY DEF var_bin_op, Refuse, Send, Message, DataCodes
<1>6. group_read(w, p).answer.code \notin DataCodes
  BY DEF group_read, Refuse, Send, Message, DataCodes
<1>7. group_write(w, p).answer.code \notin DataCodes
  BY DEF group_write, Refuse, Send, Message, DataCodes
<1>8. group_bin_op(w, p).answer.code \notin DataCodes
  BY DEF group_bin_op, Refuse, Send, Message, DataCodes
<1>9. group_create(w, p).answer.code \notin DataCodes
  BY DEF group_create, Refuse, Send, Message, DataCodes
<1>10. group_remove_all(w, p).answer.code \notin DataCodes
  BY DEF group_remove_all, Refuse, Send, Message, DataCodes
<1>11. func_execute(w, p, r).answer.code \notin DataCodes
  BY DEF func_execute, Refuse, Send, Message, DataCodes
<1> QED BY <1>1, <1>2, <1>3, <1>4, <1>5, <1>6, <1>7, <1>8, <1>9, <1>10, <1>11

LEMMA VarListAnswer ==
    ASSUME NEW w, WorldInv(w), NEW p
    PROVE  AnswerOK(var_query_list(w, p).answer)
<1> DEFINE m == var_query_list(w, p).answer
<1>1. w.srv.vars = bsmp_init.vars
  BY DEF WorldInv, ServerInv
<1>2. m = ListOrNot(p, "VAR_LIST", VarBytes)
  BY <1>1 DEF ListOrNot, var_query_list, VarBytes, Refuse, Send
<1> HIDE DEF m
<1>3. m.code \notin DataCodes \/ (m.code = "VAR_LIST" /\ m.payload = VarBytes)
  BY <1>2, ListAnswer
<1>4. AnswerOK(m)
  BY <1>3, DataAnswer, PlainAnswer
<1> QED BY <1>4 DEF m

LEMMA GroupBytesTyped ==
    ASSUME NEW s, ServerInv(s)
    PROVE  GroupBytes(s) \in Seq(Nat) /\ Len(GroupBytes(s)) = s.count
<1>1. s.count \in Nat /\ s.count \in 3 .. BSMP_MAX_GROUPS /\ s.groups \in [Slots -> GroupInfo]
  BY ServerConstants DEF ServerInv, ServerType
<1>2. ASSUME NEW k \in 1 .. s.count
      PROVE  (WRITABLE(s.groups[k - 1].writable) + Len(s.groups[k - 1].vars)) % 256 \in Nat
  <2>1. k - 1 \in Slots
    BY <1>1, ServerConstants DEF Slots
  <2>2. s.groups[k - 1] \in GroupInfo
    BY <1>1, <2>1
  <2>3. Len(s.groups[k - 1].vars) \in Nat
    BY <2>2 DEF GroupInfo
  <2>4. WRITABLE(s.groups[k - 1].writable) \in {0, 128}
    BY DEF WRITABLE
  <2> QED BY <2>3, <2>4
<1>3. GroupBytes(s) \in [1 .. s.count -> Nat]
  BY <1>2 DEF GroupBytes
<1> QED BY <1>1, <1>3, SeqOfLength

LEMMA GroupListAnswer ==
    ASSUME NEW w, WorldInv(w), NEW p
    PROVE  /\ AnswerOK(group_query_list(w, p).answer)
           /\ p = <<>> => group_query_list(w, p).answer = Message("GROUP_LIST", GroupBytes(w.srv))
<1> DEFINE m == group_query_list(w, p).answer
<1>1. m = ListOrNot(p, "GROUP_LIST", GroupBytes(w.srv))
  BY DEF ListOrNot, group_query_list, GroupBytes, Refuse, Send
<1> HIDE DEF m
<1>2. /\ GroupBytes(w.srv) \in Seq(Nat) /\ Len(GroupBytes(w.srv)) <= BSMP_MAX_GROUPS
  BY GroupBytesTyped DEF WorldInv, ServerInv
<1>3. m.code \notin DataCodes \/ (m.code = "GROUP_LIST" /\ m.payload = GroupBytes(w.srv))
  BY <1>1, ListAnswer
<1>5. AnswerOK(m)
  BY <1>2, <1>3, DataAnswer, PlainAnswer
<1> QED BY <1>1, <1>5 DEF m, ListOrNot

LEMMA GroupAnswer ==
    ASSUME NEW w, WorldInv(w), NEW p \in Seq(Nat)
    PROVE  /\ AnswerOK(group_query(w, p).answer)
           /\ group_query(w, p).answer.code = "GROUP" =>
                 Len(p) = 1 /\ group_query(w, p).answer.payload = w.srv.groups[p[1]].vars
<1> DEFINE m == group_query(w, p).answer
           v == w.srv.groups[p[1]].vars
           goes == Len(p) = 1 /\ ~(p[1] >= w.srv.count)
<1>1. CASE ~goes
  <2>1. m.code \notin DataCodes
    BY <1>1 DEF group_query, Refuse, Send, Message, DataCodes
  <2> QED BY <2>1, PlainAnswer DEF DataCodes
<1>2. CASE goes
  <2>1. m = Message("GROUP", v)
    BY <1>2 DEF group_query, Send
  <2>2. p[1] \in Nat /\ p[1] \in Slots /\ w.srv.groups \in [Slots -> GroupInfo]
    <3>1. w.srv.count \in 3 .. BSMP_MAX_GROUPS /\ w.srv.groups \in [Slots -> GroupInfo]
      BY DEF WorldInv, ServerInv, ServerType
    <3>2. p[1] \in Nat
      <4>1. 1 \in 1 .. Len(p)
        BY <1>2
      <4> QED BY <4>1
    <3> QED BY <1>2, <3>1, <3>2, ServerConstants DEF Slots
  <2>3. w.srv.groups[p[1]] \in GroupInfo
    BY <2>2
  <2>4. v \in Seq(Nat)
    BY <2>3 DEF GroupInfo
  <2> HIDE DEF m, v
  <2>5. m.code = "GROUP" /\ m.payload = v
    BY <2>1 DEF Message
  <2>6. AnswerOK(m)
    BY <2>4, <2>5 DEF AnswerOK
  <2> QED BY <1>2, <2>5, <2>6 DEF m, v
<1> QED BY <1>1, <1>2

LEMMA CurveListAnswer ==
    ASSUME NEW w, WorldInv(w), NEW p
    PROVE  AnswerOK(curve_query_list(w, p).answer)
<1> DEFINE m == curve_query_list(w, p).answer
           lines == [k \in DOMAIN w.srv.curves |->
                <<IF w.srv.curves[k].writable THEN 1 ELSE 0,
                  BlockSize \div 256, BlockSize % 256, NBlocks \div 256, NBlocks % 256>>]
<1>1. m = ListOrNot(p, "CURVE_LIST", FlattenSeq(lines))
  BY DEF ListOrNot, curve_query_list, Refuse, Send
<1>2. FlattenSeq(lines) \in Seq(Nat)
  <2>1. w.srv.curves \in Seq(CurveInfo) /\ Len(w.srv.curves) \in Nat
    BY DEF WorldInv, ServerInv, ServerType
  <2> DEFINE n == Len(w.srv.curves)
             b1 == BlockSize \div 256
             b2 == BlockSize % 256
             n1 == NBlocks \div 256
             n2 == NBlocks % 256
             Wr(k) == IF w.srv.curves[k].writable THEN 1 ELSE 0
  <2>2. b1 \in Nat /\ b2 \in Nat /\ n1 \in Nat /\ n2 \in Nat
    BY ServerConstants
  <2>3. \A k \in 1 .. n : Wr(k) \in Nat
    OBVIOUS
  <2>4. lines = [k \in 1 .. n |-> <<Wr(k), b1, b2, n1, n2>>]
    BY <2>1
  <2> HIDE DEF lines, b1, b2, n1, n2, Wr, n
  <2>5. \A k \in 1 .. n : <<Wr(k), b1, b2, n1, n2>> \in Seq(Nat)
    BY <2>2, <2>3
  <2>6. lines \in [1 .. n -> Seq(Nat)] /\ n \in Nat
    BY <2>1, <2>4, <2>5 DEF n
  <2>7. lines \in Seq(Seq(Nat))
    BY <2>6, SeqOfLength
  <2> QED BY <2>7, FlattenTyped
<1> HIDE DEF m, lines
<1>3. \/ m.code \notin DataCodes
      \/ /\ m.code = "CURVE_LIST" /\ m.payload = FlattenSeq(lines)
         /\ m.size = Len(FlattenSeq(lines))
  BY <1>1, ListAnswer
<1>4. AnswerOK(m)
  BY <1>2, <1>3, DataAnswer, PlainAnswer
<1> QED BY <1>4 DEF m

LEMMA ChecksumAnswers ==
    ASSUME NEW w, WorldInv(w), NEW p \in Seq(Nat)
    PROVE  /\ AnswerOK(curve_query_csum(w, p).answer)
           /\ AnswerOK(curve_recalc_csum(w, p).answer)
<1> DEFINE a == curve_query_csum(w, p).answer
           b == curve_recalc_csum(w, p).answer
           x == w.srv.curves[p[1] + 1].checksum
           y == Content(w, p[1])
           here == Len(p) = 1 /\ ~(p[1] >= Len(w.srv.curves))
<1>1. CASE ~here
  <2>1. a.code \notin DataCodes /\ b.code \notin DataCodes
    BY <1>1 DEF curve_query_csum, curve_recalc_csum, Refuse, Send, Message, DataCodes
  <2> QED BY <2>1, PlainAnswer
<1>2. CASE here
  <2>1. a = Message("CURVE_CSUM", <<x>>)
    BY <1>2 DEF curve_query_csum, Send
  <2>2. b = Message("RESOURCE_BUSY", <<>>) \/ b = Message("CURVE_CSUM", <<y>>)
    BY <1>2 DEF curve_recalc_csum, Send, Refuse
  <2>3. p[1] \in 0 .. 2 /\ w.srv.curves \in Seq(CurveInfo) /\ Len(w.srv.curves) = 3
    <3>1. w.srv.curves \in Seq(CurveInfo) /\ Len(w.srv.curves) = 3
      BY DEF WorldInv, ServerInv, ServerType, CurvesPlaced
    <3>2. p[1] \in Nat
      BY <1>2
    <3> QED BY <1>2, <3>1, <3>2
  <2>4. w.srv.curves[p[1] + 1] \in CurveInfo
    BY <2>3
  <2>5. x \in Sums
    BY <2>4 DEF CurveInfo, Sums
  <2>6. y \in Sums
    BY <2>3, ContentFacts DEF Sums
  <2> HIDE DEF a, b, x, y
  <2>7. a.code = "CURVE_CSUM" /\ a.payload[1] = x
    BY <2>1 DEF Message
  <2>8. b.code \notin DataCodes \/ (b.code = "CURVE_CSUM" /\ b.payload[1] = y)
    <3>1. CASE b = Message("RESOURCE_BUSY", <<>>)
      <4>1. b.code = "RESOURCE_BUSY"
        BY <3>1 DEF Message
      <4> QED BY <4>1 DEF DataCodes
    <3>2. CASE b = Message("CURVE_CSUM", <<y>>)
      BY <3>2 DEF Message
    <3> QED BY <2>2, <3>1, <3>2
  <2>9. AnswerOK(a) /\ AnswerOK(b)
    BY <2>5, <2>6, <2>7, <2>8, DataAnswer, PlainAnswer
  <2> QED BY <2>9 DEF a, b
<1> QED BY <1>1, <1>2

LEMMA BlockAnswer ==
    ASSUME NEW w, WorldInv(w), NEW p \in Seq(Nat)
    PROVE  AnswerOK(curve_block_request(w, p).answer)
<1> DEFINE m == curve_block_request(w, p).answer
           b == 256 * p[2] + p[3]
           block == read_block_wfmref(w, p[1], b)
           goes == /\ Len(p) = BSMP_CURVE_BLOCK_INFO /\ ~(p[1] >= Len(w.srv.curves))
                   /\ ~(b >= NBlocks) /\ CanRead(w, p[1])
<1>1. CASE ~goes
  <2>1. m.code \notin DataCodes
    BY <1>1 DEF curve_block_request, Refuse, Send, Message, DataCodes
  <2> QED BY <2>1, PlainAnswer
<1>2. CASE goes
  <2>1. m = Message("CURVE_BLOCK", p \o block)
    BY <1>2 DEF curve_block_request, Send
  <2>2. Len(p) = 3 /\ p[1] \in Nat /\ p[2] \in Nat /\ p[3] \in Nat
    <3>1. Len(p) = 3
      BY <1>2 DEF BSMP_CURVE_BLOCK_INFO
    <3>2. 1 \in 1 .. Len(p) /\ 2 \in 1 .. Len(p) /\ 3 \in 1 .. Len(p)
      BY <3>1
    <3> QED BY <3>1, <3>2, ElementTyped
  <2>3. CurvesPlaced(w.srv.curves) /\ w.mem \in [0 .. 3 * NBlocks - 1 -> Block]
    BY DEF WorldInv, ServerInv, WorldType
  <2>4. p[1] \in 0 .. 2 /\ p[1] + 1 \in 1 .. 3 /\ (p[1] + 1) - 1 = p[1]
    <3>1. ~(p[1] >= 3)
      BY <1>2, <2>3 DEF CurvesPlaced
    <3> QED BY <2>2, <3>1
  <2>5. b \in 0 .. NBlocks - 1
    BY <1>2, <2>2, ServerConstants
  <2>6. w.srv.curves[p[1] + 1].start = p[1] * NBlocks
    BY <2>3, <2>4 DEF CurvesPlaced
  <2> HIDE DEF b
  <2>7. p[1] * NBlocks + b \in 0 .. 3 * NBlocks - 1
    BY <2>4, <2>5, BlockPlaces
  <2>8. block \in Block
    BY <2>3, <2>6, <2>7 DEF read_block_wfmref
  <2>9. block \in Seq(Nat)
    <3>1. block \in [1 .. BlockSize -> Nat]
      BY <2>8 DEF Block, Bit
    <3> HIDE DEF block
    <3> QED BY <3>1, ServerConstants, SeqOfLength
  <2> HIDE DEF m, block
  <2>10. p \o block \in Seq(Nat) /\ Len(p \o block) >= 3
    BY <2>2, <2>9, SMTT(60)
  <2>11. m.code = "CURVE_BLOCK" /\ m.payload = p \o block
    BY <2>1 DEF Message
  <2>12. AnswerOK(m)
    BY <2>10, <2>11 DEF AnswerOK
  <2> QED BY <2>12 DEF m
<1> QED BY <1>1, <1>2

LEMMA FuncListAnswer ==
    ASSUME NEW w, WorldInv(w), NEW p
    PROVE  AnswerOK(func_query_list(w, p).answer)
<1> DEFINE m == func_query_list(w, p).answer
           list == [k \in DOMAIN w.srv.funcs |->
                       Nibbles(w.srv.funcs[k].input_size, w.srv.funcs[k].output_size)]
<1>1. m = ListOrNot(p, "FUNC_LIST", list)
  BY DEF ListOrNot, func_query_list, Refuse, Send
<1>2. list \in Seq(Nat)
  <2> DEFINE n == Len(w.srv.funcs)
  <2>1. w.srv.funcs \in Seq(FuncInfo) /\ n \in Nat /\ DOMAIN w.srv.funcs = 1 .. n
    BY DEF WorldInv, ServerInv, ServerType
  <2>2. ASSUME NEW k \in 1 .. n
        PROVE  Nibbles(w.srv.funcs[k].input_size, w.srv.funcs[k].output_size) \in Nat
    <3>1. w.srv.funcs[k] \in FuncInfo
      BY <2>1
    <3>2. w.srv.funcs[k].input_size \in Nat /\ w.srv.funcs[k].output_size \in Nat
      BY <3>1 DEF FuncInfo
    <3> DEFINE i == w.srv.funcs[k].input_size
               o == w.srv.funcs[k].output_size
    <3>3. Nibbles(i, o) = (16 * i + (o % 16)) % 256
      BY DEF Nibbles
    <3> HIDE DEF i, o
    <3>4. o % 16 \in Nat
      BY <3>2 DEF o
    <3>5. 16 * i + (o % 16) \in Nat
      BY <3>2, <3>4 DEF i
    <3> QED BY <3>3, <3>5 DEF i, o
  <2> HIDE DEF n
  <2>3. list \in [1 .. n -> Nat]
    BY <2>1, <2>2
  <2> HIDE DEF list
  <2> QED BY <2>1, <2>3, SeqOfLength
<1> HIDE DEF m, list
<1>3. m.code \notin DataCodes \/ (m.code = "FUNC_LIST" /\ m.payload = list)
  BY <1>1, ListAnswer
<1>4. AnswerOK(m)
  BY <1>2, <1>3, DataAnswer, PlainAnswer
<1> QED BY <1>4 DEF m

LEMMA CurveBlockAnswer ==
    ASSUME NEW w, NEW p
    PROVE  curve_block(w, p).answer.code \notin DataCodes
BY DEF curve_block, Refuse, Send, Message, DataCodes

\* Every command answers with lists that have their types.
LEMMA CommandAnswer ==
    ASSUME NEW w, WorldInv(w), NEW code \in Commands, NEW p \in Seq(Nat), NEW r
    PROVE  AnswerOK(command(w, code, p, r).answer)
<1>1. CASE code = "QUERY_VERSION"
  <2>1. command(w, code, p, r) = query_version(w, p)
    BY <1>1 DEF command
  <2>2. query_version(w, p).answer.code \notin DataCodes
    BY OtherAnswers
  <2> QED BY <2>1, <2>2, PlainAnswer
<1>2. CASE code = "VAR_QUERY_LIST"
  <2>1. command(w, code, p, r) = var_query_list(w, p)
    BY <1>2 DEF command
  <2>2. AnswerOK(var_query_list(w, p).answer)
    BY VarListAnswer
  <2> QED BY <2>1, <2>2
<1>3. CASE code = "VAR_READ"
  <2>1. command(w, code, p, r) = var_read(w, p)
    BY <1>3 DEF command
  <2>2. var_read(w, p).answer.code \notin DataCodes
    BY OtherAnswers
  <2> QED BY <2>1, <2>2, PlainAnswer
<1>4. CASE code = "VAR_WRITE"
  <2>1. command(w, code, p, r) = var_write(w, p)
    BY <1>4 DEF command
  <2>2. var_write(w, p).answer.code \notin DataCodes
    BY OtherAnswers
  <2> QED BY <2>1, <2>2, PlainAnswer
<1>5. CASE code = "VAR_BIN_OP"
  <2>1. command(w, code, p, r) = var_bin_op(w, p)
    BY <1>5 DEF command
  <2>2. var_bin_op(w, p).answer.code \notin DataCodes
    BY OtherAnswers
  <2> QED BY <2>1, <2>2, PlainAnswer
<1>6. CASE code = "VAR_WRITE_READ"
  <2>1. command(w, code, p, r) = var_write_read(w, p)
    BY <1>6 DEF command
  <2>2. var_write_read(w, p).answer.code \notin DataCodes
    BY OtherAnswers
  <2> QED BY <2>1, <2>2, PlainAnswer
<1>7. CASE code = "GROUP_QUERY_LIST"
  <2>1. command(w, code, p, r) = group_query_list(w, p)
    BY <1>7 DEF command
  <2>2. AnswerOK(group_query_list(w, p).answer)
    BY GroupListAnswer
  <2> QED BY <2>1, <2>2
<1>8. CASE code = "GROUP_QUERY"
  <2>1. command(w, code, p, r) = group_query(w, p)
    BY <1>8 DEF command
  <2>2. AnswerOK(group_query(w, p).answer)
    BY GroupAnswer
  <2> QED BY <2>1, <2>2
<1>9. CASE code = "GROUP_READ"
  <2>1. command(w, code, p, r) = group_read(w, p)
    BY <1>9 DEF command
  <2>2. group_read(w, p).answer.code \notin DataCodes
    BY OtherAnswers
  <2> QED BY <2>1, <2>2, PlainAnswer
<1>10. CASE code = "GROUP_WRITE"
  <2>1. command(w, code, p, r) = group_write(w, p)
    BY <1>10 DEF command
  <2>2. group_write(w, p).answer.code \notin DataCodes
    BY OtherAnswers
  <2> QED BY <2>1, <2>2, PlainAnswer
<1>11. CASE code = "GROUP_BIN_OP"
  <2>1. command(w, code, p, r) = group_bin_op(w, p)
    BY <1>11 DEF command
  <2>2. group_bin_op(w, p).answer.code \notin DataCodes
    BY OtherAnswers
  <2> QED BY <2>1, <2>2, PlainAnswer
<1>12. CASE code = "GROUP_CREATE"
  <2>1. command(w, code, p, r) = group_create(w, p)
    BY <1>12 DEF command
  <2>2. group_create(w, p).answer.code \notin DataCodes
    BY OtherAnswers
  <2> QED BY <2>1, <2>2, PlainAnswer
<1>13. CASE code = "GROUP_REMOVE_ALL"
  <2>1. command(w, code, p, r) = group_remove_all(w, p)
    BY <1>13 DEF command
  <2>2. group_remove_all(w, p).answer.code \notin DataCodes
    BY OtherAnswers
  <2> QED BY <2>1, <2>2, PlainAnswer
<1>14. CASE code = "CURVE_QUERY_LIST"
  <2>1. command(w, code, p, r) = curve_query_list(w, p)
    BY <1>14 DEF command
  <2>2. AnswerOK(curve_query_list(w, p).answer)
    BY CurveListAnswer
  <2> QED BY <2>1, <2>2
<1>15. CASE code = "CURVE_QUERY_CSUM"
  <2>1. command(w, code, p, r) = curve_query_csum(w, p)
    BY <1>15 DEF command
  <2>2. AnswerOK(curve_query_csum(w, p).answer)
    BY ChecksumAnswers
  <2> QED BY <2>1, <2>2
<1>16. CASE code = "CURVE_BLOCK_REQUEST"
  <2>1. command(w, code, p, r) = curve_block_request(w, p)
    BY <1>16 DEF command
  <2>2. AnswerOK(curve_block_request(w, p).answer)
    BY BlockAnswer
  <2> QED BY <2>1, <2>2
<1>17. CASE code = "CURVE_BLOCK"
  <2>1. command(w, code, p, r) = curve_block(w, p)
    BY <1>17 DEF command
  <2>2. curve_block(w, p).answer.code \notin DataCodes
    BY CurveBlockAnswer
  <2> QED BY <2>1, <2>2, PlainAnswer
<1>18. CASE code = "CURVE_RECALC_CSUM"
  <2>1. command(w, code, p, r) = curve_recalc_csum(w, p)
    BY <1>18 DEF command
  <2>2. AnswerOK(curve_recalc_csum(w, p).answer)
    BY ChecksumAnswers
  <2> QED BY <2>1, <2>2
<1>19. CASE code = "FUNC_QUERY_LIST"
  <2>1. command(w, code, p, r) = func_query_list(w, p)
    BY <1>19 DEF command
  <2>2. AnswerOK(func_query_list(w, p).answer)
    BY FuncListAnswer
  <2> QED BY <2>1, <2>2
<1>20. CASE code = "FUNC_EXECUTE"
  <2>1. command(w, code, p, r) = func_execute(w, p, r)
    BY <1>20 DEF command
  <2>2. func_execute(w, p, r).answer.code \notin DataCodes
    BY OtherAnswers
  <2> QED BY <2>1, <2>2, PlainAnswer
<1> QED BY <1>1, <1>2, <1>3, <1>4, <1>5, <1>6, <1>7, <1>8, <1>9, <1>10, <1>11, <1>12, <1>13, <1>14, <1>15, <1>16, <1>17, <1>18, <1>19, <1>20 DEF Commands

LEMMA PacketAnswer ==
    ASSUME NEW w, WorldInv(w), NEW request, request.payload \in Seq(Nat), NEW r
    PROVE  AnswerOK(bsmp_process_packet(w, request, r).answer)
<1>1. CASE Len(request.payload) # request.size \/ request.code \notin Commands
  <2>1. bsmp_process_packet(w, request, r).answer.code \notin DataCodes
    BY <1>1 DEF bsmp_process_packet, Refuse, Send, Message, DataCodes
  <2> QED BY <2>1, PlainAnswer
<1>2. CASE ~(Len(request.payload) # request.size \/ request.code \notin Commands)
  <2>1. bsmp_process_packet(w, request, r) = command(w, request.code, request.payload, r)
    BY <1>2, Zenon DEF bsmp_process_packet
  <2> QED BY <1>2, <2>1, CommandAnswer, Zenon
<1> QED BY <1>1, <1>2

----------------------------------------------------------------------------
(* The answers about groups.                                               *)

LEMMA MessageFields ==
    ASSUME NEW code, NEW payload
    PROVE  /\ Message(code, payload).code = code /\ Message(code, payload).payload = payload
           /\ Message(code, payload).size = Len(payload)
BY DEF Message

LEMMA PacketOf ==
    ASSUME NEW w, NEW code \in Commands, NEW p, NEW r
    PROVE  bsmp_process_packet(w, Message(code, p), r) = command(w, code, p, r)
BY MessageFields DEF bsmp_process_packet

LEMMA GroupListPacket ==
    ASSUME NEW w, WorldInv(w), NEW r
    PROVE  bsmp_process_packet(w, Message("GROUP_QUERY_LIST", <<>>), r).answer
             = Message("GROUP_LIST", GroupBytes(w.srv))
<1>1. bsmp_process_packet(w, Message("GROUP_QUERY_LIST", <<>>), r)
        = command(w, "GROUP_QUERY_LIST", <<>>, r)
  BY PacketOf DEF Commands
<1>2. command(w, "GROUP_QUERY_LIST", <<>>, r) = group_query_list(w, <<>>)
  BY DEF command
<1> QED BY <1>1, <1>2, GroupListAnswer

LEMMA GroupPacket ==
    ASSUME NEW w, WorldInv(w), NEW i \in Nat, NEW r,
           bsmp_process_packet(w, Message("GROUP_QUERY", <<i>>), r).answer.code = "GROUP"
    PROVE  bsmp_process_packet(w, Message("GROUP_QUERY", <<i>>), r).answer.payload
             = w.srv.groups[i].vars
<1>1. bsmp_process_packet(w, Message("GROUP_QUERY", <<i>>), r) = command(w, "GROUP_QUERY", <<i>>, r)
  BY PacketOf DEF Commands
<1>2. command(w, "GROUP_QUERY", <<i>>, r) = group_query(w, <<i>>)
  BY DEF command
<1>3. <<i>> \in Seq(Nat) /\ <<i>>[1] = i
  OBVIOUS
<1> QED BY <1>1, <1>2, <1>3, GroupAnswer

\* The groups a master can address are the same.
SameVisible(w, after) ==
    /\ after.srv.count = w.srv.count
    /\ \A g \in 0 .. w.srv.count - 1 : after.srv.groups[g] = w.srv.groups[g]

\* A refused group_create only touches its own slot, behind the count.
LEMMA GroupRefused ==
    ASSUME NEW w, WorldInv(w), NEW code \in GroupCodes, NEW p \in Seq(Nat), NEW r,
           bsmp_process_packet(w, Message(code, p), r).answer.code # "OK"
    PROVE  SameVisible(w, bsmp_process_packet(w, Message(code, p), r).world)
<1> DEFINE step == bsmp_process_packet(w, Message(code, p), r)
<1>1. step = command(w, code, p, r)
  BY PacketOf DEF Commands, GroupCodes
<1>2. SameVisible(w, w)
  BY DEF SameVisible
<1>3. CASE code = "GROUP_REMOVE_ALL"
  <2>1. step = group_remove_all(w, p)
    BY <1>1, <1>3 DEF command
  <2>2. p # <<>>
    BY <2>1 DEF group_remove_all, Send, Message
  <2>3. step.world = w
    BY <2>1, <2>2, NothingServed, Zenon DEF group_remove_all
  <2> QED BY <1>2, <2>3
<1>4. CASE code = "GROUP_CREATE"
  <2> DEFINE s == w.srv
             c == s.count
             made == Populate(s, group_init(c), p)
             filled == [s EXCEPT !.groups[c] = made.grp]
             more == [filled EXCEPT !.count = @ + 1]
             stops == (Len(p) < 1 \/ Len(p) > Len(s.vars)) \/ c = BSMP_MAX_GROUPS
  <2>1. step = group_create(w, p)
    BY <1>1, <1>4 DEF command
  <2>2. CASE stops
    <3>1. group_create(w, p).world = w
      BY <2>2, NothingServed, Zenon DEF group_create
    <3> QED BY <1>2, <2>1, <3>1
  <2>3. CASE ~stops
    <3>1. group_create(w, p) = IF ~made.ok THEN Send(w, filled, "INVALID_ID", <<>>)
                               ELSE Send(w, more, "OK", <<>>)
      BY <2>3, Zenon DEF group_create
    <3> HIDE DEF filled, more, made
    <3>2. Send(w, more, "OK", <<>>).answer.code = "OK"
      BY DEF Send, Message
    <3>3. step = Send(w, filled, "INVALID_ID", <<>>)
      BY <2>1, <3>1, <3>2
    <3>4. step.world = WithServer(w, filled)
      BY <3>3 DEF Send, WithServer
    <3>5. w \in WorldType /\ s \in ServerType /\ c \in 3 .. BSMP_MAX_GROUPS
      BY DEF WorldInv, ServerInv
    <3>6. step.world.srv = filled
      BY <3>4, <3>5 DEF WithServer, WorldType
    <3>7. filled.count = c /\ filled.groups = [s.groups EXCEPT ![c] = made.grp]
      BY <3>5 DEF filled, ServerType
    <3>8. s.groups \in [Slots -> GroupInfo]
      BY <3>5 DEF ServerType
    <3>9. \A g \in 0 .. c - 1 : g \in Slots /\ g # c
      BY <3>5, ServerConstants DEF Slots
    <3>10. \A g \in 0 .. c - 1 : filled.groups[g] = s.groups[g]
      BY <3>7, <3>8, <3>9
    <3> QED BY <3>6, <3>7, <3>10 DEF SameVisible
  <2> QED BY <2>2, <2>3
<1> QED BY <1>3, <1>4 DEF GroupCodes

----------------------------------------------------------------------------
(* The requests of the client.                                             *)

LEMMA OpsTable ==
    /\ DOMAIN Ops = OpNames
    /\ Ops["read_var"].code = "VAR_READ"
    /\ Ops["write_var"].code = "VAR_WRITE"
    /\ Ops["write_read_vars"].code = "VAR_WRITE_READ"
    /\ Ops["bin_op_var"].code = "VAR_BIN_OP"
    /\ Ops["read_group"].code = "GROUP_READ"
    /\ Ops["write_group"].code = "GROUP_WRITE"
    /\ Ops["bin_op_group"].code = "GROUP_BIN_OP"
    /\ Ops["create_group"].code = "GROUP_CREATE"
    /\ Ops["remove_all_groups"].code = "GROUP_REMOVE_ALL"
    /\ Ops["request_curve_block"].code = "CURVE_BLOCK_REQUEST"
    /\ Ops["read_curve"].code = "CURVE_BLOCK_REQUEST"
    /\ Ops["send_curve_block"].code = "CURVE_BLOCK"
    /\ Ops["write_curve"].code = "CURVE_BLOCK"
    /\ Ops["recalc_checksum"].code = "CURVE_RECALC_CSUM"
    /\ Ops["func_execute"].code = "FUNC_EXECUTE"
BY DEF Ops, Op, OpNames

\* Data after a header.
LEMMA CleanData ==
    ASSUME NEW code, NEW head \in Seq(Nat), NEW bytes \in Seq(Bit),
           code \in DOMAIN Header => Header[code] = Len(head)
    PROVE  Clean(code, head \o bytes)
<1> DEFINE p == head \o bytes
<1>1. bytes \in Seq(Nat)
  BY DEF Bit
<1>2. p \in Seq(Nat)
  BY <1>1
<1>3. ASSUME NEW k \in DOMAIN p, k > Len(head) PROVE p[k] \in Bit
  <2>1. Len(head) \in Nat /\ Len(bytes) \in Nat /\ k \in 1 .. Len(head) + Len(bytes)
    OBVIOUS
  <2>2. p[k] = bytes[k - Len(head)] /\ k - Len(head) \in 1 .. Len(bytes)
    BY <1>3, <2>1
  <2> HIDE DEF p
  <2> QED BY <2>2, ElementTyped
<1> QED BY <1>2, <1>3 DEF Clean

LEMMA HeaderSizes ==
    /\ Header["VAR_WRITE"] = 1 /\ Header["VAR_WRITE_READ"] = 2 /\ Header["VAR_BIN_OP"] = 2
    /\ Header["GROUP_WRITE"] = 1 /\ Header["GROUP_BIN_OP"] = 2 /\ Header["CURVE_BLOCK"] = 3
    /\ DOMAIN Header = {"VAR_WRITE", "VAR_WRITE_READ", "VAR_BIN_OP", "GROUP_WRITE",
                        "GROUP_BIN_OP", "CURVE_BLOCK"}
BY DEF Header

\* Other requests: numbers.
LEMMA CleanNumbers ==
    ASSUME NEW code, code \notin DOMAIN Header, NEW p \in Seq(Nat)
    PROVE  Clean(code, p)
BY DEF Clean

LEMMA Headers ==
    ASSUME NEW a \in Nat, NEW b \in Nat, NEW c \in Nat
    PROVE  /\ <<a>> \in Seq(Nat) /\ Len(<<a>>) = 1 /\ <<a, b>> \in Seq(Nat) /\ Len(<<a, b>>) = 2
           /\ <<a, b, c>> \in Seq(Nat) /\ Len(<<a, b, c>>) = 3
OBVIOUS

LEMMA BlockBytesBits ==
    ASSUME NEW bytes \in Seq(Bit), NEW size \in Nat, NEW blk \in Nat
    PROVE  BlockBytes(bytes, size, blk) \in Seq(Bit)
<1> DEFINE from == blk * size
           to == IF from + size < Len(bytes) THEN from + size ELSE Len(bytes)
<1>1. from \in Nat
  OBVIOUS
<1> HIDE DEF from
<1>2. to \in Nat /\ to <= Len(bytes)
  BY <1>1
<1>3. BlockBytes(bytes, size, blk) = SubSeq(bytes, from + 1, to)
  BY DEF BlockBytes, from
<1> HIDE DEF to
<1>4. SubSeq(bytes, from + 1, to) \in Seq(Bit)
  BY <1>1, <1>2
<1> QED BY <1>3, <1>4

\* A call of the library before its request goes out.
Ready(c) ==
    /\ c \in CallType /\ c.op \in OpNames /\ Check(c) = "ok"
    /\ c.op \notin {"create_group", "read_curve"} => c.bytes \in Seq(Bit)

LEMMA BinOpLetter ==
    ASSUME NEW n \in Nat, n < BIN_OP_COUNT
    PROVE  bin_op_code[n + 1] \in BinOps /\ bin_op_code[n + 1] \in Nat
<1>1. BIN_OP_COUNT = 6
  BY DEF BIN_OP_COUNT, bin_op_code
<1>2. n = 0 \/ n = 1 \/ n = 2 \/ n = 3 \/ n = 4 \/ n = 5
  BY <1>1
<1>3. /\ bin_op_code[1] = 65 /\ bin_op_code[2] = 79 /\ bin_op_code[3] = 88
      /\ bin_op_code[4] = 83 /\ bin_op_code[5] = 67 /\ bin_op_code[6] = 84
  BY DEF bin_op_code
<1>4. bin_op_code[n + 1] \in {65, 79, 88, 83, 67, 84}
  BY <1>2, <1>3
<1> QED BY <1>4 DEF BinOps

LEMMA AddressTyped ==
    ASSUME NEW c \in CallType
    PROVE  BlockAddress(c) \in Seq(Nat) /\ Len(BlockAddress(c)) = 3
<1>1. c.id \in Nat /\ c.i \in Nat
  BY DEF CallType
<1>2. c.i \div 256 \in Nat /\ c.i % 256 \in Nat
  BY <1>1
<1> QED BY <1>1, <1>2, Headers DEF BlockAddress

\* The payload of every operation is a header of numbers and the user's bits.
LEMMA PayloadClean ==
    ASSUME cli \in CliType, NEW c, Ready(c)
    PROVE  Clean(Ops[c.op].code, Payload(c))
<1>1. /\ c \in CallType /\ c.id \in Nat /\ c.arg \in Nat /\ c.i \in Nat /\ c.bytes \in Seq(Nat)
      /\ c.op \notin {"create_group", "read_curve"} => c.bytes \in Seq(Bit)
  BY DEF Ready, CallType
<1>2. /\ <<c.id>> \in Seq(Nat) /\ Len(<<c.id>>) = 1
      /\ <<c.id, c.arg>> \in Seq(Nat) /\ Len(<<c.id, c.arg>>) = 2
      /\ BlockAddress(c) \in Seq(Nat) /\ Len(BlockAddress(c)) = 3
  BY <1>1, Headers, AddressTyped
<1>3. CASE c.op = "read_var"
  <2>1. Ops[c.op].code = "VAR_READ"
    BY <1>3, OpsTable
  <2>2. Payload(c) = <<c.id>> \o c.bytes
    BY <1>3 DEF Payload
  <2>3. Clean("VAR_READ", <<c.id>> \o c.bytes)
    <3>1. c.bytes \in Seq(Bit) /\ ("VAR_READ" \in DOMAIN Header => Header["VAR_READ"] = Len(<<c.id>>))
      BY <1>1, <1>2, <1>3, HeaderSizes
    <3> QED BY <1>2, <3>1, CleanData
  <2> QED BY <2>1, <2>2, <2>3
<1>4. CASE c.op = "write_var"
  <2>1. Ops[c.op].code = "VAR_WRITE"
    BY <1>4, OpsTable
  <2>2. Payload(c) = <<c.id>> \o c.bytes
    BY <1>4 DEF Payload
  <2>3. Clean("VAR_WRITE", <<c.id>> \o c.bytes)
    <3>1. c.bytes \in Seq(Bit) /\ ("VAR_WRITE" \in DOMAIN Header => Header["VAR_WRITE"] = Len(<<c.id>>))
      BY <1>1, <1>2, <1>4, HeaderSizes
    <3> QED BY <1>2, <3>1, CleanData
  <2> QED BY <2>1, <2>2, <2>3
<1>5. CASE c.op = "write_read_vars"
  <2>1. Ops[c.op].code = "VAR_WRITE_READ"
    BY <1>5, OpsTable
  <2>2. Payload(c) = <<c.id, c.arg>> \o c.bytes
    BY <1>5 DEF Payload
  <2>3. Clean("VAR_WRITE_READ", <<c.id, c.arg>> \o c.bytes)
    <3>1. c.bytes \in Seq(Bit) /\ ("VAR_WRITE_READ" \in DOMAIN Header => Header["VAR_WRITE_READ"] = Len(<<c.id, c.arg>>))
      BY <1>1, <1>2, <1>5, HeaderSizes
    <3> QED BY <1>2, <3>1, CleanData
  <2> QED BY <2>1, <2>2, <2>3
<1>6. CASE c.op = "bin_op_var"
  <2>1. Ops[c.op].code = "VAR_BIN_OP"
    BY <1>6, OpsTable
  <2>2. Payload(c) = <<c.id, bin_op_code[c.arg + 1]>> \o c.bytes
    BY <1>6 DEF Payload
  <2>3. c.arg < BIN_OP_COUNT
    <3>1. OpCheck(cli.vars, c) = "ok"
      BY <1>6 DEF Ready, Check
    <3>2. BIN_OP_COUNT \in Nat
      BY DEF BIN_OP_COUNT, bin_op_code
    <3> QED BY <1>1, <3>1, <3>2 DEF OpCheck
  <2>4. bin_op_code[c.arg + 1] \in Nat
    BY <1>1, <2>3, BinOpLetter
  <2> DEFINE head == <<c.id, bin_op_code[c.arg + 1]>>
  <2>5. head \in Seq(Nat) /\ Len(head) = 2
    BY <1>1, <2>4, Headers
  <2> HIDE DEF head
  <2>6. c.bytes \in Seq(Bit) /\ Header["VAR_BIN_OP"] = Len(head)
    BY <1>1, <1>6, <2>5, HeaderSizes
  <2>7. Clean("VAR_BIN_OP", head \o c.bytes)
    BY <2>5, <2>6, CleanData
  <2> QED BY <2>1, <2>2, <2>7 DEF head
<1>7. CASE c.op = "read_group"
  <2>1. Ops[c.op].code = "GROUP_READ"
    BY <1>7, OpsTable
  <2>2. Payload(c) = <<c.id>> \o c.bytes
    BY <1>7 DEF Payload
  <2>3. Clean("GROUP_READ", <<c.id>> \o c.bytes)
    <3>1. c.bytes \in Seq(Bit) /\ ("GROUP_READ" \in DOMAIN Header => Header["GROUP_READ"] = Len(<<c.id>>))
      BY <1>1, <1>2, <1>7, HeaderSizes
    <3> QED BY <1>2, <3>1, CleanData
  <2> QED BY <2>1, <2>2, <2>3
<1>8. CASE c.op = "write_group"
  <2>1. Ops[c.op].code = "GROUP_WRITE"
    BY <1>8, OpsTable
  <2>2. Payload(c) = <<c.id>> \o c.bytes
    BY <1>8 DEF Payload
  <2>3. Clean("GROUP_WRITE", <<c.id>> \o c.bytes)
    <3>1. c.bytes \in Seq(Bit) /\ ("GROUP_WRITE" \in DOMAIN Header => Header["GROUP_WRITE"] = Len(<<c.id>>))
      BY <1>1, <1>2, <1>8, HeaderSizes
    <3> QED BY <1>2, <3>1, CleanData
  <2> QED BY <2>1, <2>2, <2>3
<1>9. CASE c.op = "bin_op_group"
  <2>1. Ops[c.op].code = "GROUP_BIN_OP"
    BY <1>9, OpsTable
  <2>2. Payload(c) = <<c.id, bin_op_code[c.arg + 1]>> \o c.bytes
    BY <1>9 DEF Payload
  <2>3. c.arg < BIN_OP_COUNT
    <3>1. OpCheck(cli.groups, c) = "ok"
      BY <1>9 DEF Ready, Check
    <3>2. BIN_OP_COUNT \in Nat
      BY DEF BIN_OP_COUNT, bin_op_code
    <3> QED BY <1>1, <3>1, <3>2 DEF OpCheck
  <2>4. bin_op_code[c.arg + 1] \in Nat
    BY <1>1, <2>3, BinOpLetter
  <2> DEFINE head == <<c.id, bin_op_code[c.arg + 1]>>
  <2>5. head \in Seq(Nat) /\ Len(head) = 2
    BY <1>1, <2>4, Headers
  <2> HIDE DEF head
  <2>6. c.bytes \in Seq(Bit) /\ Header["GROUP_BIN_OP"] = Len(head)
    BY <1>1, <1>9, <2>5, HeaderSizes
  <2>7. Clean("GROUP_BIN_OP", head \o c.bytes)
    BY <2>5, <2>6, CleanData
  <2> QED BY <2>1, <2>2, <2>7 DEF head
<1>10. CASE c.op = "create_group"
  <2>1. Ops[c.op].code = "GROUP_CREATE"
    BY <1>10, OpsTable
  <2>2. Payload(c) = c.bytes
    BY <1>10 DEF Payload
  <2> QED BY <1>1, <2>1, <2>2, CleanNumbers, HeaderSizes
<1>11. CASE c.op = "remove_all_groups"
  <2>1. Ops[c.op].code = "GROUP_REMOVE_ALL"
    BY <1>11, OpsTable
  <2>2. Payload(c) = c.bytes
    BY <1>11 DEF Payload
  <2> QED BY <1>1, <2>1, <2>2, CleanNumbers, HeaderSizes
<1>12. CASE c.op = "request_curve_block"
  <2>1. Ops[c.op].code = "CURVE_BLOCK_REQUEST"
    BY <1>12, OpsTable
  <2>2. Payload(c) = BlockAddress(c)
    BY <1>12 DEF Payload
  <2> QED BY <1>2, <2>1, <2>2, CleanNumbers, HeaderSizes
<1>13. CASE c.op = "read_curve"
  <2>1. Ops[c.op].code = "CURVE_BLOCK_REQUEST"
    BY <1>13, OpsTable
  <2>2. Payload(c) = BlockAddress(c)
    BY <1>13 DEF Payload
  <2> QED BY <1>2, <2>1, <2>2, CleanNumbers, HeaderSizes
<1>14. CASE c.op = "send_curve_block"
  <2>1. Ops[c.op].code = "CURVE_BLOCK"
    BY <1>14, OpsTable
  <2>2. Payload(c) = BlockAddress(c) \o c.bytes
    BY <1>14 DEF Payload
  <2>3. Clean("CURVE_BLOCK", BlockAddress(c) \o c.bytes)
    <3>1. c.bytes \in Seq(Bit) /\ ("CURVE_BLOCK" \in DOMAIN Header => Header["CURVE_BLOCK"] = Len(BlockAddress(c)))
      BY <1>1, <1>2, <1>14, HeaderSizes
    <3> QED BY <1>2, <3>1, CleanData
  <2> QED BY <2>1, <2>2, <2>3
<1>15. CASE c.op = "write_curve"
  <2>1. Ops[c.op].code = "CURVE_BLOCK"
    BY <1>15, OpsTable
  <2>2. Payload(c) = BlockAddress(c) \o BlockBytes(c.bytes, cli.curves[c.id + 1].block_size, c.i)
    BY <1>15 DEF Payload
  <2> DEFINE size == cli.curves[c.id + 1].block_size
             bytes == BlockBytes(c.bytes, size, c.i)
  <2>3. size \in Nat
    <3>1. SendBlockCheck(c) = "ok"
      BY <1>15 DEF Ready, Check
    <3>2. WriteCheck(cli.curves, c.id) = "ok"
      BY <3>1 DEF SendBlockCheck
    <3>3. c.id < Len(cli.curves)
      BY <3>2 DEF WriteCheck, Has
    <3>4. cli.curves \in Seq(CurveSeen)
      BY DEF CliType
    <3>5. c.id + 1 \in 1 .. Len(cli.curves)
      BY <1>1, <3>3, <3>4
    <3>6. cli.curves[c.id + 1] \in CurveSeen
      BY <3>4, <3>5
    <3> QED BY <3>6 DEF CurveSeen
  <2> HIDE DEF size
  <2>4. c.bytes \in Seq(Bit) /\ Header["CURVE_BLOCK"] = Len(BlockAddress(c))
    BY <1>1, <1>2, <1>15, HeaderSizes
  <2>5. bytes \in Seq(Bit)
    BY <1>1, <2>3, <2>4, BlockBytesBits
  <2> HIDE DEF bytes
  <2>6. Clean("CURVE_BLOCK", BlockAddress(c) \o bytes)
    BY <1>2, <2>4, <2>5, CleanData
  <2> QED BY <2>1, <2>2, <2>6 DEF bytes, size
<1>16. CASE c.op = "recalc_checksum"
  <2>1. Ops[c.op].code = "CURVE_RECALC_CSUM"
    BY <1>16, OpsTable
  <2>2. Payload(c) = <<c.id>> \o c.bytes
    BY <1>16 DEF Payload
  <2>3. Clean("CURVE_RECALC_CSUM", <<c.id>> \o c.bytes)
    <3>1. c.bytes \in Seq(Bit) /\ ("CURVE_RECALC_CSUM" \in DOMAIN Header => Header["CURVE_RECALC_CSUM"] = Len(<<c.id>>))
      BY <1>1, <1>2, <1>16, HeaderSizes
    <3> QED BY <1>2, <3>1, CleanData
  <2> QED BY <2>1, <2>2, <2>3
<1>17. CASE c.op = "func_execute"
  <2>1. Ops[c.op].code = "FUNC_EXECUTE"
    BY <1>17, OpsTable
  <2>2. Payload(c) = <<c.id>> \o c.bytes
    BY <1>17 DEF Payload
  <2>3. Clean("FUNC_EXECUTE", <<c.id>> \o c.bytes)
    <3>1. c.bytes \in Seq(Bit) /\ ("FUNC_EXECUTE" \in DOMAIN Header => Header["FUNC_EXECUTE"] = Len(<<c.id>>))
      BY <1>1, <1>2, <1>17, HeaderSizes
    <3> QED BY <1>2, <3>1, CleanData
  <2> QED BY <2>1, <2>2, <2>3
<1> QED BY <1>3, <1>4, <1>5, <1>6, <1>7, <1>8, <1>9, <1>10, <1>11, <1>12, <1>13, <1>14, <1>15, <1>16, <1>17 DEF Ready, OpNames

LEMMA RequestStages ==
    ASSUME call # NoCall, call \in CallType
    PROVE  /\ call.stage = "version" => Request(call) = Message("QUERY_VERSION", <<>>)
           /\ call.stage = "vars" => Request(call) = Message("VAR_QUERY_LIST", <<>>)
           /\ call.stage = "groups" => Request(call) = Message("GROUP_QUERY_LIST", <<>>)
           /\ call.stage = "group" => Request(call) = Message("GROUP_QUERY", <<call.i>>)
           /\ call.stage = "curves" => Request(call) = Message("CURVE_QUERY_LIST", <<>>)
           /\ call.stage = "csum" => Request(call) = Message("CURVE_QUERY_CSUM", <<call.i>>)
           /\ call.stage = "funcs" => Request(call) = Message("FUNC_QUERY_LIST", <<>>)
           /\ call.stage = "op" => Request(call) = Message(Ops[call.op].code, Payload(call))
BY DEF Request

\* A request of the client is clean; only two operations change the groups.
LEMMA RequestFacts ==
    ASSUME cli \in CliType, CallInv, Sends
    PROVE  /\ Clean(Request(call).code, Request(call).payload)
           /\ Request(call) = Message(Request(call).code, Request(call).payload)
           /\ Request(call).code \in GroupCodes =>
                 call.stage = "op" /\ call.op \in {"create_group", "remove_all_groups"}
<1>1. call # NoCall /\ call \in CallType /\ call.stage \in Stages /\ call.i \in Nat
  BY DEF Sends, CallInv, CallType
<1>2. /\ <<>> \in Seq(Nat) /\ <<call.i>> \in Seq(Nat)
  BY <1>1, Headers
<1>3. ASSUME NEW code, NEW p, Request(call) = Message(code, p), Clean(code, p), code \notin GroupCodes
      PROVE  /\ Clean(Request(call).code, Request(call).payload)
             /\ Request(call) = Message(Request(call).code, Request(call).payload)
             /\ Request(call).code \notin GroupCodes
  BY <1>3, MessageFields
<1>4. /\ Clean("QUERY_VERSION", <<>>) /\ Clean("VAR_QUERY_LIST", <<>>)
      /\ Clean("GROUP_QUERY_LIST", <<>>) /\ Clean("GROUP_QUERY", <<call.i>>)
      /\ Clean("CURVE_QUERY_LIST", <<>>) /\ Clean("CURVE_QUERY_CSUM", <<call.i>>)
      /\ Clean("FUNC_QUERY_LIST", <<>>)
  BY <1>2, CleanNumbers, HeaderSizes
<1>5. /\ "QUERY_VERSION" \notin GroupCodes /\ "VAR_QUERY_LIST" \notin GroupCodes
      /\ "GROUP_QUERY_LIST" \notin GroupCodes /\ "GROUP_QUERY" \notin GroupCodes
      /\ "CURVE_QUERY_LIST" \notin GroupCodes /\ "CURVE_QUERY_CSUM" \notin GroupCodes
      /\ "FUNC_QUERY_LIST" \notin GroupCodes
  BY DEF GroupCodes
<1>6. CASE call.stage # "op"
  BY <1>1, <1>3, <1>4, <1>5, <1>6, RequestStages DEF Stages
<1>7. CASE call.stage = "op"
  <2>1. Ready(call) /\ call.op \in OpNames
    BY <1>1, <1>7 DEF Ready, CallInv, Sends
  <2>2. Request(call) = Message(Ops[call.op].code, Payload(call))
    BY <1>1, <1>7, RequestStages
  <2>3. Clean(Ops[call.op].code, Payload(call))
    BY <2>1, PayloadClean
  <2>4. Ops[call.op].code \in GroupCodes => call.op \in {"create_group", "remove_all_groups"}
    BY <2>1, OpsTable DEF GroupCodes, OpNames
  <2> HIDE DEF Payload
  <2>5. Request(call).code = Ops[call.op].code /\ Request(call).payload = Payload(call)
    BY <2>2, MessageFields
  <2> QED BY <1>7, <2>2, <2>3, <2>4, <2>5
<1> QED BY <1>6, <1>7

----------------------------------------------------------------------------
(* Steps of the server.                                                    *)

\* The server executes the request of the client.
LEMMA ProcessServes ==
    ASSUME ClientInv, Sends, NEW r, Process(r)
    PROVE  /\ Served(world, world') /\ WorldInv(world')
           /\ AnswerOK(bsmp_process_packet(world, Request(call), r).answer)
           /\ Request(call).code \notin GroupCodes => SameGroups(world, world')
<1>1. WorldInv(world) /\ cli \in CliType /\ CallInv
  BY DEF ClientInv
<1>2. Clean(Request(call).code, Request(call).payload) /\ Request(call).payload \in Seq(Nat)
  BY <1>1, RequestFacts DEF Clean
<1> DEFINE q == Request(call)
           after == bsmp_process_packet(world, q, r).world
<1>3. world' = after
  BY DEF Process
<1> HIDE DEF q
<1>4. Served(world, after) /\ (q.code \notin GroupCodes => SameGroups(world, after))
  BY <1>1, <1>2, PacketServed DEF q
<1>5. AnswerOK(bsmp_process_packet(world, q, r).answer)
  BY <1>1, <1>2, PacketAnswer DEF q
<1> HIDE DEF after
<1> QED BY <1>3, <1>4, <1>5 DEF Served, q

\* No answer: nothing to take from it.
LEMMA NoAnswers ==
    /\ AnswerOK(Nothing) /\ AnswerOK(Failed) /\ Nothing # Failed
    /\ Nothing.code = "NOTHING" /\ Failed.code = "FAILED"
<1>1. Nothing.code = "NOTHING" /\ Failed.code = "FAILED"
  BY MessageFields DEF Nothing, Failed
<1>2. Nothing.code \notin DataCodes /\ Failed.code \notin DataCodes
  BY <1>1 DEF DataCodes
<1> QED BY <1>1, <1>2, PlainAnswer

\* An initial world, and a world after a restart.
LEMMA WorldStarts ==
    ASSUME NEW w \in WorldType, w.srv = bsmp_init
    PROVE  WorldInv(w)
<1>1. \A id \in 0 .. 1 : id + 1 \in 1 .. 3
  OBVIOUS
<1> QED BY <1>1, ServerStarts DEF WorldInv

LEMMA FullEndsTyped == FullEnds \in [0 .. 1 -> 0 .. NBlocks * BlockSize]
<1>1. NBlocks * BlockSize \in Nat
  BY ServerConstants
<1>2. NBlocks * BlockSize \in 0 .. NBlocks * BlockSize
  BY <1>1
<1> QED BY <1>2 DEF FullEnds

LEMMA RestartServes ==
    ASSUME NEW w, WorldInv(w)
    PROVE  WorldInv([w EXCEPT !.srv = bsmp_init, !.ends = FullEnds])
<1> DEFINE v == [w EXCEPT !.srv = bsmp_init, !.ends = FullEnds]
<1>1. w \in WorldType /\ bsmp_init \in ServerType
  BY ServerStarts DEF WorldInv, ServerInv
<1>2. v \in WorldType
  BY <1>1, FullEndsTyped DEF WorldType
<1>3. v.srv = bsmp_init
  BY <1>1 DEF WorldType
<1> HIDE DEF v
<1>4. WorldInv(v)
  BY <1>2, <1>3, WorldStarts
<1> QED BY <1>4 DEF v

----------------------------------------------------------------------------
(* The invariant is inductive.                                             *)

FirstCall == [op |-> "client_init", id |-> 0, arg |-> 0, bytes |-> <<>>, stage |-> "version", i |-> 0]

LEMMA FirstCallTyped ==
    /\ FirstCall \in CallType /\ FirstCall.op = "client_init" /\ FirstCall.stage = "version"
    /\ FirstCall.bytes \in Seq(Bit) /\ FirstCall # NoCall
<1>1. <<>> \in Seq(Nat) /\ <<>> \in Seq(Bit)
  OBVIOUS
<1>2. FirstCall \in CallType
  BY <1>1 DEF FirstCall, CallType, Stages
<1>3. /\ FirstCall.op = "client_init" /\ FirstCall.stage = "version" /\ FirstCall.bytes = <<>>
      /\ NoCall.op = "none"
  BY DEF FirstCall, NoCall
<1> QED BY <1>1, <1>2, <1>3

LEMMA NoListsTyped ==
    NoLists \in CliType /\ NoLists.vars = <<>> /\ NoLists.groups = <<>>
<1>1. /\ <<>> \in Seq(VarInfo) /\ <<>> \in Seq(GroupSeen) /\ <<>> \in Seq(CurveSeen)
      /\ <<>> \in Seq(FuncInfo)
  OBVIOUS
<1> QED BY <1>1 DEF NoLists, CliType

\* The invariant holds before the first call.
LEMMA InvInit == Init => ClientInv
<1> SUFFICES ASSUME Init PROVE ClientInv
  OBVIOUS
<1>1. InitMemory \in [0 .. 3 * NBlocks - 1 -> Block]
  <2>1. Zeros(BlockSize) \in Block
    BY ServerConstants, ZerosTyped DEF Block
  <2> QED BY <2>1 DEF InitMemory
<1>2. WorldInv(world)
  <2>1. bsmp_init \in ServerType
    BY ServerStarts DEF ServerInv
  <2> DEFINE c28 == [selected |-> 0, playing |-> FALSE, scope |-> FALSE]
  <2>2. c28 \in [selected : {0, 1}, playing : BOOLEAN, scope : BOOLEAN]
    OBVIOUS
  <2>3. world = [srv |-> bsmp_init, mem |-> InitMemory, ends |-> FullEnds, c28 |-> c28]
    BY DEF Init
  <2> HIDE DEF c28
  <2>4. world \in WorldType /\ world.srv = bsmp_init
    BY <1>1, <2>1, <2>2, <2>3, FullEndsTyped DEF WorldType
  <2> QED BY <2>4, WorldStarts
<1>3. cli \in CliType /\ cli.vars = <<>> /\ cli.groups = <<>>
  BY NoListsTyped DEF Init
<1>4. CallInv
  <2>1. call = FirstCall
    BY DEF Init, FirstCall
  <2> QED BY <2>1, FirstCallTyped DEF CallInv
<1>5. AnswerOK(wire)
  BY NoAnswers DEF Init
<1>6. ret.result \in Results
  BY DEF Init, NoReturn, Results
<1>7. stale \in BOOLEAN /\ calls \in 0 .. MaxCalls /\ faults \in 0 .. MaxFaults
  BY ClientAssumption DEF Init
<1>8. Len(<<>>) = 0 /\ Len(cli.vars) <= BSMP_MAX_VARIABLES /\ Len(cli.groups) <= BSMP_MAX_GROUPS
  BY <1>3, ServerConstants
<1> QED BY <1>2, <1>3, <1>4, <1>5, <1>6, <1>7, <1>8 DEF ClientInv

\* The user's bytes.
LEMMA SizedTyped ==
    ASSUME cli \in CliType, NEW c \in Calls
    PROVE  /\ Sized(c).bytes \in Seq(Nat)
           /\ c.op # "create_group" => Sized(c).bytes \in Seq(Bit)
<1>1. /\ c \in [op : DOMAIN Ops, id : Nat, arg : Nat, bytes : Seq(Nat)]
      /\ c.op # "create_group" => c.bytes \in Seq(Bit)
  BY ClientAssumption DEF Bit
<1>2. c.id \in Nat /\ c.bytes \in Seq(Nat)
  BY <1>1
<1>3. /\ cli.vars \in Seq(VarInfo) /\ cli.groups \in Seq(GroupSeen) /\ cli.funcs \in Seq(FuncInfo)
  BY DEF CliType
<1>4. ASSUME NEW T, NEW list \in Seq(T), Has(list, c.id) PROVE list[c.id + 1] \in T
  <2>1. c.id + 1 \in 1 .. Len(list)
    BY <1>2, <1>4 DEF Has
  <2> QED BY <2>1, ElementTyped
<1>5. /\ Has(cli.vars, c.id) => cli.vars[c.id + 1].size \in Nat
      /\ Has(cli.groups, c.id) => cli.groups[c.id + 1].size \in Nat
      /\ Has(cli.funcs, c.id) => cli.funcs[c.id + 1].input_size \in Nat
  <2>1. Has(cli.vars, c.id) => cli.vars[c.id + 1] \in VarInfo
    BY <1>3, <1>4
  <2>2. Has(cli.groups, c.id) => cli.groups[c.id + 1] \in GroupSeen
    BY <1>3, <1>4
  <2>3. Has(cli.funcs, c.id) => cli.funcs[c.id + 1] \in FuncInfo
    BY <1>3, <1>4
  <2> QED BY <2>1, <2>2, <2>3 DEF VarInfo, GroupSeen, FuncInfo
<1> DEFINE Bytes(n) == [i \in 1 .. n |-> IF i \in DOMAIN c.bytes THEN c.bytes[i] ELSE i % 2]
<1>6. \E n \in Nat : Sized(c) = [c EXCEPT !.bytes = Bytes(n)]
  <2>1. CASE c.op \in {"write_var", "write_read_vars", "bin_op_var"}
    <3> DEFINE n == IF Has(cli.vars, c.id) THEN cli.vars[c.id + 1].size ELSE 0
    <3>1. n \in Nat
      BY <1>5
    <3>2. Sized(c) = [c EXCEPT !.bytes = Bytes(n)]
      BY <1>1, <2>1 DEF Sized
    <3> QED BY <3>1, <3>2
  <2>2. CASE c.op \in {"write_group", "bin_op_group"}
    <3> DEFINE n == IF Has(cli.groups, c.id) THEN cli.groups[c.id + 1].size ELSE 0
    <3>1. n \in Nat
      BY <1>5
    <3>2. Sized(c) = [c EXCEPT !.bytes = Bytes(n)]
      BY <1>1, <2>2 DEF Sized
    <3> QED BY <3>1, <3>2
  <2>3. CASE c.op = "func_execute"
    <3> DEFINE n == IF Has(cli.funcs, c.id) THEN cli.funcs[c.id + 1].input_size ELSE 0
    <3>1. n \in Nat
      BY <1>5
    <3>2. Sized(c) = [c EXCEPT !.bytes = Bytes(n)]
      BY <1>1, <2>3 DEF Sized
    <3> QED BY <3>1, <3>2
  <2>4. CASE c.op \notin {"write_var", "write_read_vars", "bin_op_var", "write_group",
                          "bin_op_group", "func_execute"}
    <3>1. Len(c.bytes) \in Nat
      BY <1>2
    <3>2. Sized(c) = [c EXCEPT !.bytes = Bytes(Len(c.bytes))]
      BY <1>1, <2>4 DEF Sized
    <3> QED BY <3>1, <3>2
  <2> QED BY <2>1, <2>2, <2>3, <2>4
<1>7. PICK n \in Nat : Sized(c) = [c EXCEPT !.bytes = Bytes(n)]
  BY <1>6
<1>8. Sized(c).bytes = Bytes(n)
  <2> HIDE DEF Bytes
  <2> QED BY <1>1, <1>7
<1>9. ASSUME NEW T, 0 \in T, 1 \in T, c.bytes \in Seq(T) PROVE Bytes(n) \in Seq(T)
  <2>1. ASSUME NEW i \in 1 .. n
        PROVE  (IF i \in DOMAIN c.bytes THEN c.bytes[i] ELSE i % 2) \in T
    <3>1. i % 2 = 0 \/ i % 2 = 1
      OBVIOUS
    <3>2. i \in DOMAIN c.bytes => c.bytes[i] \in T
      BY <1>9
    <3> QED BY <1>9, <3>1, <3>2
  <2>2. Bytes(n) \in [1 .. n -> T]
    BY <2>1
  <2> HIDE DEF Bytes
  <2> QED BY <2>2, SeqOfLength
<1> HIDE DEF Bytes
<1>10. Bytes(n) \in Seq(Nat)
  BY <1>2, <1>9
<1>11. c.op # "create_group" => Bytes(n) \in Seq(Bit)
  BY <1>1, <1>9 DEF Bit
<1> QED BY <1>8, <1>10, <1>11

LEMMA Returns ==
    ASSUME NEW result \in Results, NEW out, Return(result, out)
    PROVE  call' = NoCall /\ CallInv' /\ ret'.result \in Results
<1>1. call' = NoCall /\ ret'.result = result
  BY DEF Return
<1> QED BY <1>1 DEF CallInv

LEMMA ListReturns ==
    ASSUME ListFails
    PROVE  call' = NoCall /\ CallInv' /\ ret'.result \in Results
<1>1. "ERR_COMM" \in Results /\ "SUCCESS" \in Results
  BY DEF Results
<1>2. Return("ERR_COMM", <<>>) \/ Return("SUCCESS", <<>>)
  BY DEF ListFails
<1> QED BY <1>1, <1>2, Returns

\* The call at another stage of its own work.
At(c, stage, i) == [c EXCEPT !.stage = stage, !.i = i]

LEMMA AtTyped ==
    ASSUME NEW c \in CallType, NEW stage \in Stages, NEW i \in Nat
    PROVE  /\ At(c, stage, i) \in CallType /\ At(c, stage, i).op = c.op
           /\ At(c, stage, i).bytes = c.bytes /\ At(c, stage, i).stage = stage
           /\ At(c, stage, i).i = i /\ At(c, stage, i) # NoCall
           /\ At(c, stage, i).id = c.id /\ At(c, stage, i).arg = c.arg
<1>1. At(c, stage, i) \in CallType
  BY DEF At, CallType
<1>2. /\ At(c, stage, i).op = c.op /\ At(c, stage, i).bytes = c.bytes
      /\ At(c, stage, i).stage = stage /\ At(c, stage, i).i = i
      /\ At(c, stage, i).id = c.id /\ At(c, stage, i).arg = c.arg
  BY DEF At, CallType
<1>3. NoCall.op = "none" /\ c.op # "none"
  BY DEF NoCall, CallType, OpNames
<1> QED BY <1>1, <1>2, <1>3

LEMMA Goes ==
    ASSUME CallInv, call # NoCall, NEW stage \in Stages \ {"op"}, NEW i \in Nat, GoTo(stage, i),
           stage = "group" => i < Len(cli'.groups), stage = "csum" => i < Len(cli'.curves)
    PROVE  /\ CallInv' /\ ret' = ret /\ call' = At(call, stage, i) /\ call' # NoCall
           /\ call'.stage = stage /\ call'.op = call.op /\ call'.i = i
<1>1. call \in CallType /\ call' = At(call, stage, i) /\ ret' = ret
  BY DEF CallInv, GoTo, At
<1>2. /\ call' \in CallType /\ call'.op = call.op /\ call'.bytes = call.bytes
      /\ call'.stage = stage /\ call'.i = i /\ call' # NoCall
  BY <1>1, AtTyped
<1>3. call'.op \notin {"create_group", "read_curve"} => call'.bytes \in Seq(Bit)
  BY <1>2 DEF CallInv
<1> QED BY <1>1, <1>2, <1>3 DEF CallInv

\* The client's half of the invariant.
ListsInv ==
    /\ cli \in CliType /\ Len(cli.vars) <= BSMP_MAX_VARIABLES /\ Len(cli.groups) <= BSMP_MAX_GROUPS

LEMMA TakesInv ==
    ASSUME ClientInv, wire' = Nothing, UNCHANGED <<world, calls, faults>>, ListsInv', CallInv',
           ret'.result \in Results, stale' \in BOOLEAN
    PROVE  ClientInv'
<1>1. AnswerOK(wire')
  BY NoAnswers
<1>2. AnswerOK(wire)'
  BY <1>1 DEF AnswerOK, VarBytes
<1>3. WorldInv(world)'
  BY DEF ClientInv, WorldInv, Content
<1>4. calls' \in 0 .. MaxCalls /\ faults' \in 0 .. MaxFaults
  BY DEF ClientInv
<1> QED BY <1>2, <1>3, <1>4 DEF ClientInv, ListsInv

LEMMA SameLists ==
    ASSUME ClientInv, cli' = cli
    PROVE  ListsInv'
BY DEF ClientInv, ListsInv

LEMMA VersionInv ==
    ASSUME ClientInv, get_version
    PROVE  ClientInv'
<1>1. /\ wire' = Nothing /\ UNCHANGED <<world, cli, stale, calls, faults>> /\ call # NoCall
      /\ Return("ERR_COMM", <<>>) \/ GoTo("vars", 0)
  BY DEF get_version, Got
<1>2. "ERR_COMM" \in Results /\ "vars" \in Stages \ {"op"} /\ 0 \in Nat
  BY DEF Results, Stages
<1>3. CallInv' /\ ret'.result \in Results
  <2>1. CASE Return("ERR_COMM", <<>>)
    BY <1>2, <2>1, Returns
  <2>2. CASE GoTo("vars", 0)
    <3>1. CallInv /\ ret.result \in Results
      BY DEF ClientInv
    <3>2. CallInv' /\ ret' = ret
      BY <1>1, <1>2, <2>2, <3>1, Goes
    <3> QED BY <3>1, <3>2
  <2> QED BY <1>1, <2>1, <2>2
<1>4. ListsInv' /\ stale' \in BOOLEAN
  BY <1>1, SameLists DEF ClientInv
<1> QED BY <1>1, <1>3, <1>4, TakesInv

\* The client's list of variables, from the server's bytes.
ListedVars(bytes) == [k \in DOMAIN bytes |->
    [writable |-> bytes[k] >= 128, size |-> ReadSize(bytes[k])]]

LEMMA VarBytesTyped ==
    VarBytes \in Seq(Nat) /\ Len(VarBytes) = Len(bsmp_init.vars)
<1>1. bsmp_init.vars \in Seq(VarInfo)
  BY ServerStarts DEF ServerInv, ServerType
<1>2. DOMAIN bsmp_init.vars = 1 .. Len(bsmp_init.vars) /\ Len(bsmp_init.vars) \in Nat
  BY <1>1
<1>3. ASSUME NEW k \in 1 .. Len(bsmp_init.vars)
      PROVE  SIZE_MASK(bsmp_init.vars[k].size) + WRITABLE(bsmp_init.vars[k].writable) \in Nat
  <2>1. bsmp_init.vars[k] \in VarInfo
    BY <1>1, <1>3, ElementTyped
  <2>2. bsmp_init.vars[k].size \in Nat
    BY <2>1 DEF VarInfo
  <2>3. WRITABLE(bsmp_init.vars[k].writable) \in Nat
    BY DEF WRITABLE
  <2>4. SIZE_MASK(bsmp_init.vars[k].size) \in Nat
    BY <2>2 DEF SIZE_MASK
  <2> QED BY <2>3, <2>4
<1>4. VarBytes \in [1 .. Len(bsmp_init.vars) -> Nat]
  BY <1>2, <1>3 DEF VarBytes
<1> QED BY <1>2, <1>4, SeqOfLength

LEMMA ReadSizeTyped ==
    ASSUME NEW byte \in Nat
    PROVE  ReadSize(byte) \in Nat
BY DEF ReadSize, BSMP_VAR_MAX_SIZE

LEMMA ListedVarsTyped ==
    ASSUME NEW bytes \in Seq(Nat)
    PROVE  ListedVars(bytes) \in Seq(VarInfo) /\ Len(ListedVars(bytes)) = Len(bytes)
<1>1. DOMAIN bytes = 1 .. Len(bytes) /\ Len(bytes) \in Nat
  OBVIOUS
<1>2. ASSUME NEW k \in 1 .. Len(bytes)
      PROVE  [writable |-> bytes[k] >= 128, size |-> ReadSize(bytes[k])] \in VarInfo
  <2>1. ReadSize(bytes[k]) \in Nat
    BY <1>2, ReadSizeTyped, SMTT(60)
  <2>2. (bytes[k] >= 128) \in BOOLEAN
    OBVIOUS
  <2> QED BY <2>1, <2>2, Zenon DEF VarInfo
<1>3. ListedVars(bytes) \in [1 .. Len(bytes) -> VarInfo]
  BY <1>1, <1>2 DEF ListedVars
<1> QED BY <1>1, <1>3, SeqOfLength

LEMMA VarsInv ==
    ASSUME ClientInv, update_vars_list
    PROVE  ClientInv'
<1>1. /\ wire' = Nothing /\ UNCHANGED <<world, stale, calls, faults>> /\ call # NoCall
  BY DEF update_vars_list, Got
<1>2. stale' \in BOOLEAN
  BY <1>1 DEF ClientInv
<1>3. "ERR_COMM" \in Results /\ "groups" \in Stages \ {"op"} /\ 0 \in Nat
  BY DEF Results, Stages
<1>4. CASE wire.code # "VAR_LIST"
  <2>1. Return("ERR_COMM", <<>>) /\ cli' = cli
    BY <1>4 DEF update_vars_list
  <2>2. CallInv' /\ ret'.result \in Results
    BY <1>3, <2>1, Returns
  <2> QED BY <1>1, <1>2, <2>1, <2>2, SameLists, TakesInv
<1>5. CASE wire.code = "VAR_LIST"
  <2>1. cli' = [cli EXCEPT !.vars = ListedVars(wire.payload)] /\ GoTo("groups", 0)
    BY <1>5 DEF update_vars_list, ListedVars
  <2>2. wire.payload = VarBytes
    BY <1>5 DEF ClientInv, AnswerOK
  <2>3. ListedVars(wire.payload) \in Seq(VarInfo) /\ Len(ListedVars(wire.payload)) <= BSMP_MAX_VARIABLES
    BY <2>2, VarBytesTyped, ListedVarsTyped, ServerStarts
  <2>4. cli' \in CliType /\ cli'.vars = ListedVars(wire.payload) /\ cli'.groups = cli.groups
    BY <2>1, <2>3 DEF ClientInv, CliType
  <2>5. ListsInv'
    BY <2>3, <2>4 DEF ClientInv, ListsInv
  <2>6. CallInv /\ ret.result \in Results
    BY DEF ClientInv
  <2>7. CallInv' /\ ret' = ret
    BY <1>1, <1>3, <2>1, <2>6, Goes
  <2> QED BY <1>1, <1>2, <2>5, <2>6, <2>7, TakesInv
<1> QED BY <1>4, <1>5

LEMMA GroupsReadInv ==
    ASSUME CallInv, call # NoCall, GroupsRead, ret.result \in Results
    PROVE  CallInv' /\ ret'.result \in Results
<1>1. GoTo("curves", 0) \/ Return("SUCCESS", <<>>)
  BY DEF GroupsRead
<1>2. "SUCCESS" \in Results /\ "curves" \in Stages \ {"op"} /\ 0 \in Nat
  BY DEF Results, Stages
<1>3. CASE GoTo("curves", 0)
  BY <1>2, <1>3, Goes
<1>4. CASE Return("SUCCESS", <<>>)
  BY <1>2, <1>4, Returns
<1> QED BY <1>1, <1>3, <1>4

LEMMA CurvesReadInv ==
    ASSUME CallInv, call # NoCall, CurvesRead, ret.result \in Results
    PROVE  CallInv' /\ ret'.result \in Results
<1>1. GoTo("funcs", 0) \/ Return("SUCCESS", <<>>)
  BY DEF CurvesRead
<1>2. "SUCCESS" \in Results /\ "funcs" \in Stages \ {"op"} /\ 0 \in Nat
  BY DEF Results, Stages
<1>3. CASE GoTo("funcs", 0)
  BY <1>2, <1>3, Goes
<1>4. CASE Return("SUCCESS", <<>>)
  BY <1>2, <1>4, Returns
<1> QED BY <1>1, <1>3, <1>4

\* The groups of the first answer, without their variables.
ListedGroups(bytes) == [k \in DOMAIN bytes |->
    [writable |-> bytes[k] >= 128, count |-> SIZE_MASK(bytes[k]), size |-> 0, vars |-> <<>>]]

LEMMA ListedGroupsTyped ==
    ASSUME NEW bytes \in Seq(Nat)
    PROVE  ListedGroups(bytes) \in Seq(GroupSeen) /\ Len(ListedGroups(bytes)) = Len(bytes)
<1>1. DOMAIN bytes = 1 .. Len(bytes) /\ Len(bytes) \in Nat
  OBVIOUS
<1>2. ASSUME NEW k \in 1 .. Len(bytes)
      PROVE  [writable |-> bytes[k] >= 128, count |-> SIZE_MASK(bytes[k]), size |-> 0, vars |-> <<>>]
               \in GroupSeen
  <2>1. SIZE_MASK(bytes[k]) \in Nat /\ 0 \in Nat /\ <<>> \in Seq(Nat)
    BY <1>2 DEF SIZE_MASK
  <2>2. (bytes[k] >= 128) \in BOOLEAN
    OBVIOUS
  <2> QED BY <2>1, <2>2, Zenon DEF GroupSeen
<1>3. ListedGroups(bytes) \in [1 .. Len(bytes) -> GroupSeen]
  BY <1>1, <1>2 DEF ListedGroups
<1> QED BY <1>1, <1>3, SeqOfLength

\* The list of groups is taken from an answer; the loop over them starts.
LEMMA GroupsInv ==
    ASSUME ClientInv, update_groups_list
    PROVE  ClientInv'
<1>1. /\ wire' = Nothing /\ UNCHANGED <<world, calls, faults>> /\ call # NoCall
  BY DEF update_groups_list, Got
<1>2. CallInv /\ ret.result \in Results /\ stale \in BOOLEAN
  BY DEF ClientInv
<1>3. "group" \in Stages \ {"op"} /\ 0 \in Nat
  BY DEF Stages
<1>4. CASE wire.code # "GROUP_LIST"
  <2>1. ListFails /\ cli' = cli /\ stale' = TRUE
    BY <1>4 DEF update_groups_list
  <2> QED BY <1>1, <2>1, ListReturns, SameLists, TakesInv
<1>5. CASE wire.code = "GROUP_LIST"
  <2>1. /\ cli' = [cli EXCEPT !.groups = ListedGroups(wire.payload)] /\ stale' = stale
        /\ IF wire.payload = <<>> THEN GroupsRead ELSE GoTo("group", 0)
    BY <1>5 DEF update_groups_list, ListedGroups
  <2>2. wire.payload \in Seq(Nat) /\ Len(wire.payload) <= BSMP_MAX_GROUPS
    BY <1>5 DEF ClientInv, AnswerOK
  <2>3. ListedGroups(wire.payload) \in Seq(GroupSeen) /\ Len(ListedGroups(wire.payload)) = Len(wire.payload)
    BY <2>2, ListedGroupsTyped
  <2>4. cli' \in CliType /\ cli'.vars = cli.vars /\ cli'.groups = ListedGroups(wire.payload)
    BY <2>1, <2>3 DEF ClientInv, CliType
  <2>5. ListsInv'
    BY <2>2, <2>3, <2>4 DEF ClientInv, ListsInv
  <2>6. CallInv' /\ ret'.result \in Results
    <3>1. CASE wire.payload = <<>>
      BY <1>1, <1>2, <2>1, <3>1, GroupsReadInv
    <3>2. CASE wire.payload # <<>>
      <4>1. 0 < Len(cli'.groups)
        BY <2>2, <2>3, <2>4, <3>2
      <4>2. GoTo("group", 0)
        BY <2>1, <3>2
      <4>3. "group" # "csum"
        OBVIOUS
      <4> QED BY <1>1, <1>2, <1>3, <4>1, <4>2, <4>3, Goes
    <3> QED BY <3>1, <3>2
  <2> QED BY <1>1, <1>2, <2>1, <2>5, <2>6, TakesInv
<1> QED BY <1>4, <1>5

\* A group of the client's list once its variables are read.
Read(grp, ids, size) == [grp EXCEPT !.vars = ids, !.size = size]

LEMMA GroupSeenSame ==
    ASSUME NEW a \in GroupSeen, NEW b \in GroupSeen, a.writable = b.writable, a.count = b.count,
           a.size = b.size, a.vars = b.vars
    PROVE  a = b
BY DEF GroupSeen

LEMMA ReadTyped ==
    ASSUME NEW grp \in GroupSeen, NEW ids \in Seq(Nat), NEW size \in Nat
    PROVE  /\ Read(grp, ids, size) \in GroupSeen
           /\ Read(grp, ids, size).writable = grp.writable
           /\ Read(grp, ids, size).count = grp.count
           /\ Read(grp, ids, size).size = size /\ Read(grp, ids, size).vars = ids
<1>1. Read(grp, ids, size) \in GroupSeen
  BY DEF Read, GroupSeen
<1>2. /\ Read(grp, ids, size).writable = grp.writable /\ Read(grp, ids, size).count = grp.count
      /\ Read(grp, ids, size).size = size /\ Read(grp, ids, size).vars = ids
  BY DEF Read, GroupSeen
<1> QED BY <1>1, <1>2

LEMMA QueryGroupReads ==
    ASSUME ClientInv, QueryGroup, wire.code = "GROUP"
    PROVE  LET size == SizesOf(cli.vars, wire.payload)
               grp == cli.groups[call.i + 1]
           IN  /\ size \in Nat /\ wire.payload \in Seq(Nat) /\ grp \in GroupSeen
               /\ call.i \in Nat /\ call.i + 1 \in 1 .. Len(cli.groups)
               /\ cli' \in CliType /\ cli'.vars = cli.vars /\ cli'.curves = cli.curves
               /\ cli'.groups = [cli.groups EXCEPT ![call.i + 1] = Read(grp, wire.payload, size)]
               /\ Len(cli'.groups) = Len(cli.groups)
<1> DEFINE size == SizesOf(cli.vars, wire.payload)
           i == call.i + 1
           grp == cli.groups[i]
           new == Read(grp, wire.payload, size)
<1>1. /\ cli \in CliType /\ cli.groups \in Seq(GroupSeen) /\ cli.vars \in Seq(VarInfo)
      /\ call.i \in Nat /\ call.i < Len(cli.groups)
  BY DEF ClientInv, QueryGroup, Got, CallInv, CallType, CliType
<1>2. wire.payload \in Seq(Nat)
  BY DEF ClientInv, AnswerOK
<1>3. size \in Nat
  BY <1>1, <1>2, SizesNat
<1>4. i \in 1 .. Len(cli.groups)
  BY <1>1
<1>5. grp \in GroupSeen
  BY <1>1, <1>4, ElementTyped
<1>6. cli' = [cli EXCEPT !.groups[i].vars = wire.payload, !.groups[i].size = size]
  BY DEF QueryGroup
<1> HIDE DEF size, i
<1>7. new \in GroupSeen
  BY <1>2, <1>3, <1>5, ReadTyped
<1>8. cli' = [cli EXCEPT !.groups = [cli.groups EXCEPT ![i] = new]]
  BY <1>1, <1>4, <1>5, <1>6 DEF CliType, Read
<1> HIDE DEF new
<1>9. [cli.groups EXCEPT ![i] = new] \in Seq(GroupSeen) /\ Len([cli.groups EXCEPT ![i] = new]) = Len(cli.groups)
  BY <1>1, <1>4, <1>7
<1>10. /\ cli' \in CliType /\ cli'.vars = cli.vars /\ cli'.curves = cli.curves
       /\ cli'.groups = [cli.groups EXCEPT ![i] = new]
  BY <1>1, <1>8, <1>9 DEF CliType
<1> QED BY <1>1, <1>2, <1>3, <1>4, <1>5, <1>9, <1>10 DEF new, size, i

\* One turn of that loop.
LEMMA QueryGroupInv ==
    ASSUME ClientInv, QueryGroup
    PROVE  ClientInv'
<1>1. /\ wire' = Nothing /\ UNCHANGED <<world, calls, faults>> /\ call # NoCall
  BY DEF QueryGroup, Got
<1>2. CallInv /\ ret.result \in Results /\ stale \in BOOLEAN /\ cli \in CliType
  BY DEF ClientInv
<1>3. "group" \in Stages \ {"op"} /\ 0 \in Nat
  BY DEF Stages
<1>4. CASE wire.code # "GROUP"
  <2>1. ListFails /\ cli' = [cli EXCEPT !.groups = <<>>] /\ stale' = TRUE
    BY <1>4 DEF QueryGroup
  <2>2. <<>> \in Seq(GroupSeen) /\ Len(<<>>) = 0
    OBVIOUS
  <2>3. cli' \in CliType /\ cli'.vars = cli.vars /\ cli'.groups = <<>>
    BY <1>2, <2>1, <2>2 DEF CliType
  <2>4. ListsInv'
    BY <2>2, <2>3, ServerConstants DEF ListsInv, ClientInv
  <2> QED BY <1>1, <2>1, <2>4, ListReturns, TakesInv
<1>5. CASE wire.code = "GROUP"
  <2>1. /\ stale' = stale
        /\ IF call.i + 1 < Len(cli.groups) THEN GoTo("group", call.i + 1) ELSE GroupsRead
    BY <1>5 DEF QueryGroup
  <2>2. /\ call.i \in Nat /\ cli' \in CliType /\ cli'.vars = cli.vars
        /\ Len(cli'.groups) = Len(cli.groups)
    BY <1>5, QueryGroupReads
  <2>3. ListsInv'
    BY <2>2 DEF ListsInv, ClientInv
  <2>4. CallInv' /\ ret'.result \in Results
    <3>1. CASE call.i + 1 < Len(cli.groups)
      <4>1. GoTo("group", call.i + 1) /\ call.i + 1 \in Nat /\ "group" # "csum"
        BY <2>1, <2>2, <3>1
      <4> QED BY <1>1, <1>2, <1>3, <2>2, <3>1, <4>1, Goes
    <3>2. CASE ~(call.i + 1 < Len(cli.groups))
      BY <1>1, <1>2, <2>1, <3>2, GroupsReadInv
    <3> QED BY <3>1, <3>2
  <2> QED BY <1>1, <1>2, <2>1, <2>3, <2>4, TakesInv
<1> QED BY <1>4, <1>5

LEMMA ReadCurveTyped ==
    ASSUME NEW p \in Seq(Nat), NEW k \in 1 .. (Len(p) \div 5)
    PROVE  ReadCurve(p, k) \in CurveSeen
<1>1. Len(p) \in Nat /\ k \in Nat /\ k >= 1 /\ 5 * k <= Len(p)
  OBVIOUS
<1>2. ASSUME NEW j \in 1 .. 5 PROVE p[BSMP_CURVE_LIST_INFO * (k - 1) + j] \in Nat
  <2>1. BSMP_CURVE_LIST_INFO * (k - 1) + j \in 1 .. Len(p)
    BY <1>1, <1>2 DEF BSMP_CURVE_LIST_INFO
  <2> HIDE DEF BSMP_CURVE_LIST_INFO
  <2> QED BY <2>1, ElementTyped
<1> DEFINE at(j) == p[BSMP_CURVE_LIST_INFO * (k - 1) + j]
<1>3. at(2) \in Nat /\ at(3) \in Nat /\ at(4) \in Nat /\ at(5) \in Nat
  BY <1>2
<1>4. ReadCurve(p, k) =
        [writable |-> at(1) = 1, block_size |-> 256 * at(2) + at(3),
         nblocks |-> ReadBlocks(256 * at(4) + at(5)), checksum |-> Cleared]
  BY DEF ReadCurve
<1> HIDE DEF at
<1>5. 256 * at(2) + at(3) \in Nat /\ ReadBlocks(256 * at(4) + at(5)) \in Nat
  BY <1>3, SMTT(60) DEF ReadBlocks, BSMP_CURVE_MAX_BLOCKS
<1>6. (at(1) = 1) \in BOOLEAN /\ Cleared \in Sums
  BY DEF Sums
<1> DEFINE w == at(1) = 1
           b == 256 * at(2) + at(3)
           n == ReadBlocks(256 * at(4) + at(5))
<1>7. w \in BOOLEAN /\ b \in Nat /\ n \in Nat /\ Cleared \in Sums
  BY <1>5, <1>6
<1>8. ReadCurve(p, k) = [writable |-> w, block_size |-> b, nblocks |-> n, checksum |-> Cleared]
  BY <1>4
<1> HIDE DEF w, b, n
<1> QED BY <1>7, <1>8 DEF CurveSeen

LEMMA CurvesInv ==
    ASSUME ClientInv, update_curves_list
    PROVE  ClientInv'
<1>1. /\ wire' = Nothing /\ UNCHANGED <<world, stale, calls, faults>> /\ call # NoCall
  BY DEF update_curves_list, Got
<1>2. CallInv /\ ret.result \in Results /\ stale' \in BOOLEAN /\ cli \in CliType
  BY <1>1 DEF ClientInv
<1>3. "csum" \in Stages \ {"op"} /\ 0 \in Nat
  BY DEF Stages
<1>4. CASE wire.code # "CURVE_LIST"
  <2>1. ListFails /\ cli' = cli
    BY <1>4 DEF update_curves_list
  <2> QED BY <1>1, <1>2, <2>1, ListReturns, SameLists, TakesInv
<1>5. CASE wire.code = "CURVE_LIST"
  <2> DEFINE count == wire.size \div BSMP_CURVE_LIST_INFO
             list == [k \in 1 .. count |-> ReadCurve(wire.payload, k)]
  <2>1. cli' = [cli EXCEPT !.curves = list] /\ (IF count = 0 THEN CurvesRead ELSE GoTo("csum", 0))
    BY <1>5 DEF update_curves_list
  <2>2. wire.payload \in Seq(Nat) /\ wire.size = Len(wire.payload)
    BY <1>5 DEF ClientInv, AnswerOK
  <2>3. count \in Nat /\ count = Len(wire.payload) \div 5
    <3>1. Len(wire.payload) \in Nat /\ BSMP_CURVE_LIST_INFO = 5
      BY <2>2 DEF BSMP_CURVE_LIST_INFO
    <3>2. \A m \in Nat : m \div 5 \in Nat
      OBVIOUS
    <3> QED BY <2>2, <3>1, <3>2
  <2> HIDE DEF count
  <2>4. \A k \in 1 .. count : ReadCurve(wire.payload, k) \in CurveSeen
    BY <2>2, <2>3, ReadCurveTyped
  <2>5. list \in [1 .. count -> CurveSeen]
    BY <2>4
  <2>6. list \in Seq(CurveSeen) /\ Len(list) = count
    <3> HIDE DEF list
    <3> QED BY <2>3, <2>5, SeqOfLength, ZenonT(60)
  <2> HIDE DEF list
  <2>7. cli' \in CliType /\ cli'.vars = cli.vars /\ cli'.groups = cli.groups /\ cli'.curves = list
    BY <1>2, <2>1, <2>6 DEF CliType
  <2>8. ListsInv'
    BY <2>7 DEF ListsInv, ClientInv
  <2>9. CallInv' /\ ret'.result \in Results
    <3>1. CASE count = 0
      BY <1>1, <1>2, <2>1, <3>1, CurvesReadInv
    <3>2. CASE count # 0
      <4>1. 0 < Len(cli'.curves) /\ "csum" # "group" /\ GoTo("csum", 0)
        <5>1. GoTo("csum", 0)
          BY <2>1, <3>2
        <5>2. 0 < count
          <6>1. count \in Nat
            BY <2>3
          <6> QED BY <3>2, <6>1
        <5> QED BY <2>6, <2>7, <5>1, <5>2
      <4> QED BY <1>1, <1>2, <1>3, <4>1, Goes
    <3> QED BY <3>1, <3>2
  <2> QED BY <1>1, <1>2, <2>8, <2>9, TakesInv
<1> QED BY <1>4, <1>5

LEMMA ChecksumInv ==
    ASSUME ClientInv, QueryChecksum
    PROVE  ClientInv'
<1>1. /\ wire' = Nothing /\ UNCHANGED <<world, stale, calls, faults>> /\ call # NoCall
      /\ IF call.i + 1 < Len(cli.curves) THEN GoTo("csum", call.i + 1) ELSE CurvesRead
      /\ cli' = IF wire.code # "CURVE_CSUM" THEN cli
                ELSE [cli EXCEPT !.curves[call.i + 1].checksum = wire.payload[1]]
  BY DEF QueryChecksum, Got
<1>2. CallInv /\ ret.result \in Results /\ stale' \in BOOLEAN /\ cli \in CliType
  BY <1>1 DEF ClientInv
<1>3. call.i \in Nat /\ call.i < Len(cli.curves)
  BY DEF ClientInv, QueryChecksum, Got, CallInv, CallType
<1>4. "csum" \in Stages \ {"op"} /\ 0 \in Nat
  BY DEF Stages
<1>5. cli' \in CliType /\ cli'.vars = cli.vars /\ cli'.groups = cli.groups /\ Len(cli'.curves) = Len(cli.curves)
  <2>1. CASE wire.code # "CURVE_CSUM"
    BY <1>1, <1>2, <2>1
  <2>2. CASE wire.code = "CURVE_CSUM"
    <3> DEFINE sum == wire.payload[1]
               i == call.i + 1
               curve == cli.curves[i]
               new == [curve EXCEPT !.checksum = sum]
    <3>1. sum \in Sums
      BY <2>2 DEF ClientInv, AnswerOK
    <3>2. cli.curves \in Seq(CurveSeen) /\ i \in 1 .. Len(cli.curves)
      BY <1>2, <1>3 DEF CliType
    <3>3. cli' = [cli EXCEPT !.curves[i].checksum = sum]
      BY <1>1, <2>2
    <3> HIDE DEF sum, i
    <3>4. curve \in CurveSeen
      BY <3>2, ElementTyped
    <3>5. new \in CurveSeen
      BY <3>1, <3>4 DEF CurveSeen
    <3>6. cli' = [cli EXCEPT !.curves = [cli.curves EXCEPT ![i] = new]]
      BY <1>2, <3>2, <3>3, <3>4 DEF CliType
    <3> HIDE DEF new
    <3>7. [cli.curves EXCEPT ![i] = new] \in Seq(CurveSeen) /\ Len([cli.curves EXCEPT ![i] = new]) = Len(cli.curves)
      BY <3>2, <3>5
    <3>8. /\ cli' \in CliType /\ cli'.vars = cli.vars /\ cli'.groups = cli.groups
          /\ cli'.curves = [cli.curves EXCEPT ![i] = new]
      BY <1>2, <3>6, <3>7 DEF CliType
    <3> QED BY <3>7, <3>8
  <2> QED BY <2>1, <2>2
<1>6. ListsInv'
  BY <1>5 DEF ListsInv, ClientInv
<1>7. CallInv' /\ ret'.result \in Results
  <2>1. CASE call.i + 1 < Len(cli.curves)
    <3>1. GoTo("csum", call.i + 1) /\ call.i + 1 \in Nat /\ "csum" # "group" /\ call.i + 1 < Len(cli'.curves)
      BY <1>1, <1>3, <1>5, <2>1
    <3> QED BY <1>1, <1>2, <1>4, <3>1, Goes
  <2>2. CASE ~(call.i + 1 < Len(cli.curves))
    BY <1>1, <1>2, <2>2, CurvesReadInv
  <2> QED BY <2>1, <2>2
<1> QED BY <1>1, <1>2, <1>6, <1>7, TakesInv

ListedFuncs(bytes) == [k \in DOMAIN bytes |->
    [input_size |-> bytes[k] \div 16, output_size |-> bytes[k] % 16]]

LEMMA ListedFuncsTyped ==
    ASSUME NEW bytes \in Seq(Nat)
    PROVE  ListedFuncs(bytes) \in Seq(FuncInfo)
<1>1. DOMAIN bytes = 1 .. Len(bytes) /\ Len(bytes) \in Nat
  OBVIOUS
<1>2. ASSUME NEW k \in 1 .. Len(bytes)
      PROVE  [input_size |-> bytes[k] \div 16, output_size |-> bytes[k] % 16] \in FuncInfo
  <2>1. \A m \in Nat : m \div 16 \in Nat /\ m % 16 \in Nat
    OBVIOUS
  <2>2. bytes[k] \in Nat
    BY <1>2, ElementTyped
  <2> QED BY <2>1, <2>2, Zenon DEF FuncInfo
<1>3. ListedFuncs(bytes) \in [1 .. Len(bytes) -> FuncInfo]
  BY <1>1, <1>2 DEF ListedFuncs
<1> QED BY <1>1, <1>3, SeqOfLength

LEMMA FuncsInv ==
    ASSUME ClientInv, update_funcs_list
    PROVE  ClientInv'
<1>1. /\ wire' = Nothing /\ UNCHANGED <<world, stale, calls, faults>> /\ call # NoCall
  BY DEF update_funcs_list, Got
<1>2. stale' \in BOOLEAN /\ cli \in CliType
  BY <1>1 DEF ClientInv
<1>3. "ERR_COMM" \in Results /\ "SUCCESS" \in Results
  BY DEF Results
<1>4. CASE wire.code # "FUNC_LIST"
  <2>1. Return("ERR_COMM", <<>>) /\ cli' = cli
    BY <1>4 DEF update_funcs_list
  <2> QED BY <1>1, <1>2, <1>3, <2>1, Returns, SameLists, TakesInv
<1>5. CASE wire.code = "FUNC_LIST"
  <2>1. cli' = [cli EXCEPT !.funcs = ListedFuncs(wire.payload)] /\ Return("SUCCESS", <<>>)
    BY <1>5 DEF update_funcs_list, ListedFuncs
  <2>2. wire.payload \in Seq(Nat)
    BY <1>5 DEF ClientInv, AnswerOK
  <2>3. ListedFuncs(wire.payload) \in Seq(FuncInfo)
    BY <2>2, ListedFuncsTyped
  <2>4. cli' \in CliType /\ cli'.vars = cli.vars /\ cli'.groups = cli.groups
    BY <1>2, <2>1, <2>3 DEF CliType
  <2>5. ListsInv'
    BY <2>4 DEF ListsInv, ClientInv
  <2> QED BY <1>1, <1>2, <1>3, <2>1, <2>5, Returns, TakesInv
<1> QED BY <1>4, <1>5

\* The lists a call reads again.
LEMMA OpsUpdates ==
    /\ \A op \in OpNames : Ops[op].update \in {"none", "groups", "curves"}
    /\ \A op \in OpNames :
          Ops[op].update = "groups" <=> op \in {"create_group", "remove_all_groups"}
    /\ Ops["create_group"].answer = {"OK"} /\ Ops["remove_all_groups"].answer = {"OK"}
    /\ Ops["read_curve"].answer = {"CURVE_BLOCK"}
<1>1. /\ Ops["read_var"].update = "none" /\ Ops["write_var"].update = "none"
      /\ Ops["write_read_vars"].update = "none" /\ Ops["bin_op_var"].update = "none"
      /\ Ops["read_group"].update = "none" /\ Ops["write_group"].update = "none"
      /\ Ops["bin_op_group"].update = "none" /\ Ops["create_group"].update = "groups"
      /\ Ops["remove_all_groups"].update = "groups" /\ Ops["request_curve_block"].update = "none"
      /\ Ops["read_curve"].update = "none" /\ Ops["send_curve_block"].update = "none"
      /\ Ops["write_curve"].update = "none" /\ Ops["recalc_checksum"].update = "curves"
      /\ Ops["func_execute"].update = "none"
  BY DEF Ops, Op
<1>2. /\ Ops["create_group"].answer = {"OK"} /\ Ops["remove_all_groups"].answer = {"OK"}
      /\ Ops["read_curve"].answer = {"CURVE_BLOCK"}
  BY DEF Ops, Op
<1>3. \A op \in OpNames : Ops[op].update \in {"none", "groups", "curves"}
  BY <1>1 DEF OpNames
<1>4. \A op \in OpNames : Ops[op].update = "groups" <=> op \in {"create_group", "remove_all_groups"}
  BY <1>1 DEF OpNames
<1> QED BY <1>2, <1>3, <1>4

\* The answer to the operation itself.
LEMMA AnsweredInv ==
    ASSUME ClientInv, Answered
    PROVE  ClientInv'
<1>1. /\ wire' = Nothing /\ UNCHANGED <<world, cli, stale, calls, faults>> /\ call # NoCall
      /\ call.stage = "op"
  BY DEF Answered, Got
<1>2. CallInv /\ ret.result \in Results /\ stale' \in BOOLEAN
  BY <1>1 DEF ClientInv
<1>3. call.op \in OpNames
  BY <1>1, <1>2 DEF CallInv
<1>4. "ERR_COMM" \in Results /\ "SUCCESS" \in Results /\ 0 \in Nat
  BY DEF Results
<1> DEFINE update == Ops[call.op].update
<1>5. update \in {"none", "groups", "curves"}
  BY <1>3, OpsUpdates
<1>6. \/ Return("ERR_COMM", <<>>) \/ Return("SUCCESS", Out(wire))
      \/ update # "none" /\ GoTo(update, 0)
  BY DEF Answered
<1> HIDE DEF update
<1>7. CallInv' /\ ret'.result \in Results
  <2>1. CASE Return("ERR_COMM", <<>>)
    BY <1>4, <2>1, Returns
  <2>2. CASE Return("SUCCESS", Out(wire))
    BY <1>4, <2>2, Returns
  <2>3. CASE update # "none" /\ GoTo(update, 0)
    <3>1. update \in Stages \ {"op"} /\ update # "group" /\ update # "csum"
      BY <1>5, <2>3 DEF Stages
    <3> QED BY <1>1, <1>2, <1>4, <2>3, <3>1, Goes
  <2> QED BY <1>6, <2>1, <2>2, <2>3
<1> QED BY <1>1, <1>2, <1>7, SameLists, TakesInv

\* The next block of a curve.
LEMMA NextBlockInv ==
    ASSUME ClientInv, NextBlock
    PROVE  ClientInv'
<1> DEFINE bytes == IF call.op = "read_curve" THEN call.bytes \o Out(wire) ELSE call.bytes
           c == [call EXCEPT !.bytes = bytes]
           out == IF call.op = "read_curve" THEN c.bytes ELSE <<>>
           ends == \/ call.i + 1 >= cli.curves[call.id + 1].nblocks
                   \/ call.op = "read_curve" /\ Len(Out(wire)) < cli.curves[call.id + 1].block_size
<1>1. /\ wire' = Nothing /\ UNCHANGED <<world, cli, stale, calls, faults>> /\ call # NoCall
      /\ call.stage = "op" /\ call.op \in {"read_curve", "write_curve"}
  BY DEF NextBlock, Got
<1>2. CallInv /\ ret.result \in Results /\ stale' \in BOOLEAN
  BY <1>1 DEF ClientInv
<1>3. call \in CallType
  BY <1>1, <1>2 DEF CallInv
<1>4. IF wire.code \notin Ops[call.op].answer THEN Return("ERR_COMM", <<>>)
      ELSE IF ends THEN Return("SUCCESS", out)
      ELSE call' = [c EXCEPT !.i = @ + 1] /\ UNCHANGED ret
  BY DEF NextBlock
<1>5. "ERR_COMM" \in Results /\ "SUCCESS" \in Results
  BY DEF Results
<1> HIDE DEF ends, out
<1>6. CallInv' /\ ret'.result \in Results
  <2>1. CASE Return("ERR_COMM", <<>>)
    BY <1>5, <2>1, Returns
  <2>2. CASE Return("SUCCESS", out)
    BY <1>5, <2>2, Returns
  <2>3. CASE wire.code \in Ops[call.op].answer /\ call' = [c EXCEPT !.i = @ + 1] /\ ret' = ret
    <3>1. bytes \in Seq(Nat) /\ (call.op # "read_curve" => bytes = call.bytes)
      <4>1. call.bytes \in Seq(Nat)
        BY <1>3 DEF CallType
      <4>2. CASE call.op = "read_curve"
        <5>1. wire.code = "CURVE_BLOCK"
          BY <2>3, <4>2, OpsUpdates
        <5>2. wire.payload \in Seq(Nat)
          BY <5>1 DEF ClientInv, AnswerOK
        <5>3. Out(wire) = Rest(wire.payload, BSMP_CURVE_BLOCK_INFO)
          BY <5>1 DEF Out
        <5>4. Rest(wire.payload, 3) \in Seq(Nat)
          <6>1. Len(wire.payload) \in Nat /\ 3 + 1 \in Nat
            BY <5>2
          <6> QED BY <5>2, <6>1 DEF Rest
        <5>5. Out(wire) \in Seq(Nat)
          BY <5>3, <5>4 DEF BSMP_CURVE_BLOCK_INFO
        <5> QED BY <4>1, <4>2, <5>5
      <4> QED BY <4>1, <4>2
    <3> HIDE DEF bytes
    <3> DEFINE n == [c EXCEPT !.i = @ + 1]
    <3>8. c \in CallType /\ c.op = call.op /\ c.stage = call.stage /\ c.bytes = bytes
      <4>1. c \in CallType
        BY <1>3, <3>1 DEF CallType
      <4> QED BY <1>3, <4>1 DEF CallType
    <3> HIDE DEF c
    <3>2. n \in CallType
      <4>1. c.i + 1 \in Nat
        BY <3>8 DEF CallType
      <4> QED BY <3>8, <4>1 DEF CallType
    <3>3. n.op = call.op /\ n.stage = call.stage /\ n.bytes = bytes
      BY <3>8 DEF CallType
    <3>4. call' = n
      BY <2>3
    <3> HIDE DEF n
    <3>5. call.op \in OpNames /\ (call.op # "read_curve" => bytes \in Seq(Bit))
      BY <1>1, <1>2, <3>1 DEF CallInv, OpNames
    <3>6. call'.stage = "op" /\ call'.op = call.op /\ call'.bytes = bytes /\ call' \in CallType
      BY <1>1, <3>2, <3>3, <3>4
    <3>7. CallInv'
      BY <3>5, <3>6 DEF CallInv
    <3> QED BY <1>2, <2>3, <3>7
  <2> QED BY <1>4, <2>1, <2>2, <2>3
<1> QED BY <1>1, <1>2, <1>6, SameLists, TakesInv

LEMMA ChecksOf ==
    ASSUME NEW c, c.op \in OpNames
    PROVE  Check(c) \in {"ok", "PARAM_INVALID", "PARAM_OUT_OF_RANGE"}
<1> DEFINE T == {"ok", "PARAM_INVALID", "PARAM_OUT_OF_RANGE"}
<1>1. \A list, id : HasCheck(list, id) \in T /\ WriteCheck(list, id) \in T
  BY DEF HasCheck, WriteCheck
<1>2. \A list : OpCheck(list, c) \in T
  BY DEF OpCheck
<1>3. BlockCheck(c) \in T
  BY DEF BlockCheck
<1>4. SendBlockCheck(c) \in T
  BY <1>3 DEF SendBlockCheck
<1> HIDE DEF T
<1>5. "ok" \in T /\ "PARAM_INVALID" \in T
  BY DEF T
<1>6. CASE c.op \in {"read_var", "write_var", "write_read_vars", "bin_op_var", "read_group", "write_group",
                     "bin_op_group"}
  BY <1>1, <1>2, <1>5, <1>6 DEF Check, T
<1>7. CASE c.op \in {"create_group", "remove_all_groups", "request_curve_block", "read_curve",
                     "send_curve_block", "write_curve", "recalc_checksum", "func_execute"}
  BY <1>1, <1>3, <1>4, <1>5, <1>7 DEF Check, T
<1> QED BY <1>6, <1>7 DEF OpNames, T

LEMMA RejectInv ==
    ASSUME ClientInv, Reject
    PROVE  ClientInv'
<1>1. /\ wire' = Nothing /\ UNCHANGED <<world, cli, stale, calls, faults>> /\ call # NoCall
      /\ call.stage = "op" /\ Return(Check(call), <<>>) /\ Check(call) # "ok"
  BY DEF Reject
<1>2. call.op \in OpNames /\ stale' \in BOOLEAN
  BY <1>1 DEF ClientInv, CallInv
<1>3. Check(call) \in Results
  BY <1>1, <1>2, ChecksOf DEF Results
<1> QED BY <1>1, <1>2, <1>3, Returns, SameLists, TakesInv

\* A step of the link, of the server or of its surroundings.
LEMMA WorldStepInv ==
    ASSUME ClientInv, UNCHANGED <<cli, call, ret, calls>>, WorldInv(world'), AnswerOK(wire'),
           stale' \in BOOLEAN, faults' \in 0 .. MaxFaults
    PROVE  ClientInv'
<1>1. CallInv' /\ ret'.result \in Results
  BY DEF ClientInv, CallInv
<1>2. ListsInv'
  BY SameLists
<1> QED BY <1>1, <1>2 DEF ClientInv, ListsInv

LEMMA FaultCounted ==
    ASSUME ClientInv, faults < MaxFaults, faults' = faults + 1
    PROVE  faults' \in 0 .. MaxFaults
BY ClientAssumption DEF ClientInv

LEMMA DeliverInv ==
    ASSUME ClientInv, Deliver
    PROVE  ClientInv'
<1>1. /\ Sends /\ UNCHANGED <<cli, call, ret, calls, faults>>
      /\ stale' = (stale /\ call.stage # "groups")
  BY DEF Deliver
<1>2. PICK r : Process(r) /\ wire' = bsmp_process_packet(world, Request(call), r).answer
  BY DEF Deliver
<1>3. WorldInv(world') /\ AnswerOK(wire')
  BY <1>1, <1>2, ProcessServes
<1>4. stale' \in BOOLEAN /\ faults' \in 0 .. MaxFaults
  BY <1>1 DEF ClientInv
<1> QED BY <1>1, <1>3, <1>4, WorldStepInv

LEMMA LoseRequestInv ==
    ASSUME ClientInv, LoseRequest
    PROVE  ClientInv'
<1>1. /\ UNCHANGED <<world, cli, call, ret, calls>> /\ stale' = stale /\ wire' = Failed
      /\ faults < MaxFaults /\ faults' = faults + 1
  BY DEF LoseRequest
<1>2. WorldInv(world') /\ AnswerOK(wire') /\ stale' \in BOOLEAN
  BY <1>1, NoAnswers DEF ClientInv
<1> QED BY <1>1, <1>2, FaultCounted, WorldStepInv

LEMMA LoseAnswerInv ==
    ASSUME ClientInv, LoseAnswer
    PROVE  ClientInv'
<1>1. /\ Sends /\ UNCHANGED <<cli, call, ret, calls>> /\ wire' = Failed /\ Process(0)
      /\ stale' = (stale \/ call.op \in {"create_group", "remove_all_groups"})
      /\ faults < MaxFaults /\ faults' = faults + 1
  BY DEF LoseAnswer
<1>2. WorldInv(world') /\ AnswerOK(wire')
  BY <1>1, ProcessServes, NoAnswers
<1>3. stale' \in BOOLEAN
  BY <1>1 DEF ClientInv
<1> QED BY <1>1, <1>2, <1>3, FaultCounted, WorldStepInv

LEMMA RestartInv ==
    ASSUME ClientInv, Restart
    PROVE  ClientInv' /\ world'.srv = bsmp_init
<1>1. /\ UNCHANGED <<cli, call, wire, ret, calls>> /\ stale' = TRUE
      /\ world' = [world EXCEPT !.srv = bsmp_init, !.ends = FullEnds]
      /\ faults < MaxFaults /\ faults' = faults + 1
  BY DEF Restart
<1>2. WorldInv(world)
  BY DEF ClientInv
<1>3. WorldInv(world')
  BY <1>1, <1>2, RestartServes
<1>4. AnswerOK(wire') /\ stale' \in BOOLEAN
  BY <1>1 DEF ClientInv
<1>5. world'.srv = bsmp_init
  BY <1>1, <1>2 DEF WorldInv, WorldType
<1> QED BY <1>1, <1>3, <1>4, <1>5, FaultCounted, WorldStepInv

LEMMA OtherServes ==
    ASSUME ClientInv, Other
    PROVE  Served(world, world')
<1>1. PICK request \in Others : world' = bsmp_process_packet(world, request, 0).world
  BY DEF Other
<1>2. Clean(request.code, request.payload)
  BY ClientAssumption DEF Clean, Bit
<1>3. WorldInv(world)
  BY DEF ClientInv
<1>4. Served(world, bsmp_process_packet(world, request, 0).world)
  BY <1>2, <1>3, PacketServed
<1> QED BY <1>1, <1>4

LEMMA OtherInv ==
    ASSUME ClientInv, Other
    PROVE  ClientInv'
<1>1. /\ UNCHANGED <<cli, call, wire, ret, calls>> /\ stale' = TRUE
      /\ faults < MaxFaults /\ faults' = faults + 1
  BY DEF Other
<1>2. WorldInv(world')
  BY OtherServes DEF Served
<1>3. AnswerOK(wire') /\ stale' \in BOOLEAN
  BY <1>1 DEF ClientInv
<1> QED BY <1>1, <1>2, <1>3, FaultCounted, WorldStepInv

LEMMA C28Serves ==
    ASSUME ClientInv, C28Moves
    PROVE  WorldInv(world') /\ world'.srv = world.srv
<1>1. PICK c28 \in [selected : {0, 1}, playing : BOOLEAN, scope : BOOLEAN] :
         world' = [world EXCEPT !.c28 = c28]
  BY DEF C28Moves
<1>2. WorldInv(world) /\ world \in WorldType
  BY DEF ClientInv, WorldInv
<1>3. world' \in WorldType /\ world'.srv = world.srv /\ world'.mem = world.mem
  BY <1>1, <1>2 DEF WorldType
<1>4. \A id \in 0 .. 1 : Content(world', id) = Content(world, id)
  BY <1>3 DEF Content
<1> QED BY <1>2, <1>3, <1>4 DEF WorldInv

LEMMA C28Inv ==
    ASSUME ClientInv, C28Moves
    PROVE  ClientInv'
<1>1. /\ UNCHANGED <<cli, call, wire, ret, stale, calls>>
      /\ faults < MaxFaults /\ faults' = faults + 1
  BY DEF C28Moves
<1>2. AnswerOK(wire') /\ stale' \in BOOLEAN
  BY <1>1 DEF ClientInv
<1> QED BY <1>1, <1>2, C28Serves, FaultCounted, WorldStepInv

\* A call that starts.
LEMMA StartInv ==
    ASSUME ClientInv, UNCHANGED <<world, wire, faults>>, ListsInv', CallInv', ret' = NoReturn,
           stale' \in BOOLEAN, calls < MaxCalls, calls' = calls + 1
    PROVE  ClientInv'
<1>1. calls' \in 0 .. MaxCalls /\ faults' \in 0 .. MaxFaults
  BY ClientAssumption DEF ClientInv
<1>2. ret'.result \in Results
  BY DEF NoReturn, Results
<1>3. WorldInv(world') /\ AnswerOK(wire')
  BY DEF ClientInv
<1> QED BY <1>1, <1>2, <1>3 DEF ClientInv, ListsInv

LEMMA ClientInitInv ==
    ASSUME ClientInv, bsmp_client_init
    PROVE  ClientInv'
<1>1. /\ UNCHANGED <<world, wire, faults>> /\ calls < MaxCalls /\ calls' = calls + 1
      /\ ret' = NoReturn /\ stale' = TRUE /\ cli' = NoLists /\ call' = FirstCall
  BY DEF bsmp_client_init, FirstCall
<1>2. CallInv'
  BY <1>1, FirstCallTyped DEF CallInv
<1>3. Len(<<>>) = 0
  OBVIOUS
<1>4. ListsInv'
  BY <1>1, <1>3, NoListsTyped, ServerConstants DEF ListsInv
<1> QED BY <1>1, <1>2, <1>4, StartInv

LEMMA CallStarts ==
    ASSUME ClientInv, Call
    PROVE  ClientInv' /\ call' # NoCall /\ call'.stage = "op" /\ call = NoCall
<1>1. /\ UNCHANGED <<world, cli, wire, stale, faults>> /\ calls < MaxCalls /\ calls' = calls + 1
      /\ ret' = NoReturn /\ call = NoCall
  BY DEF Call
<1>2. PICK c \in Calls :
         call' = [op |-> c.op, id |-> c.id, arg |-> c.arg, bytes |-> Sized(c).bytes,
                  stage |-> "op",
                  i |-> IF c.op \in {"request_curve_block", "send_curve_block"} THEN c.arg ELSE 0]
  BY DEF Call
<1>3. c.op \in OpNames /\ c.id \in Nat /\ c.arg \in Nat
  BY ClientAssumption, OpsTable
<1>4. Sized(c).bytes \in Seq(Nat) /\ (c.op # "create_group" => Sized(c).bytes \in Seq(Bit))
  BY SizedTyped DEF ClientInv
<1> DEFINE i == IF c.op \in {"request_curve_block", "send_curve_block"} THEN c.arg ELSE 0
           bytes == Sized(c).bytes
<1>5. i \in Nat /\ bytes \in Seq(Nat)
  BY <1>3, <1>4
<1>6. call' = [op |-> c.op, id |-> c.id, arg |-> c.arg, bytes |-> bytes, stage |-> "op", i |-> i]
  BY <1>2
<1>7. c.op # "create_group" => bytes \in Seq(Bit)
  BY <1>4
<1> HIDE DEF i, bytes
<1>8. call' \in CallType /\ call'.op = c.op /\ call'.stage = "op" /\ call'.bytes = bytes
  <2>1. call' \in CallType
    BY <1>3, <1>5, <1>6 DEF CallType, Stages
  <2> QED BY <1>6, <2>1
<1>9. NoCall.op = "none" /\ c.op # "none"
  BY <1>3 DEF NoCall, OpNames
<1>10. call' # NoCall
  BY <1>8, <1>9
<1>11. CallInv'
  BY <1>3, <1>7, <1>8 DEF CallInv
<1>12. stale' \in BOOLEAN
  BY <1>1 DEF ClientInv
<1>13. ClientInv'
  BY <1>1, <1>11, <1>12, SameLists, StartInv
<1> QED BY <1>1, <1>8, <1>10, <1>13

\* One step: the actions of the user, of the client, of the link and of the server.
LEMMA InvStep == ClientInv /\ [Next]_vars => ClientInv'
<1> SUFFICES ASSUME ClientInv, [Next]_vars PROVE ClientInv'
  OBVIOUS
<1>1. CASE Call
  BY <1>1, CallStarts
<1>2. CASE bsmp_client_init
  BY <1>2, ClientInitInv
<1>3. CASE Reject \/ Deliver \/ LoseRequest \/ LoseAnswer
  BY <1>3, RejectInv, DeliverInv, LoseRequestInv, LoseAnswerInv
<1>4. CASE ClientTakes
  BY <1>4, VersionInv, VarsInv, GroupsInv, QueryGroupInv, CurvesInv, ChecksumInv, FuncsInv,
     AnsweredInv, NextBlockInv DEF ClientTakes
<1>5. CASE Restart \/ Other \/ C28Moves
  BY <1>5, RestartInv, OtherInv, C28Inv
<1>6. CASE UNCHANGED vars
  <2>1. /\ world' = world /\ cli' = cli /\ call' = call /\ wire' = wire /\ ret' = ret
        /\ stale' = stale /\ calls' = calls /\ faults' = faults
    BY <1>6 DEF vars
  <2>2. WorldInv(world') /\ AnswerOK(wire') /\ stale' \in BOOLEAN /\ faults' \in 0 .. MaxFaults
    BY <2>1 DEF ClientInv
  <2> QED BY <2>1, <2>2, WorldStepInv
<1> QED BY <1>1, <1>2, <1>3, <1>4, <1>5, <1>6 DEF Next, Progress

(* The world, the lists of the client, the wire and the call stay in       *)
(* ClientInv under every step of user, client, link, server, other masters *)
(* and C28: sound groups, honest checksums, answers that are what the      *)
(* server sends (server.c, client.c).                                      *)
THEOREM Invariant == Spec => []ClientInv
BY InvInit, InvStep, PTL DEF Spec

(* The tables of the server and of the client keep their types: a variable *)
(* has as many bytes as its size, a curve stays in its buffer, no list     *)
(* outgrows its array, and the server never has more than BSMP_MAX_GROUPS  *)
(* groups (server.c, client.c).                                            *)
THEOREM ClientTypes == Spec => []TypeOK
<1>1. ClientInv => TypeOK
  <2> SUFFICES ASSUME ClientInv PROVE TypeOK
    OBVIOUS
  <2>1. WorldInv(world) /\ ServerInv(world.srv) /\ world \in WorldType
    BY DEF ClientInv, WorldInv
  <2>2. world.srv.count \in GROUP_STANDARD_COUNT .. BSMP_MAX_GROUPS
    BY <2>1 DEF ServerInv, GROUP_STANDARD_COUNT
  <2>3. \A k \in DOMAIN world.srv.vars : world.srv.data[k] \in [1 .. world.srv.vars[k].size -> {0, 1}]
    BY <2>1 DEF ServerInv, Fits, Bit
  <2>4. /\ world.mem \in [0 .. 3 * NBlocks - 1 -> [1 .. BlockSize -> {0, 1}]]
        /\ world.ends \in [0 .. 1 -> 0 .. NBlocks * BlockSize]
    BY <2>1 DEF WorldType, Block, Bit
  <2> QED BY <2>2, <2>3, <2>4 DEF TypeOK, ClientInv
<1> QED BY <1>1, Invariant, PTL

(* Whatever requests the masters send, in any order, with losses and       *)
(* restarts: every group that can be addressed lists variables of the      *)
(* server in increasing order, has their total size and is writable only   *)
(* if they all are (group_create and group_remove_all of server.c, and     *)
(* group_add_var).                                                         *)
THEOREM GroupsStaySound == Spec => []GroupsSound
<1>1. ClientInv => GroupsSound
  <2> SUFFICES ASSUME ClientInv, NEW g \in Visible
               PROVE  LET grp == world.srv.groups[g]
                          id(k) == grp.vars[k]
                      IN /\ grp.id = g /\ grp.size = SizesOf(world.srv.vars, grp.vars)
                         /\ \A k \in DOMAIN grp.vars : id(k) < Len(world.srv.vars)
                         /\ \A k \in 2 .. Len(grp.vars) : id(k - 1) < id(k)
                         /\ grp.writable <=> \A k \in DOMAIN grp.vars :
                                                 world.srv.vars[id(k) + 1].writable
    BY DEF GroupsSound
  <2>1. Sound(world.srv.vars, world.srv.groups[g], g)
    BY DEF ClientInv, WorldInv, ServerInv, Visible
  <2> QED BY <2>1, Zenon DEF Sound
<1> QED BY <1>1, Invariant, PTL

(* The checksum the server reports for a waveform is that of its content,  *)
(* or cleared: no block is written without clearing it (curve_block and    *)
(* curve_recalc_csum of server.c).                                         *)
THEOREM ChecksumsHonest == Spec => []ChecksumHonest
<1>1. ClientInv => ChecksumHonest
  BY DEF ClientInv, WorldInv, ChecksumHonest
<1> QED BY <1>1, Invariant, PTL

\* Between restarts every step of the server is a command or a move of the C28.
LEMMA ServerSteps ==
    ASSUME ClientInv, [Next]_vars
    PROVE  Served(world, world') \/ world'.srv = bsmp_init \/ world'.srv = world.srv
<1>1. CASE Call \/ bsmp_client_init \/ Reject \/ LoseRequest \/ ClientTakes \/ UNCHANGED vars
  <2>1. world' = world
    BY <1>1 DEF Call, bsmp_client_init, Reject, LoseRequest, ClientTakes, get_version,
       update_vars_list, update_groups_list, QueryGroup, update_curves_list, QueryChecksum,
       update_funcs_list, Answered, NextBlock, vars
  <2> QED BY <2>1
<1>2. CASE Deliver \/ LoseAnswer
  <2>1. Sends /\ \E r : Process(r)
    BY <1>2 DEF Deliver, LoseAnswer
  <2> QED BY <2>1, ProcessServes
<1>3. CASE Restart
  BY <1>3, RestartInv
<1>4. CASE Other
  BY <1>4, OtherServes
<1>5. CASE C28Moves
  BY <1>5, C28Serves
<1> QED BY <1>1, <1>2, <1>3, <1>4, <1>5 DEF Next, Progress

(* No request of any master changes the value of a read-only variable,     *)
(* through whatever groups were made before: only a restart does (var_     *)
(* write, var_bin_op, var_write_read, group_write, group_bin_op of         *)
(* server.c).                                                              *)
THEOREM ReadOnlyNeverWritten == Spec => ReadOnlyKept
<1> DEFINE Kept == \A k \in DOMAIN world.srv.vars :
                       ~world.srv.vars[k].writable =>
                           \/ world'.srv.data[k] = world.srv.data[k]
                           \/ world'.srv = bsmp_init
<1>1. ClientInv /\ [Next]_vars => [Kept]_world
  <2> SUFFICES ASSUME ClientInv, [Next]_vars PROVE Kept
    OBVIOUS
  <2> QED BY ServerSteps DEF Served
<1> QED BY <1>1, Invariant, PTL DEF Spec, ReadOnlyKept

----------------------------------------------------------------------------
(* The client's list of groups.  AgreeInv holds at every stage of a call.  *)

\* A byte of a list is read as it was written.
LEMMA BytesRead ==
    ASSUME NEW w \in BOOLEAN, NEW n \in 0 .. 127
    PROVE  /\ (n + WRITABLE(w)) \in Nat /\ (n + WRITABLE(w) >= 128 <=> w)
           /\ (n + WRITABLE(w)) % 128 = n
           /\ (WRITABLE(w) + n) % 256 = n + WRITABLE(w)
<1>1. CASE w
  <2>1. WRITABLE(w) = 128
    BY <1>1 DEF WRITABLE
  <2>2. (n + 128) % 128 = n /\ (128 + n) % 256 = n + 128 /\ n + 128 >= 128 /\ n + 128 \in Nat
    OBVIOUS
  <2> QED BY <1>1, <2>1, <2>2
<1>2. CASE ~w
  <2>1. WRITABLE(w) = 0
    BY <1>2 DEF WRITABLE
  <2>2. (n + 0) % 128 = n /\ (0 + n) % 256 = n + 0 /\ ~(n + 0 >= 128) /\ n + 0 \in Nat
    OBVIOUS
  <2> QED BY <1>2, <2>1, <2>2
<1> QED BY <1>1, <1>2

\* A size and its permission bit come out of their byte as they went in (sizes below 128).
LEMMA SizeRead ==
    ASSUME NEW size \in 1 .. 128, NEW w \in BOOLEAN
    PROVE  /\ ReadSize(SIZE_MASK(size) + WRITABLE(w)) = size
           /\ SIZE_MASK(size) + WRITABLE(w) >= 128 <=> w
<1> DEFINE n == SIZE_MASK(size)
<1>1. n \in 0 .. 127 /\ (n = 0 => size = 128) /\ (n # 0 => n = size)
  BY DEF SIZE_MASK
<1> HIDE DEF n
<1>2. (n + WRITABLE(w)) % 128 = n /\ (n + WRITABLE(w) >= 128 <=> w)
  BY <1>1, BytesRead
<1>3. ReadSize(n + WRITABLE(w)) = IF n = 0 THEN 128 ELSE n
  BY <1>2 DEF ReadSize, BSMP_VAR_MAX_SIZE
<1> QED BY <1>1, <1>2, <1>3 DEF n

\* The client reads the server's variables as they are.
LEMMA VarsRead == ListedVars(VarBytes) = bsmp_init.vars
<1> DEFINE list == bsmp_init.vars
<1>1. list \in Seq(VarInfo) /\ \A k \in DOMAIN list : list[k].size \in 1 .. 128
  BY ServerStarts DEF ServerInv, ServerType
<1>2. DOMAIN list = 1 .. Len(list)
  BY <1>1
<1>3. DOMAIN VarBytes = DOMAIN list
  BY DEF VarBytes
<1>4. ASSUME NEW k \in DOMAIN list
      PROVE  [writable |-> VarBytes[k] >= 128, size |-> ReadSize(VarBytes[k])] = list[k]
  <2>1. VarBytes[k] = SIZE_MASK(list[k].size) + WRITABLE(list[k].writable)
    BY DEF VarBytes
  <2>2. list[k] \in VarInfo
    BY <1>1, <1>2, ElementTyped
  <2> HIDE DEF list
  <2>3. list[k].writable \in BOOLEAN /\ list[k].size \in 1 .. 128
    BY <1>1, <2>2 DEF VarInfo
  <2>4. ReadSize(VarBytes[k]) = list[k].size /\ (VarBytes[k] >= 128 <=> list[k].writable)
    BY <2>1, <2>3, SizeRead
  <2>5. (VarBytes[k] >= 128) \in BOOLEAN
    OBVIOUS
  <2>6. (VarBytes[k] >= 128) = list[k].writable
    BY <2>3, <2>4, <2>5, Zenon
  <2>7. list[k] = [writable |-> list[k].writable, size |-> list[k].size]
    BY <2>2 DEF VarInfo
  <2> QED BY <2>4, <2>6, <2>7, Zenon
<1>5. ListedVars(VarBytes) = [k \in DOMAIN list |-> list[k]]
  BY <1>3, <1>4, Zenon DEF ListedVars
<1> HIDE DEF list
<1>6. list = [k \in DOMAIN list |-> list[k]]
  BY <1>1
<1> QED BY <1>5, <1>6 DEF list

\* A group has no more variables than the server.
LEMMA GroupIsSmall ==
    ASSUME NEW list \in Seq(VarInfo), NEW grp \in GroupInfo, NEW g, Sound(list, grp, g)
    PROVE  Len(grp.vars) <= Len(list)
<1> DEFINE n == Len(grp.vars)
           G == {k \in 0 .. n : k # 0 => grp.vars[k] >= k - 1}
<1>1. /\ grp.vars \in Seq(Nat) /\ n \in Nat /\ DOMAIN grp.vars = 1 .. n /\ Len(list) \in Nat
      /\ \A k \in 1 .. n : grp.vars[k] \in Nat
  BY DEF GroupInfo
<1>2. /\ \A k \in 1 .. n : grp.vars[k] < Len(list)
      /\ \A k \in 2 .. n : grp.vars[k - 1] < grp.vars[k]
  BY <1>1 DEF Sound
<1> HIDE DEF n
<1>3. 0 \in G
  BY <1>1
<1>4. ASSUME NEW k \in 1 .. n, k - 1 \in G PROVE k \in G
  <2>1. CASE k = 1
    BY <1>1, <2>1
  <2>2. CASE k # 1
    <3>1. k \in 2 .. n /\ k - 1 \in 1 .. n
      BY <1>1, <2>2
    <3>2. grp.vars[k - 1] >= k - 2 /\ grp.vars[k - 1] < grp.vars[k]
      BY <1>2, <1>4, <3>1
    <3>3. grp.vars[k - 1] \in Nat /\ grp.vars[k] \in Nat
      BY <1>1, <3>1
    <3> QED BY <3>1, <3>2, <3>3
  <2> QED BY <2>1, <2>2
<1> HIDE DEF G
<1>5. 0 .. n \subseteq G
  BY <1>1, <1>3, <1>4, TurnInduction
<1>6. CASE n = 0
  BY <1>1, <1>6 DEF n
<1>7. CASE n # 0
  <2>1. n \in G /\ n \in 1 .. n
    BY <1>1, <1>5, <1>7
  <2>2. grp.vars[n] >= n - 1 /\ grp.vars[n] < Len(list) /\ grp.vars[n] \in Nat
    BY <1>1, <1>2, <1>7, <2>1 DEF G
  <2> QED BY <1>1, <2>2 DEF n
<1> QED BY <1>6, <1>7

\* The first answer of the loop: what the client has before any group is read.
LEMMA GroupsListed ==
    ASSUME NEW w, WorldInv(w), NEW c, c.groups = ListedGroups(GroupBytes(w.srv))
    PROVE  AgreedUpTo(c, w.srv, 0) /\ GroupBytes(w.srv) # <<>>
<1> DEFINE s == w.srv
           bytes == GroupBytes(s)
<1>1. /\ s \in ServerType /\ s.vars = bsmp_init.vars /\ s.vars \in Seq(VarInfo) /\ s.count \in Nat
      /\ s.count >= 3 /\ s.count <= BSMP_MAX_GROUPS /\ s.groups \in [Slots -> GroupInfo]
      /\ \A g \in 0 .. s.count - 1 : Sound(s.vars, s.groups[g], g)
  BY ServerConstants DEF WorldInv, ServerInv, ServerType
<1>2. bytes \in Seq(Nat) /\ Len(bytes) = s.count
  BY GroupBytesTyped DEF WorldInv
<1>3. Len(c.groups) = s.count /\ DOMAIN bytes = 1 .. s.count
  BY <1>2, ListedGroupsTyped
<1>4. ASSUME NEW g \in 0 .. s.count - 1
      PROVE  /\ c.groups[g + 1].writable = s.groups[g].writable
             /\ c.groups[g + 1].count = Len(s.groups[g].vars)
  <2> DEFINE grp == s.groups[g]
             n == Len(grp.vars)
  <2>1. g \in Slots /\ g + 1 \in 1 .. s.count /\ (g + 1) - 1 = g
    BY <1>1, <1>4, ServerConstants DEF Slots
  <2>2. grp \in GroupInfo /\ Sound(s.vars, grp, g)
    BY <1>1, <2>1
  <2>3. grp.writable \in BOOLEAN /\ n \in Nat
    BY <2>2 DEF GroupInfo
  <2>4. n <= Len(s.vars) /\ Len(s.vars) < 128 /\ Len(s.vars) \in Nat
    BY <1>1, <2>2, GroupIsSmall, ServerStarts
  <2>5. n \in 0 .. 127
    <3>1. \A m, k \in Nat : m <= k /\ k < 128 => m \in 0 .. 127
      OBVIOUS
    <3> HIDE DEF n
    <3> QED BY <2>3, <2>4, <3>1
  <2>6. bytes[g + 1] = (WRITABLE(grp.writable) + n) % 256
    BY <2>1 DEF GroupBytes
  <2>7. c.groups[g + 1] = [writable |-> bytes[g + 1] >= 128, count |-> SIZE_MASK(bytes[g + 1]),
                           size |-> 0, vars |-> <<>>]
    BY <1>3, <2>1 DEF ListedGroups
  <2> HIDE DEF n, grp, bytes
  <2>8. bytes[g + 1] % 128 = n /\ (bytes[g + 1] >= 128 <=> grp.writable)
    BY <2>3, <2>5, <2>6, BytesRead
  <2>9. (bytes[g + 1] >= 128) = grp.writable
    <3>1. (bytes[g + 1] >= 128) \in BOOLEAN
      OBVIOUS
    <3> QED BY <2>3, <2>8, <3>1, Zenon
  <2>10. c.groups[g + 1].writable = (bytes[g + 1] >= 128) /\ c.groups[g + 1].count = SIZE_MASK(bytes[g + 1])
    BY <2>7
  <2> QED BY <2>8, <2>9, <2>10 DEF SIZE_MASK, grp, n
<1>5. bytes # <<>>
  BY <1>1, <1>2
<1>6. \A g \in 0 .. s.count - 1 : ~(g < 0)
  BY <1>1
<1> QED BY <1>3, <1>4, <1>5, <1>6 DEF AgreedUpTo

LEMMA SeenTyped ==
    ASSUME NEW grp \in GroupInfo
    PROVE  /\ Seen(grp) \in GroupSeen /\ Seen(grp).writable = grp.writable
           /\ Seen(grp).count = Len(grp.vars) /\ Seen(grp).size = grp.size
           /\ Seen(grp).vars = grp.vars
<1>1. grp.writable \in BOOLEAN /\ grp.size \in Nat /\ grp.vars \in Seq(Nat)
  BY DEF GroupInfo
<1>2. Len(grp.vars) \in Nat
  BY <1>1
<1>3. Seen(grp) \in GroupSeen
  BY <1>1, <1>2 DEF Seen, GroupSeen
<1> QED BY <1>3 DEF Seen

LEMMA AgreedSame ==
    ASSUME NEW c, NEW d, NEW s, NEW t, d.vars = c.vars, d.groups = c.groups, t.count = s.count,
           \A g \in 0 .. s.count - 1 : t.groups[g] = s.groups[g]
    PROVE  /\ Agreed(c, s) => Agreed(d, t)
           /\ \A i : AgreedUpTo(c, s, i) => AgreedUpTo(d, t, i)
BY DEF Agreed, AgreedUpTo

\* A step at the end of which the list may be out of date.
LEMMA StaleStep ==
    ASSUME stale' = TRUE, cli'.vars \in {<<>>, bsmp_init.vars}, call' = NoCall => wire' = Nothing
    PROVE  AgreeInv'
BY DEF AgreeInv

\* A step that leaves a call at the stages where the client agrees, or no call.
LEMMA AgreedStep ==
    ASSUME AgreeInv, wire' = Nothing, cli'.vars = cli.vars, ~stale' => Agreed(cli', world'.srv),
           call' # NoCall => call'.stage \in {"op", "curves", "csum", "funcs"}
    PROVE  AgreeInv'
<1>1. cli'.vars \in {<<>>, bsmp_init.vars}
  BY DEF AgreeInv
<1> QED BY <1>1 DEF AgreeInv

\* What the client knows while it does not wait for a group.
LEMMA SettledAgrees ==
    ASSUME AgreeInv, ~stale,
           \/ call = NoCall
           \/ call.stage = "op" /\ (wire.code # "OK" \/ ~ChangesGroups(call))
           \/ call.stage \in {"curves", "csum", "funcs"}
    PROVE  Agreed(cli, world.srv)
BY DEF AgreeInv

LEMMA SameGroupsSeen ==
    ASSUME NEW w, NEW after, SameGroups(w, after)
    PROVE  SameVisible(w, after) /\ GroupBytes(after.srv) = GroupBytes(w.srv)
BY DEF SameGroups, SameVisible, GroupBytes

LEMMA AgreeInit == Init => AgreeInv
<1> SUFFICES ASSUME Init PROVE AgreeInv
  OBVIOUS
<1>1. call = FirstCall /\ cli = NoLists /\ stale = TRUE /\ wire = Nothing
  BY DEF Init, FirstCall
<1> QED BY <1>1, NoListsTyped DEF AgreeInv

LEMMA CallAgrees ==
    ASSUME ClientInv, AgreeInv, Call
    PROVE  AgreeInv'
<1>1. /\ UNCHANGED <<world, cli, wire, stale>> /\ call = NoCall
      /\ call' # NoCall /\ call'.stage = "op"
  BY CallStarts DEF Call
<1>2. wire' = Nothing
  BY <1>1 DEF AgreeInv
<1>3. ~stale' => Agreed(cli', world'.srv)
  BY <1>1, SettledAgrees
<1> QED BY <1>1, <1>2, <1>3, AgreedStep

LEMMA ClientInitAgrees ==
    ASSUME AgreeInv, bsmp_client_init
    PROVE  AgreeInv'
<1>1. stale' = TRUE /\ cli' = NoLists /\ call = NoCall /\ wire' = wire
  BY DEF bsmp_client_init
<1>2. wire' = Nothing /\ cli'.vars = <<>>
  BY <1>1, NoListsTyped DEF AgreeInv
<1> QED BY <1>1, <1>2, StaleStep

LEMMA RejectAgrees ==
    ASSUME AgreeInv, Reject
    PROVE  AgreeInv'
<1>1. /\ UNCHANGED <<world, cli, wire, stale>> /\ call' = NoCall /\ wire = Nothing
      /\ call.stage = "op"
  BY DEF Reject, Return
<1>2. wire.code # "OK"
  BY <1>1, NoAnswers
<1>3. ~stale' => Agreed(cli', world'.srv)
  BY <1>1, <1>2, SettledAgrees
<1> QED BY <1>1, <1>3, AgreedStep

\* A request that changes the groups is executed while the client waits for its answer.
LEMMA DeliverAgrees ==
    ASSUME ClientInv, AgreeInv, Deliver
    PROVE  AgreeInv'
<1>1. /\ Sends /\ UNCHANGED <<cli, call, ret, calls, faults>> /\ call # NoCall /\ wire = Nothing
      /\ stale' = (stale /\ call.stage # "groups")
  BY DEF Deliver, Sends
<1>2. PICK r : Process(r) /\ wire' = bsmp_process_packet(world, Request(call), r).answer
  BY DEF Deliver
<1> DEFINE q == Request(call)
           step == bsmp_process_packet(world, q, r)
<1>3. world' = step.world /\ wire' = step.answer
  BY <1>2 DEF Process
<1>4. q.code \notin GroupCodes => SameGroups(world, world')
  BY <1>1, <1>2, ProcessServes
<1>5. /\ WorldInv(world) /\ cli \in CliType /\ CallInv /\ call \in CallType /\ call.stage \in Stages
      /\ call.i \in Nat /\ stale \in BOOLEAN
  BY <1>1 DEF ClientInv, CallInv, CallType
<1>6. /\ Clean(q.code, q.payload) /\ q = Message(q.code, q.payload)
      /\ q.code \in GroupCodes => call.stage = "op" /\ ChangesGroups(call)
  BY <1>1, <1>5, RequestFacts DEF ChangesGroups
<1>7. /\ cli'.vars \in {<<>>, bsmp_init.vars} /\ call' # NoCall
      /\ call.stage \in {"version", "vars"} => stale'
  BY <1>1, <1>5 DEF AgreeInv
<1> HIDE DEF step
<1>8. SUFFICES ASSUME ~stale' PROVE
          /\ call.stage = "groups" =>
                (wire'.code = "GROUP_LIST" => wire'.payload = GroupBytes(world'.srv))
          /\ call.stage = "group" =>
                /\ AgreedUpTo(cli, world'.srv, call.i)
                /\ wire'.code = "GROUP" => wire'.payload = world'.srv.groups[call.i].vars
          /\ call.stage = "op" =>
                Agreed(cli, world'.srv) \/ (wire'.code = "OK" /\ ChangesGroups(call))
          /\ call.stage \in {"curves", "csum", "funcs"} => Agreed(cli, world'.srv)
  <2> HIDE DEF q
  <2> QED BY <1>1, <1>7 DEF AgreeInv, ChangesGroups
<1>9. /\ SameGroups(world, world') => /\ Agreed(cli, world.srv) => Agreed(cli, world'.srv)
                                      /\ GroupBytes(world'.srv) = GroupBytes(world.srv)
                                      /\ \A i : AgreedUpTo(cli, world.srv, i) => AgreedUpTo(cli, world'.srv, i)
  <2>1. SUFFICES ASSUME SameGroups(world, world')
                 PROVE  /\ Agreed(cli, world.srv) => Agreed(cli, world'.srv)
                        /\ GroupBytes(world'.srv) = GroupBytes(world.srv)
                        /\ \A i : AgreedUpTo(cli, world.srv, i) => AgreedUpTo(cli, world'.srv, i)
    OBVIOUS
  <2>2. SameVisible(world, world') /\ GroupBytes(world'.srv) = GroupBytes(world.srv)
    BY <2>1, SameGroupsSeen
  <2> QED BY <2>2, AgreedSame DEF SameVisible
<1>10. CASE call.stage = "groups"
  <2>1. q = Message("GROUP_QUERY_LIST", <<>>)
    BY <1>1, <1>5, <1>10, RequestStages
  <2>2. q.code = "GROUP_QUERY_LIST"
    BY <2>1, MessageFields
  <2>3. SameGroups(world, world')
    BY <1>4, <2>2 DEF GroupCodes
  <2>4. step.answer = Message("GROUP_LIST", GroupBytes(world.srv))
    BY <1>5, <2>1, GroupListPacket DEF step
  <2>5. wire'.payload = GroupBytes(world.srv)
    BY <1>3, <2>4, MessageFields
  <2> QED BY <1>9, <1>10, <2>3, <2>5
<1>11. CASE call.stage = "group"
  <2>1. q = Message("GROUP_QUERY", <<call.i>>)
    BY <1>1, <1>5, <1>11, RequestStages
  <2>2. q.code = "GROUP_QUERY"
    BY <2>1, MessageFields
  <2>3. SameGroups(world, world')
    BY <1>4, <2>2 DEF GroupCodes
  <2>4. step.answer.code = "GROUP" => step.answer.payload = world.srv.groups[call.i].vars
    BY <1>5, <2>1, GroupPacket DEF step
  <2>5. wire'.code = "GROUP" => wire'.payload = world'.srv.groups[call.i].vars
    BY <1>3, <2>3, <2>4 DEF SameGroups
  <2>6. AgreedUpTo(cli, world.srv, call.i)
    BY <1>1, <1>8, <1>11 DEF AgreeInv
  <2> QED BY <1>9, <1>11, <2>3, <2>5, <2>6
<1>12. CASE call.stage \in {"curves", "csum", "funcs"}
  <2>1. q.code \notin GroupCodes
    BY <1>6, <1>12
  <2>2. Agreed(cli, world.srv)
    BY <1>1, <1>8, <1>12, SettledAgrees
  <2> QED BY <1>4, <1>9, <1>12, <2>1, <2>2
<1>13. CASE call.stage = "op"
  <2>1. wire.code # "OK"
    BY <1>1, NoAnswers
  <2>2. Agreed(cli, world.srv)
    BY <1>1, <1>8, <1>13, <2>1, SettledAgrees
  <2>3. CASE q.code \notin GroupCodes
    BY <1>4, <1>9, <1>13, <2>2, <2>3
  <2>4. CASE q.code \in GroupCodes
    <3>1. ChangesGroups(call)
      BY <1>6, <2>4
    <3>2. CASE wire'.code = "OK"
      BY <1>13, <3>1, <3>2
    <3>3. CASE wire'.code # "OK"
      <4>1. q.payload \in Seq(Nat)
        BY <1>6 DEF Clean
      <4> HIDE DEF q
      <4>2. step = bsmp_process_packet(world, Message(q.code, q.payload), r)
        BY <1>6 DEF step
      <4>3. SameVisible(world, step.world)
        BY <1>3, <1>5, <2>4, <3>3, <4>1, <4>2, GroupRefused
      <4>4. Agreed(cli, world'.srv)
        BY <1>3, <2>2, <4>3, AgreedSame DEF SameVisible
      <4> QED BY <1>13, <4>4
    <3> QED BY <3>2, <3>3
  <2> QED BY <2>3, <2>4
<1>14. CASE call.stage \in {"version", "vars"}
  BY <1>7, <1>8, <1>14
<1> QED BY <1>5, <1>10, <1>11, <1>12, <1>13, <1>14 DEF Stages

\* When an exchange about the groups is lost, the list counts as out of date.
LEMMA LossAgrees ==
    ASSUME ClientInv, AgreeInv, LoseRequest \/ LoseAnswer
    PROVE  AgreeInv'
<1>1. /\ Sends /\ UNCHANGED <<cli, call>> /\ call # NoCall /\ wire = Nothing /\ wire' = Failed
      /\ stale \in BOOLEAN /\ cli \in CliType /\ CallInv
  BY DEF LoseRequest, LoseAnswer, Sends, ClientInv
<1>2. ~stale' => ~stale /\ SameGroups(world, world')
  <2>1. CASE LoseRequest
    <3>1. stale' = stale /\ world' = world
      BY <2>1 DEF LoseRequest
    <3> QED BY <1>1, <3>1 DEF SameGroups
  <2>2. CASE LoseAnswer
    <3>1. stale' = (stale \/ ChangesGroups(call)) /\ Process(0)
      BY <2>2 DEF LoseAnswer, ChangesGroups
    <3>2. Request(call).code \in GroupCodes => ChangesGroups(call)
      BY <1>1, RequestFacts DEF ChangesGroups
    <3>3. Request(call).code \notin GroupCodes => SameGroups(world, world')
      BY <1>1, <3>1, ProcessServes
    <3> QED BY <1>1, <3>1, <3>2, <3>3
  <2> QED BY <2>1, <2>2
<1>3. wire.code # "OK" /\ wire'.code # "GROUP_LIST" /\ wire'.code # "GROUP"
  BY <1>1, NoAnswers
<1>4. cli'.vars \in {<<>>, bsmp_init.vars} /\ (call.stage \in {"version", "vars"} => stale)
  BY <1>1 DEF AgreeInv
<1>5. stale => stale'
  BY <1>2
<1>6. ASSUME ~stale'
      PROVE  /\ call.stage = "group" => AgreedUpTo(cli, world'.srv, call.i)
             /\ call.stage \in {"op", "curves", "csum", "funcs"} => Agreed(cli, world'.srv)
  <2>1. ~stale /\ SameVisible(world, world')
    BY <1>2, <1>6, SameGroupsSeen
  <2>2. call.stage = "group" => AgreedUpTo(cli, world.srv, call.i)
    BY <1>1, <2>1 DEF AgreeInv
  <2>3. call.stage \in {"op", "curves", "csum", "funcs"} => Agreed(cli, world.srv)
    BY <1>3, <2>1, SettledAgrees
  <2> QED BY <2>1, <2>2, <2>3, AgreedSame DEF SameVisible
<1> QED BY <1>1, <1>3, <1>4, <1>5, <1>6 DEF AgreeInv

LEMMA VersionAgrees ==
    ASSUME AgreeInv, get_version
    PROVE  AgreeInv'
<1>1. call # NoCall /\ call.stage = "version" /\ wire' = Nothing /\ UNCHANGED <<cli, stale>>
  BY DEF get_version, Got
<1>2. stale' /\ cli'.vars \in {<<>>, bsmp_init.vars}
  BY <1>1 DEF AgreeInv
<1> QED BY <1>1, <1>2 DEF AgreeInv

LEMMA VarsAgree ==
    ASSUME ClientInv, AgreeInv, update_vars_list
    PROVE  AgreeInv'
<1>1. call # NoCall /\ call.stage = "vars" /\ wire' = Nothing /\ stale' = stale
  BY DEF update_vars_list, Got
<1>2. stale' /\ cli.vars \in {<<>>, bsmp_init.vars}
  BY <1>1 DEF AgreeInv
<1>3. \/ cli' = cli
      \/ wire.code = "VAR_LIST" /\ cli' = [cli EXCEPT !.vars = ListedVars(wire.payload)]
  BY DEF update_vars_list, ListedVars
<1>4. cli'.vars \in {<<>>, bsmp_init.vars}
  <2>1. CASE cli' = cli
    BY <1>2, <2>1
  <2>2. CASE wire.code = "VAR_LIST" /\ cli' = [cli EXCEPT !.vars = ListedVars(wire.payload)]
    <3>1. wire.payload = VarBytes /\ cli \in CliType
      BY <2>2 DEF ClientInv, AnswerOK
    <3>2. cli'.vars = ListedVars(wire.payload)
      BY <2>2, <3>1 DEF CliType
    <3> QED BY <3>1, <3>2, VarsRead
  <2> QED BY <1>3, <2>1, <2>2
<1> QED BY <1>1, <1>2, <1>4 DEF AgreeInv

LEMMA GroupsAgree ==
    ASSUME ClientInv, AgreeInv, update_groups_list
    PROVE  AgreeInv'
<1>1. /\ call # NoCall /\ call.stage = "groups" /\ wire' = Nothing /\ world' = world
      /\ cli \in CliType /\ WorldInv(world) /\ CallInv
  BY DEF update_groups_list, Got, ClientInv
<1>2. cli.vars \in {<<>>, bsmp_init.vars}
  BY DEF AgreeInv
<1>3. CASE wire.code # "GROUP_LIST"
  <2>1. cli' = cli /\ stale' = TRUE
    BY <1>3 DEF update_groups_list
  <2> QED BY <1>1, <1>2, <2>1, StaleStep
<1>4. CASE wire.code = "GROUP_LIST"
  <2>1. /\ cli' = [cli EXCEPT !.groups = ListedGroups(wire.payload)] /\ stale' = stale
        /\ IF wire.payload = <<>> THEN GroupsRead ELSE GoTo("group", 0)
    BY <1>4 DEF update_groups_list, ListedGroups
  <2>2. cli'.vars = cli.vars /\ cli'.groups = ListedGroups(wire.payload)
    BY <1>1, <2>1 DEF CliType
  <2>3. CASE stale
    BY <1>1, <1>2, <2>1, <2>2, <2>3 DEF AgreeInv
  <2>4. CASE ~stale
    <3>1. wire.payload = GroupBytes(world.srv)
      BY <1>1, <1>4, <2>4 DEF AgreeInv
    <3>2. AgreedUpTo(cli', world.srv, 0) /\ wire.payload # <<>>
      BY <1>1, <2>2, <3>1, GroupsListed
    <3>3. call' = At(call, "group", 0)
      BY <2>1, <3>2 DEF GoTo, At
    <3>4. call'.stage = "group" /\ call'.i = 0 /\ call' # NoCall
      <4>1. call \in CallType /\ "group" \in Stages /\ 0 \in Nat
        BY <1>1 DEF CallInv, Stages
      <4> QED BY <3>3, <4>1, AtTyped
    <3>5. wire'.code # "GROUP"
      BY <1>1, NoAnswers
    <3> QED BY <1>1, <1>2, <2>2, <3>2, <3>4, <3>5 DEF AgreeInv
  <2> QED BY <2>3, <2>4
<1> QED BY <1>3, <1>4

\* Reading group i brings the client one group further.
LEMMA GroupAgrees ==
    ASSUME ClientInv, QueryGroup, wire.code = "GROUP", cli.vars \in {<<>>, bsmp_init.vars},
           AgreedUpTo(cli, world.srv, call.i), wire.payload = world.srv.groups[call.i].vars
    PROVE  AgreedUpTo(cli', world.srv, call.i + 1)
<1> DEFINE s == world.srv
           i == call.i
           size == SizesOf(cli.vars, wire.payload)
           new == Read(cli.groups[i + 1], wire.payload, size)
<1>1. /\ size \in Nat /\ wire.payload \in Seq(Nat) /\ cli.groups[i + 1] \in GroupSeen
      /\ i \in Nat /\ i + 1 \in 1 .. Len(cli.groups) /\ cli'.vars = cli.vars
      /\ cli'.groups = [cli.groups EXCEPT ![i + 1] = new] /\ Len(cli'.groups) = Len(cli.groups)
      /\ cli.groups \in Seq(GroupSeen)
  BY QueryGroupReads DEF ClientInv, CliType
<1>2. /\ s.vars = bsmp_init.vars /\ s.count \in Nat /\ s.groups \in [Slots -> GroupInfo]
      /\ s.count <= BSMP_MAX_GROUPS /\ \A g \in 0 .. s.count - 1 : Sound(s.vars, s.groups[g], g)
  BY ServerConstants, SMTT(30) DEF ClientInv, WorldInv, ServerInv, ServerType
<1> HIDE DEF size, i, s
<1>3. SUFFICES ASSUME cli.vars # <<>> PROVE
          /\ Len(cli'.groups) = s.count
          /\ \A g \in 0 .. s.count - 1 :
                /\ cli'.groups[g + 1].writable = s.groups[g].writable
                /\ cli'.groups[g + 1].count = Len(s.groups[g].vars)
                /\ g < i + 1 => cli'.groups[g + 1] = Seen(s.groups[g])
  BY <1>1 DEF AgreedUpTo, s, i
<1>4. /\ Len(cli.groups) = s.count
      /\ \A g \in 0 .. s.count - 1 :
            /\ cli.groups[g + 1].writable = s.groups[g].writable
            /\ cli.groups[g + 1].count = Len(s.groups[g].vars)
            /\ g < i => cli.groups[g + 1] = Seen(s.groups[g])
  BY <1>3 DEF AgreedUpTo, s, i
<1>5. cli.vars = s.vars /\ i \in 0 .. s.count - 1 /\ i \in Slots
  BY <1>1, <1>2, <1>3, <1>4, ServerConstants DEF Slots
<1>6. s.groups[i] \in GroupInfo /\ s.groups[i].size = size /\ s.groups[i].vars = wire.payload
  <2>1. Sound(s.vars, s.groups[i], i) /\ s.groups[i] \in GroupInfo
    BY <1>2, <1>5
  <2>2. s.groups[i].vars = wire.payload
    BY DEF s, i
  <2>3. s.groups[i].size = SizesOf(s.vars, s.groups[i].vars)
    BY <2>1 DEF Sound
  <2> QED BY <1>5, <2>1, <2>2, <2>3 DEF size
<1>7. /\ new \in GroupSeen /\ new.writable = cli.groups[i + 1].writable
      /\ new.count = cli.groups[i + 1].count /\ new.size = size /\ new.vars = wire.payload
  BY <1>1, ReadTyped
<1> HIDE DEF new
<1>8. /\ Seen(s.groups[i]) \in GroupSeen /\ Seen(s.groups[i]).writable = s.groups[i].writable
      /\ Seen(s.groups[i]).count = Len(s.groups[i].vars) /\ Seen(s.groups[i]).size = size
      /\ Seen(s.groups[i]).vars = wire.payload
  BY <1>6, SeenTyped
<1>9. new = Seen(s.groups[i])
  BY <1>4, <1>5, <1>7, <1>8, GroupSeenSame
<1>10. ASSUME NEW g \in 0 .. s.count - 1
       PROVE  /\ cli'.groups[g + 1].writable = s.groups[g].writable
              /\ cli'.groups[g + 1].count = Len(s.groups[g].vars)
              /\ g < i + 1 => cli'.groups[g + 1] = Seen(s.groups[g])
  <2>1. CASE g = i
    <3>1. cli'.groups[g + 1] = new
      BY <1>1, <2>1
    <3> QED BY <1>4, <1>7, <1>9, <1>10, <2>1, <3>1
  <2>2. CASE g # i
    <3>1. g + 1 # i + 1 /\ g + 1 \in 1 .. Len(cli.groups) /\ (g < i + 1 => g < i)
      BY <1>1, <1>2, <1>4, <1>10, <2>2
    <3>2. cli'.groups[g + 1] = cli.groups[g + 1]
      BY <1>1, <3>1
    <3> QED BY <1>4, <1>10, <3>1, <3>2
  <2> QED BY <2>1, <2>2
<1> QED BY <1>1, <1>4, <1>10

LEMMA QueryGroupAgrees ==
    ASSUME ClientInv, AgreeInv, QueryGroup
    PROVE  AgreeInv'
<1>1. /\ call # NoCall /\ call.stage = "group" /\ wire' = Nothing /\ world' = world
      /\ cli \in CliType /\ WorldInv(world) /\ CallInv
  BY DEF QueryGroup, Got, ClientInv
<1>2. cli.vars \in {<<>>, bsmp_init.vars}
  BY DEF AgreeInv
<1>3. CASE wire.code # "GROUP"
  <2>1. cli' = [cli EXCEPT !.groups = <<>>] /\ stale' = TRUE
    BY <1>3 DEF QueryGroup
  <2>2. cli'.vars = cli.vars
    BY <1>1, <2>1 DEF CliType
  <2> QED BY <1>1, <1>2, <2>1, <2>2, StaleStep
<1>4. CASE wire.code = "GROUP"
  <2>1. /\ stale' = stale
        /\ IF call.i + 1 < Len(cli.groups) THEN GoTo("group", call.i + 1) ELSE GroupsRead
    BY <1>4 DEF QueryGroup
  <2>2. /\ call.i \in Nat /\ call.i + 1 \in 1 .. Len(cli.groups) /\ cli'.vars = cli.vars
        /\ Len(cli'.groups) = Len(cli.groups) /\ cli.groups \in Seq(GroupSeen)
    BY <1>1, <1>4, QueryGroupReads DEF CliType
  <2>3. call \in CallType /\ "group" \in Stages /\ "curves" \in Stages /\ 0 \in Nat
    BY <1>1 DEF CallInv, Stages
  <2>4. ~stale => AgreedUpTo(cli', world.srv, call.i + 1)
    <3>1. SUFFICES ASSUME ~stale PROVE AgreedUpTo(cli', world.srv, call.i + 1)
      OBVIOUS
    <3>2. AgreedUpTo(cli, world.srv, call.i) /\ wire.payload = world.srv.groups[call.i].vars
      BY <1>1, <1>4, <3>1 DEF AgreeInv
    <3> QED BY <1>2, <1>4, <3>2, GroupAgrees
  <2>5. CASE call.i + 1 < Len(cli.groups)
    <3>1. call' = At(call, "group", call.i + 1)
      BY <2>1, <2>5 DEF GoTo, At
    <3>2. call.i + 1 \in Nat
      BY <2>2
    <3>3. call'.stage = "group" /\ call'.i = call.i + 1 /\ call' # NoCall
      BY <2>3, <3>1, <3>2, AtTyped
    <3>4. wire'.code # "GROUP"
      BY <1>1, NoAnswers
    <3> QED BY <1>1, <1>2, <2>1, <2>2, <2>4, <3>3, <3>4 DEF AgreeInv
  <2>6. CASE ~(call.i + 1 < Len(cli.groups))
    <3>1. call' = NoCall \/ call' = At(call, "curves", 0)
      BY <2>1, <2>6 DEF GroupsRead, GoTo, Return, At
    <3>2. call' # NoCall => call'.stage = "curves"
      BY <2>3, <3>1, AtTyped
    <3>3. ~stale => Agreed(cli', world.srv)
      <4>1. SUFFICES ASSUME ~stale, cli'.vars # <<>>
                     PROVE  /\ Len(cli'.groups) = world.srv.count
                            /\ \A g \in 0 .. world.srv.count - 1 :
                                  cli'.groups[g + 1] = Seen(world.srv.groups[g])
        BY DEF Agreed
      <4>2. /\ Len(cli'.groups) = world.srv.count
            /\ \A g \in 0 .. world.srv.count - 1 :
                  g < call.i + 1 => cli'.groups[g + 1] = Seen(world.srv.groups[g])
        BY <2>4, <4>1 DEF AgreedUpTo
      <4>3. Len(cli.groups) \in Nat /\ call.i + 1 = world.srv.count
        BY <2>2, <2>6, <4>2
      <4>4. \A g \in 0 .. world.srv.count - 1 : g < call.i + 1
        BY <2>2, <4>3
      <4> QED BY <4>2, <4>4
    <3>4. ~stale' => Agreed(cli', world'.srv)
      BY <1>1, <2>1, <3>3
    <3> QED BY <1>1, <2>2, <3>2, <3>4, AgreedStep
  <2> QED BY <2>5, <2>6
<1> QED BY <1>3, <1>4

\* The stages after the groups: their steps leave the variables and the groups.
LEMMA LaterAgrees ==
    ASSUME AgreeInv, call # NoCall, call.stage \in {"op", "curves", "csum", "funcs"},
           call.stage = "op" => ~ChangesGroups(call),
           wire' = Nothing, UNCHANGED <<world, stale>>, cli'.vars = cli.vars, cli'.groups = cli.groups,
           call' # NoCall => call'.stage \in {"op", "curves", "csum", "funcs"}
    PROVE  AgreeInv'
<1>1. ~stale => Agreed(cli, world.srv)
  BY SettledAgrees
<1>2. ~stale' => Agreed(cli', world'.srv)
  BY <1>1, AgreedSame
<1> QED BY <1>2, AgreedStep

LEMMA CurvesAgree ==
    ASSUME ClientInv, AgreeInv, update_curves_list \/ QueryChecksum \/ update_funcs_list
    PROVE  AgreeInv'
<1>1. /\ call # NoCall /\ call.stage \in {"curves", "csum", "funcs"} /\ wire' = Nothing
      /\ UNCHANGED <<world, stale>> /\ cli \in CliType /\ call \in CallType
  BY DEF update_curves_list, QueryChecksum, update_funcs_list, Got, ClientInv, CallInv
<1>2. cli'.vars = cli.vars /\ cli'.groups = cli.groups
  <2>1. CASE update_curves_list
    BY <1>1, <2>1 DEF update_curves_list, CliType
  <2>2. CASE QueryChecksum
    BY <1>1, <2>2 DEF QueryChecksum, CliType
  <2>3. CASE update_funcs_list
    BY <1>1, <2>3 DEF update_funcs_list, CliType
  <2> QED BY <2>1, <2>2, <2>3
<1>3. call' = NoCall \/ \E stage \in {"csum", "funcs"} : \E i : call' = At(call, stage, i)
  <2>1. CASE update_curves_list
    BY <2>1 DEF update_curves_list, ListFails, CurvesRead, GoTo, Return, At
  <2>2. CASE QueryChecksum
    BY <2>2 DEF QueryChecksum, CurvesRead, GoTo, Return, At
  <2>3. CASE update_funcs_list
    BY <2>3 DEF update_funcs_list, Return
  <2> QED BY <2>1, <2>2, <2>3
<1>4. \A stage, i : At(call, stage, i).stage = stage
  BY <1>1 DEF At, CallType
<1>5. call' # NoCall => call'.stage \in {"op", "curves", "csum", "funcs"}
  BY <1>3, <1>4
<1>6. call.stage # "op"
  BY <1>1
<1> QED BY <1>1, <1>2, <1>5, <1>6, LaterAgrees

LEMMA AnsweredAgrees ==
    ASSUME ClientInv, AgreeInv, Answered
    PROVE  AgreeInv'
<1>1. /\ call # NoCall /\ call.stage = "op" /\ wire' = Nothing
      /\ UNCHANGED <<world, cli, stale>> /\ call \in CallType /\ call.op \in OpNames
  BY DEF Answered, Got, ClientInv, CallInv
<1> DEFINE update == Ops[call.op].update
           ok == wire.code \in Ops[call.op].answer
<1>2. IF ~ok THEN Return("ERR_COMM", <<>>)
      ELSE IF update # "none" THEN GoTo(update, 0)
      ELSE Return("SUCCESS", Out(wire))
  BY DEF Answered
<1>3. /\ update \in {"none", "groups", "curves"} /\ (update = "groups" <=> ChangesGroups(call))
      /\ ChangesGroups(call) => Ops[call.op].answer = {"OK"}
  BY <1>1, OpsUpdates DEF ChangesGroups
<1> HIDE DEF update
<1>4. \A stage : At(call, stage, 0).stage = stage
  BY <1>1 DEF At, CallType
<1>5. call' = NoCall \/ (ok /\ call' = At(call, update, 0) /\ update # "none")
  BY <1>2 DEF Return, GoTo, At
<1>6. CASE ~ChangesGroups(call)
  <2>1. call' # NoCall => call'.stage = "curves"
    BY <1>3, <1>4, <1>5, <1>6
  <2> QED BY <1>1, <1>6, <2>1, LaterAgrees
<1>7. CASE ChangesGroups(call) /\ ~ok
  <2>1. wire.code # "OK" /\ call' = NoCall
    BY <1>3, <1>5, <1>7
  <2>2. ~stale' => Agreed(cli', world'.srv)
    BY <1>1, <2>1, SettledAgrees
  <2> QED BY <1>1, <2>1, <2>2, AgreedStep
<1>8. CASE ChangesGroups(call) /\ ok
  <2>1. GoTo(update, 0) /\ update = "groups"
    BY <1>2, <1>3, <1>8
  <2>2. call'.stage = "groups" /\ call' # NoCall
    <3>1. call' = At(call, "groups", 0)
      BY <2>1 DEF GoTo, At
    <3>2. "groups" \in Stages /\ 0 \in Nat
      BY DEF Stages
    <3> QED BY <1>1, <3>1, <3>2, AtTyped
  <2>3. wire'.code # "GROUP_LIST"
    BY <1>1, NoAnswers
  <2>4. cli'.vars \in {<<>>, bsmp_init.vars}
    BY <1>1 DEF AgreeInv
  <2> QED BY <1>1, <2>2, <2>3, <2>4 DEF AgreeInv
<1> QED BY <1>6, <1>7, <1>8

LEMMA NextBlockAgrees ==
    ASSUME ClientInv, AgreeInv, NextBlock
    PROVE  AgreeInv'
<1>1. /\ call # NoCall /\ call.stage = "op" /\ wire' = Nothing
      /\ UNCHANGED <<world, cli, stale>> /\ call \in CallType
      /\ call.op \in {"read_curve", "write_curve"}
  BY DEF NextBlock, Got, ClientInv, CallInv
<1> DEFINE c == [call EXCEPT !.bytes = IF call.op = "read_curve" THEN @ \o Out(wire) ELSE @]
<1>2. call' = NoCall \/ call' = [c EXCEPT !.i = @ + 1]
  BY DEF NextBlock, Return
<1>3. [c EXCEPT !.i = @ + 1].stage = "op"
  BY <1>1 DEF CallType
<1>4. ~ChangesGroups(call) /\ (call' # NoCall => call'.stage = "op")
  BY <1>1, <1>2, <1>3 DEF ChangesGroups
<1> QED BY <1>1, <1>4, LaterAgrees

LEMMA FaultAgrees ==
    ASSUME ClientInv, AgreeInv, Restart \/ Other
    PROVE  AgreeInv'
<1>1. stale' = TRUE /\ UNCHANGED <<cli, call, wire>>
  BY DEF Restart, Other
<1>2. cli'.vars \in {<<>>, bsmp_init.vars} /\ (call' = NoCall => wire' = Nothing)
  BY <1>1 DEF AgreeInv
<1> QED BY <1>1, <1>2, StaleStep

LEMMA SameServerAgrees ==
    ASSUME AgreeInv, UNCHANGED <<cli, call, wire, stale>>, world'.srv = world.srv
    PROVE  AgreeInv'
BY DEF AgreeInv, ChangesGroups

\* One step keeps the agreement.
LEMMA AgreeStep == ClientInv /\ AgreeInv /\ [Next]_vars => AgreeInv'
<1> SUFFICES ASSUME ClientInv, AgreeInv, [Next]_vars PROVE AgreeInv'
  OBVIOUS
<1>1. CASE Call \/ bsmp_client_init \/ Reject
  BY <1>1, CallAgrees, ClientInitAgrees, RejectAgrees
<1>2. CASE Deliver \/ LoseRequest \/ LoseAnswer
  BY <1>2, DeliverAgrees, LossAgrees
<1>3. CASE ClientTakes
  BY <1>3, VersionAgrees, VarsAgree, GroupsAgree, QueryGroupAgrees, CurvesAgree, AnsweredAgrees,
     NextBlockAgrees DEF ClientTakes
<1>4. CASE Restart \/ Other
  BY <1>4, FaultAgrees
<1>5. CASE C28Moves
  <2>1. UNCHANGED <<cli, call, wire, stale>>
    BY <1>5 DEF C28Moves
  <2> QED BY <1>5, <2>1, C28Serves, SameServerAgrees
<1>6. CASE UNCHANGED vars
  BY <1>6, SameServerAgrees DEF vars
<1> QED BY <1>1, <1>2, <1>3, <1>4, <1>5, <1>6 DEF Next, Progress

(* Between calls the client's list of groups is the server's, unless       *)
(* somebody else changed it, the server restarted or an exchange about it  *)
(* was lost: whatever calls were made before, refused and failed ones      *)
(* included (update_groups_list of client.c after bsmp_create_group and    *)
(* bsmp_remove_all_groups).                                                *)
THEOREM ClientSeesGroups == Spec => []ClientAgrees
<1>1. AgreeInv => ClientAgrees
  <2> SUFFICES ASSUME AgreeInv, call = NoCall, ~stale, cli.vars # <<>>
               PROVE  /\ Len(cli.groups) = world.srv.count
                      /\ \A g \in Visible : cli.groups[g + 1] = Seen(world.srv.groups[g])
    BY DEF ClientAgrees, Seen
  <2> QED BY SettledAgrees DEF Agreed, Visible
<1> QED BY <1>1, AgreeInit, AgreeStep, Invariant, PTL DEF Spec
=============================================================================
