--------------------------- MODULE SporbarhetProofs ---------------------------
(***************************************************************************)
(* Theorems about Sporbarhet, for any kommuner and problems and any number  *)
(* of fetches: they need no bound on the clock.                             *)
(***************************************************************************)
EXTENDS Sporbarhet, FiniteSetTheorems, TLAPS

\* A written file has the fields of a file.
LEMMA FilFakta ==
  ASSUME TypeOK, NEW f \in filer
  PROVE  /\ f.kilde \in Kilde /\ Hentet(f) \in Nat /\ f.funn \in SUBSET Funn
         /\ \A d \in f.funn : KildeTil(d[1]) = f.kilde
BY DEF TypeOK, Fil, Hentet

\* Applying a file logs deviations that point at the id just given.
LEMMA LoggetType ==
  ASSUME TypeOK, NEW f \in filer
  PROVE  Logget(f) \subseteq Avvik
<1>1. \A d \in f.funn : d[1] \in Avvikskilde /\ d[2] \in Problem \cup {"henting"}
  BY FilFakta DEF Funn
<1>2. \A d \in f.funn :
        [uttrekk |-> nesteId, kilde |-> d[1], problem |-> d[2], gammel |-> FALSE] \in Avvik
  BY <1>1 DEF TypeOK, Avvik
<1> QED BY <1>2 DEF Logget

\* What a script writes is a file that logs for its own source.
LEMMA Skrevet ==
  ASSUME TypeOK, Skrives
  PROVE  \E f : NyFil(f) /\ f \in Fil /\ \A d \in f.funn : KildeTil(d[1]) = f.kilde
<1>1. klokke \in Nat BY DEF TypeOK
<1>2. ASSUME NEW k \in Kommune, IkkeHentet(k)
      PROVE  \E f : NyFil(f) /\ f \in Fil /\ \A d \in f.funn : KildeTil(d[1]) = f.kilde
  <2> DEFINE f == [kilde |-> k, skrevet |-> klokke, feilet |-> TRUE, funn |-> {<<k, "henting">>}]
  <2>1. <<k, "henting">> \in Funn BY DEF Funn, Avvikskilde
  <2>2. f \in Fil BY <1>1, <2>1 DEF Fil, Kilde
  <2>3. \A d \in f.funn : KildeTil(d[1]) = f.kilde BY DEF KildeTil
  <2> QED BY <1>2, <2>2, <2>3 DEF IkkeHentet
<1>3. ASSUME NEW k \in Kommune, NEW funn \in SUBSET Problem, Skriv(k, funn)
      PROVE  \E f : NyFil(f) /\ f \in Fil /\ \A d \in f.funn : KildeTil(d[1]) = f.kilde
  <2> DEFINE f == [kilde |-> k, skrevet |-> klokke, feilet |-> FALSE, funn |-> {k} \X funn]
  <2>1. {k} \X funn \subseteq Funn BY DEF Funn, Avvikskilde
  <2>2. f \in Fil BY <1>1, <2>1 DEF Fil, Kilde
  <2>3. \A d \in f.funn : KildeTil(d[1]) = f.kilde BY DEF KildeTil
  <2> QED BY <1>3, <2>2, <2>3 DEF Skriv
<1>4. ASSUME NEW funn \in SUBSET (Matrikkelavvik \X Problem), SkrivMatrikkel(funn)
      PROVE  \E f : NyFil(f) /\ f \in Fil /\ \A d \in f.funn : KildeTil(d[1]) = f.kilde
  <2> DEFINE f == [kilde |-> "matrikkel", skrevet |-> klokke, feilet |-> FALSE, funn |-> funn]
  <2>1. funn \subseteq Funn BY DEF Funn, Avvikskilde
  <2>2. f \in Fil BY <1>1, <2>1 DEF Fil, Kilde
  <2>3. \A d \in f.funn : KildeTil(d[1]) = f.kilde BY Kildenavn DEF KildeTil
  <2> QED BY <1>4, <2>2, <2>3 DEF SkrivMatrikkel
<1> QED BY <1>2, <1>3, <1>4 DEF Skrives

\* Types and unique, given ids.
THEOREM TypeKorrekt == Spec => []TypeOK
<1>1. Init => TypeOK BY DEF Init, TypeOK
<1>2. TypeOK /\ [Next]_vars => TypeOK'
  <2> SUFFICES ASSUME TypeOK, [Next]_vars PROVE TypeOK' OBVIOUS
  <2>1. CASE Skrives
    <3>1. PICK f : NyFil(f) /\ f \in Fil /\ \A d \in f.funn : KildeTil(d[1]) = f.kilde
      BY <2>1, Skrevet
    <3>2. filer' \subseteq Fil /\ \A g \in filer' : \A d \in g.funn : KildeTil(d[1]) = g.kilde
      BY <3>1 DEF NyFil, TypeOK
    <3>3. klokke' \in Nat BY <3>1 DEF NyFil, TypeOK
    <3> QED BY <3>1, <3>2, <3>3 DEF NyFil, TypeOK
  <2>2. ASSUME NEW f \in filer, Anvend(f) PROVE TypeOK'
    <3> DEFINE alle == uttrekk \cup {Registrert(f)}
               igjen == IF f.feilet THEN alle ELSE Beholdes(alle, f.kilde)
    <3>1. f.kilde \in Kilde /\ Hentet(f) \in Nat /\ f.funn \in SUBSET Funn BY FilFakta
    <3>2. igjen \subseteq alle BY DEF Beholdes
    <3>3. alle \subseteq Uttrekk /\ \A u \in alle : u.id < nesteId + 1
      <4>1. Registrert(f) \in Uttrekk /\ Registrert(f).id = nesteId
        BY <3>1 DEF TypeOK, Registrert, Uttrekk
      <4>2. \A u \in uttrekk : u \in Uttrekk /\ u.id \in Nat /\ u.id < nesteId
        BY DEF TypeOK, Uttrekk
      <4> QED BY <4>1, <4>2 DEF TypeOK
    <3>4. Logget(f) \subseteq Avvik BY LoggetType
    <3>5. UtenUttrekk(avvik \cup Logget(f), igjen) \subseteq Avvik
      BY <3>4 DEF TypeOK, UtenUttrekk, Avvik
    <3>7. uttrekk' = igjen /\ avvik' = UtenUttrekk(avvik \cup Logget(f), igjen)
      BY <2>2 DEF Anvend
    <3>8. uttrekk' \subseteq Uttrekk /\ \A u \in uttrekk' : u.id < nesteId'
      BY <2>2, <3>2, <3>3, <3>7 DEF Anvend
    <3>9. siste' \in [Kilde -> [hentet : Nat, funn : SUBSET Funn]]
      BY <2>2, <3>1 DEF Anvend, TypeOK
    <3>10. /\ nesteId' \in Nat /\ klokke' \in Nat /\ filer' \subseteq Fil
           /\ \A g \in filer' : \A d \in g.funn : KildeTil(d[1]) = g.kilde
      BY <2>2 DEF Anvend, TypeOK
    <3> QED BY <3>5, <3>7, <3>8, <3>9, <3>10 DEF TypeOK
  <2>3. ASSUME NEW f \in filer, Avbrutt(f) PROVE TypeOK' BY <2>3 DEF Avbrutt, TypeOK
  <2>4. CASE Eldes BY <2>4 DEF Eldes, TypeOK, Avvik
  <2>5. CASE Prune BY <2>5 DEF Prune, TypeOK
  <2>6. CASE UNCHANGED vars BY <2>6 DEF vars, TypeOK
  <2> QED BY <2>1, <2>2, <2>3, <2>4, <2>5, <2>6 DEF Next, Anvendes, Vedlikehold
<1> QED BY <1>1, <1>2, PTL DEF Spec

----------------------------------------------------------------------------
(* The references between the tables.                                      *)

\* Applying a file keeps the references: the clean-up clears those it breaks, and
\* the new deviations carry the id the sequence has just given.
LEMMA AnvendReferanse ==
  ASSUME TypeOK, ReferanseHel, NEW f \in filer, Anvend(f)
  PROVE  ReferanseHel'
<1> DEFINE alle == uttrekk \cup {Registrert(f)}
           igjen == IF f.feilet THEN alle ELSE Beholdes(alle, f.kilde)
<1>1. /\ uttrekk' = igjen
      /\ avvik' = UtenUttrekk(avvik \cup Logget(f), igjen)
      /\ igjen \subseteq alle
  BY DEF Anvend, Beholdes
<1>2. Registrert(f).id = nesteId /\ Registrert(f).kilde = f.kilde BY DEF Registrert
<1>3. \A u \in uttrekk : u.id \in Nat /\ u.id < nesteId BY DEF TypeOK, Uttrekk
<1>4. \A u, v \in alle : u.id = v.id => u = v
  BY <1>2, <1>3 DEF ReferanseHel, TypeOK
<1>5. \A a \in avvik : a.uttrekk # Ingen => \E u \in alle : u.id = a.uttrekk /\ u.kilde = KildeTil(a.kilde)
  BY DEF ReferanseHel
<1>6. \A a \in Logget(f) : \E u \in alle : u.id = a.uttrekk /\ u.kilde = KildeTil(a.kilde)
  BY <1>2, FilFakta DEF Logget
<1>7. ASSUME NEW a \in avvik', a.uttrekk # Ingen
      PROVE  \E u \in igjen : u.id = a.uttrekk /\ u.kilde = KildeTil(a.kilde)
  <2>1. PICK x \in avvik \cup Logget(f) :
          a = IF \E u \in igjen : u.id = x.uttrekk THEN x ELSE [x EXCEPT !.uttrekk = Ingen]
    BY <1>1 DEF UtenUttrekk
  <2>2. x \in Avvik BY LoggetType DEF TypeOK
  <2>3. a = x /\ \E u \in igjen : u.id = x.uttrekk BY <1>7, <2>1, <2>2 DEF Avvik
  <2>4. \E v \in alle : v.id = x.uttrekk /\ v.kilde = KildeTil(x.kilde)
    BY <1>5, <1>6, <1>7, <2>3
  <2> QED BY <1>1, <1>4, <2>3, <2>4
<1> QED BY <1>1, <1>4, <1>7 DEF ReferanseHel

\* A deviation that points at a fetch points at one that exists, of its source.
THEOREM ReferanseHelAlltid == Spec => []ReferanseHel
<1>1. Init => ReferanseHel BY DEF Init, ReferanseHel
<1>2. TypeOK /\ ReferanseHel /\ [Next]_vars => ReferanseHel'
  <2> SUFFICES ASSUME TypeOK, ReferanseHel, [Next]_vars PROVE ReferanseHel' OBVIOUS
  <2>1. CASE Skrives BY <2>1 DEF Skrives, Skriv, IkkeHentet, SkrivMatrikkel, NyFil, ReferanseHel
  <2>2. ASSUME NEW f \in filer, Anvend(f) PROVE ReferanseHel' BY <2>2, AnvendReferanse
  <2>3. ASSUME NEW f \in filer, Avbrutt(f) PROVE ReferanseHel' BY <2>3 DEF Avbrutt, ReferanseHel
  <2>4. CASE Eldes BY <2>4 DEF Eldes, ReferanseHel, TypeOK, Avvik
  <2>5. CASE Prune BY <2>5 DEF Prune, ReferanseHel
  <2>6. CASE UNCHANGED vars BY <2>6 DEF vars, ReferanseHel
  <2> QED BY <2>1, <2>2, <2>3, <2>4, <2>5, <2>6 DEF Next, Anvendes, Vedlikehold
<1> QED BY <1>1, <1>2, TypeKorrekt, PTL DEF Spec

----------------------------------------------------------------------------
(* The current deviations.                                                 *)

\* What is current for k, said of the latest fetch of k alone.
LEMMA GjeldendePerKilde ==
  ASSUME ReferanseHel, TypeOK, NEW k \in Kilde
  PROVE  {a \in Gjeldende : KildeTil(a.kilde) = k}
           = {a \in avvik : /\ KildeTil(a.kilde) = k
                            /\ \E u \in SisteUttrekk(uttrekk) : u.kilde = k /\ u.id = a.uttrekk}
<1>1. ASSUME NEW a \in avvik, KildeTil(a.kilde) = k, NEW u \in SisteUttrekk(uttrekk), u.id = a.uttrekk
      PROVE  u.kilde = k
  <2>1. u \in uttrekk /\ u.id \in Nat BY DEF SisteUttrekk, TypeOK, Uttrekk
  <2>2. a.uttrekk # Ingen BY <1>1, <2>1, IngenUkjent
  <2> QED BY <1>1, <2>1, <2>2 DEF ReferanseHel
<1> QED BY <1>1 DEF Gjeldende

\* A load of another source leaves the current deviations of k as they are.
LEMMA AndreKilderUrort ==
  ASSUME TypeOK, ReferanseHel, TypeOK', ReferanseHel',
         NEW k \in Kilde, NEW f \in filer, Anvend(f), f.kilde # k
  PROVE  {a \in Gjeldende : KildeTil(a.kilde) = k}' = {a \in Gjeldende : KildeTil(a.kilde) = k}
<1> DEFINE alle == uttrekk \cup {Registrert(f)}
           igjen == IF f.feilet THEN alle ELSE Beholdes(alle, f.kilde)
<1>1. uttrekk' = igjen /\ avvik' = UtenUttrekk(avvik \cup Logget(f), igjen) BY DEF Anvend
<1>2. {u \in uttrekk' : u.kilde = k} = {u \in uttrekk : u.kilde = k}
  BY <1>1 DEF Beholdes, Registrert
<1>3. {u \in SisteUttrekk(uttrekk') : u.kilde = k} = {u \in SisteUttrekk(uttrekk) : u.kilde = k}
  BY <1>2 DEF SisteUttrekk
<1>4. \A a \in Logget(f) : KildeTil(a.kilde) # k BY FilFakta DEF Logget
<1>5. ASSUME NEW a \in avvik, KildeTil(a.kilde) = k, a.uttrekk # Ingen
      PROVE  \E u \in igjen : u.id = a.uttrekk
  <2>1. PICK u \in uttrekk : u.id = a.uttrekk /\ u.kilde = KildeTil(a.kilde) BY <1>5 DEF ReferanseHel
  <2>2. u \in uttrekk' BY <1>2, <1>5, <2>1
  <2> QED BY <1>1, <2>1, <2>2
<1>6. \A a \in avvik : a.uttrekk = Ingen => [a EXCEPT !.uttrekk = Ingen] = a
  BY DEF TypeOK, Avvik
<1>7. \A a \in avvik \cup Logget(f) : [a EXCEPT !.uttrekk = Ingen].kilde = a.kilde
  BY DEF TypeOK, Avvik, Logget
<1>8. {a \in avvik' : KildeTil(a.kilde) = k} = {a \in avvik : KildeTil(a.kilde) = k}
  <2>1. ASSUME NEW a \in avvik, KildeTil(a.kilde) = k PROVE a \in avvik'
    BY <1>1, <1>5, <1>6, <2>1 DEF UtenUttrekk
  <2>2. ASSUME NEW a \in avvik', KildeTil(a.kilde) = k PROVE a \in avvik
    <3>1. PICK x \in avvik \cup Logget(f) :
            a = IF \E u \in igjen : u.id = x.uttrekk THEN x ELSE [x EXCEPT !.uttrekk = Ingen]
      BY <1>1 DEF UtenUttrekk
    <3>2. x.kilde = a.kilde BY <1>7, <3>1
    <3>3. KildeTil(x.kilde) = k /\ x \in avvik BY <1>4, <2>2, <3>2
    <3> QED BY <1>5, <1>6, <3>1, <3>3
  <2> QED BY <2>1, <2>2
<1>9. {a \in Gjeldende : KildeTil(a.kilde) = k}
        = {a \in {x \in avvik : KildeTil(x.kilde) = k} :
             \E u \in {v \in SisteUttrekk(uttrekk) : v.kilde = k} : u.id = a.uttrekk}
  BY GjeldendePerKilde
<1>10. {a \in Gjeldende : KildeTil(a.kilde) = k}'
        = {a \in {x \in avvik' : KildeTil(x.kilde) = k} :
             \E u \in {v \in SisteUttrekk(uttrekk') : v.kilde = k} : u.id = a.uttrekk}
  <2>1. \A a \in avvik', u \in uttrekk' : KildeTil(a.kilde) = k /\ u.id = a.uttrekk => u.kilde = k
    BY IngenUkjent DEF ReferanseHel, TypeOK, Uttrekk
  <2> QED BY <2>1 DEF Gjeldende, SisteUttrekk
<1> QED BY <1>3, <1>8, <1>9, <1>10

\* Age changes no one's place in the view, and the prune spares what is in it.
LEMMA VedlikeholdUrort ==
  ASSUME TypeOK, NEW k \in Kilde, Vedlikehold
  PROVE  GjeldendeFor(k)' = GjeldendeFor(k)
<1>1. SisteUttrekk(uttrekk)' = SisteUttrekk(uttrekk) BY DEF Vedlikehold, Eldes, Prune, SisteUttrekk
<1>2. CASE Prune
  <2>1. Gjeldende' = Gjeldende BY <1>1, <1>2 DEF Prune, Gjeldende
  <2> QED BY <2>1 DEF GjeldendeFor
<1>3. CASE Eldes
  <2>1. \A a \in avvik : /\ [a EXCEPT !.gammel = TRUE].kilde = a.kilde
                         /\ [a EXCEPT !.gammel = TRUE].uttrekk = a.uttrekk
                         /\ [a EXCEPT !.gammel = TRUE].problem = a.problem
    BY DEF TypeOK, Avvik
  <2>2. avvik' = {[a EXCEPT !.gammel = TRUE] : a \in avvik} BY <1>3 DEF Eldes
  <2>3. Gjeldende' = {[a EXCEPT !.gammel = TRUE] : a \in Gjeldende}
    BY <1>1, <2>1, <2>2 DEF Gjeldende
  <2>4. \A a \in Gjeldende : a \in avvik BY DEF Gjeldende
  <2>5. ASSUME NEW a \in Gjeldende', KildeTil(a.kilde) = k
        PROVE  <<a.kilde, a.problem>> \in GjeldendeFor(k)
    <3>1. PICK x \in Gjeldende : a = [x EXCEPT !.gammel = TRUE] BY <2>3
    <3>2. KildeTil(x.kilde) = k /\ x.kilde = a.kilde /\ x.problem = a.problem
      BY <2>1, <2>4, <2>5, <3>1
    <3> QED BY <3>2 DEF GjeldendeFor
  <2>6. ASSUME NEW x \in Gjeldende, KildeTil(x.kilde) = k
        PROVE  <<x.kilde, x.problem>> \in GjeldendeFor(k)'
    <3>1. [x EXCEPT !.gammel = TRUE] \in Gjeldende' BY <2>3
    <3>2. /\ [x EXCEPT !.gammel = TRUE].kilde = x.kilde
          /\ [x EXCEPT !.gammel = TRUE].problem = x.problem
      BY <2>1, <2>4, <2>6
    <3>3. PICK y \in Gjeldende' : y.kilde = x.kilde /\ y.problem = x.problem BY <3>1, <3>2
    <3>4. KildeTil(y.kilde) = k BY <2>6, <3>3
    <3>5. <<y.kilde, y.problem>> \in GjeldendeFor(k)' BY <3>4 DEF GjeldendeFor, KildeTil
    <3> QED BY <3>3, <3>5
  <2> QED BY <2>5, <2>6 DEF GjeldendeFor
<1> QED BY <1>2, <1>3 DEF Vedlikehold

\* What is current for a source changes only when a file of that source is applied.
THEOREM GjeldendeVernetAlltid == Spec => GjeldendeVernet
<1>1. ASSUME TypeOK, ReferanseHel, TypeOK', ReferanseHel', [Next]_vars, NEW k \in Kilde
      PROVE  \/ \E f \in filer : f.kilde = k /\ Anvend(f)
             \/ GjeldendeFor(k)' = GjeldendeFor(k)
  <2>1. CASE Skrives \/ UNCHANGED vars
    BY <2>1 DEF Skrives, Skriv, IkkeHentet, SkrivMatrikkel, NyFil, vars, GjeldendeFor, Gjeldende, SisteUttrekk
  <2>2. ASSUME NEW f \in filer, Avbrutt(f) PROVE GjeldendeFor(k)' = GjeldendeFor(k)
    BY <2>2 DEF Avbrutt, GjeldendeFor, Gjeldende, SisteUttrekk
  <2>3. ASSUME NEW f \in filer, Anvend(f), f.kilde # k
        PROVE  GjeldendeFor(k)' = GjeldendeFor(k)
    BY <1>1, <2>3, AndreKilderUrort DEF GjeldendeFor
  <2>4. CASE Vedlikehold BY <1>1, <2>4, VedlikeholdUrort
  <2> QED BY <1>1, <2>1, <2>2, <2>3, <2>4 DEF Next, Anvendes
<1>2. TypeOK /\ ReferanseHel /\ TypeOK' /\ ReferanseHel' /\ [Next]_vars =>
        [\A k \in Kilde : \/ \E f \in filer : f.kilde = k /\ Anvend(f)
                          \/ GjeldendeFor(k)' = GjeldendeFor(k)]_vars
  BY <1>1
<1> QED BY <1>2, TypeKorrekt, ReferanseHelAlltid, PTL DEF Spec, GjeldendeVernet

----------------------------------------------------------------------------
(* The latest of the loaded fetches.                                       *)

\* The newest row of a source is the latest of the fetches loaded for it, and a source
\* without rows has had no fetch loaded: clean-up never takes the newest row.
NyesteErSiste(k) ==
  \/ /\ \A u \in uttrekk : u.kilde # k
     /\ siste[k] = [hentet |-> 0, funn |-> {}]
  \/ \E u \in SisteUttrekk(uttrekk) : u.kilde = k /\ u.hentet = siste[k].hentet

\* The inductive invariant behind GjeldendeErSisteHenting.
ISiste == \A k \in Kilde : NyesteErSiste(k) /\ GjeldendeFor(k) = siste[k].funn

\* Rows of the two tables that fit each other: ReferanseHel, of any two sets of rows.
Hele(alle, rader) ==
  /\ alle \subseteq Uttrekk
  /\ \A u, v \in alle : u.id = v.id => u = v
  /\ \A a \in rader : a.uttrekk # Ingen => \E u \in alle : u.id = a.uttrekk /\ u.kilde = KildeTil(a.kilde)

Problemer(rader) == {<<a.kilde, a.problem>> : a \in rader}

Peker(rader, k, u) == {x \in rader : KildeTil(x.kilde) = k /\ x.uttrekk = u.id}

\* Of two rows of one source one comes before the other.
LEMMA ForanOrden ==
  ASSUME NEW u \in Uttrekk, NEW v \in Uttrekk, u.kilde = v.kilde, u.id # v.id
  PROVE  Foran(u, v) \/ Foran(v, u)
<1>1. u.id \in Nat /\ v.id \in Nat /\ u.hentet \in Nat /\ v.hentet \in Nat
  BY DEF Uttrekk
<1> QED
  BY <1>1 DEF Foran, Nyere

\* The view shows of a source the deviations that point at its newest row.
LEMMA NyesteViser ==
  ASSUME NEW alle, NEW rader, Hele(alle, rader), NEW k, NEW w \in SisteUttrekk(alle), w.kilde = k
  PROVE  {a \in rader : KildeTil(a.kilde) = k /\ \E u \in SisteUttrekk(alle) : u.id = a.uttrekk}
           = Peker(rader, k, w)
<1>1. ASSUME NEW a \in rader, KildeTil(a.kilde) = k, NEW u \in SisteUttrekk(alle), u.id = a.uttrekk
      PROVE  u = w
  <2>1. u \in alle /\ w \in alle /\ u \in Uttrekk /\ w \in Uttrekk /\ u.id \in Nat
    BY DEF SisteUttrekk, Hele, Uttrekk
  <2>2. a.uttrekk # Ingen
    BY <1>1, <2>1, IngenUkjent
  <2>3. u.kilde = k
    BY <1>1, <2>1, <2>2 DEF Hele
  <2>4. ~ Foran(u, w) /\ ~ Foran(w, u)
    BY <2>1, <2>3 DEF SisteUttrekk, Foran
  <2> QED
    BY <2>1, <2>3, <2>4, ForanOrden DEF Hele
<1> QED
  BY <1>1 DEF Peker

\* What is current for a source is read from its newest extract.
LEMMA GjeldendeAvNyeste ==
  ASSUME NEW alle, NEW rader, Hele(alle, rader), alle = uttrekk, rader = avvik,
         NEW k, NEW w \in SisteUttrekk(alle), w.kilde = k
  PROVE  GjeldendeFor(k) = Problemer(Peker(rader, k, w))
<1>1. {x \in Gjeldende : KildeTil(x.kilde) = k}
        = {a \in rader : KildeTil(a.kilde) = k /\ \E u \in SisteUttrekk(alle) : u.id = a.uttrekk}
  BY DEF Gjeldende
<1> QED
  BY <1>1, NyesteViser DEF GjeldendeFor, Problemer

\* The same after a step.
LEMMA GjeldendeAvNyesteEtter ==
  ASSUME NEW alle, NEW rader, Hele(alle, rader), alle = uttrekk', rader = avvik',
         NEW k, NEW w \in SisteUttrekk(alle), w.kilde = k
  PROVE  GjeldendeFor(k)' = Problemer(Peker(rader, k, w))
<1>1. {x \in Gjeldende : KildeTil(x.kilde) = k}'
        = {a \in rader : KildeTil(a.kilde) = k /\ \E u \in SisteUttrekk(alle) : u.id = a.uttrekk}
  BY DEF Gjeldende, SisteUttrekk
<1> QED
  BY <1>1, NyesteViser DEF GjeldendeFor, Problemer

\* What the application of f does to the tables.
LEMMA AnvendFakta ==
  ASSUME TypeOK, ReferanseHel, TypeOK', ReferanseHel', NEW f \in filer, Anvend(f)
  PROVE  /\ Hele(uttrekk, avvik) /\ Hele(uttrekk', avvik')
         /\ \A u \in uttrekk' : u \in uttrekk \/ u = Registrert(f)
         /\ \A u \in uttrekk : u.id # nesteId
         /\ Registrert(f) \in Uttrekk
<1>1. f.kilde \in Kilde /\ Hentet(f) \in Nat
  BY FilFakta
<1>2. Registrert(f) \in Uttrekk
  BY <1>1 DEF Registrert, Uttrekk, TypeOK
<1>3. \A u \in uttrekk' : u \in uttrekk \/ u = Registrert(f)
  BY DEF Anvend, Beholdes
<1>4. \A u \in uttrekk : u.id # nesteId
  BY DEF TypeOK, Uttrekk
<1> QED
  BY <1>2, <1>3, <1>4 DEF Hele, TypeOK, ReferanseHel

\* A row before which no other of its source stands is kept by the clean-up.
LEMMA NyesteBeholdes ==
  ASSUME NEW f, Anvend(f), NEW w \in uttrekk \cup {Registrert(f)},
         \A v \in uttrekk \cup {Registrert(f)} : ~ Foran(v, w)
  PROVE  w \in SisteUttrekk(uttrekk')
<1>1. w \in uttrekk'
  BY DEF Anvend, Beholdes
<1>2. \A v \in uttrekk' : v \in uttrekk \cup {Registrert(f)}
  BY DEF Anvend, Beholdes
<1> QED
  BY <1>1, <1>2 DEF SisteUttrekk, Foran

\* The deviations of a row that stays are the same after the clean-up, and the new
\* ones come to the row just registered.
LEMMA PekerEtter ==
  ASSUME TypeOK, NEW f \in filer, Anvend(f), NEW w \in uttrekk', NEW k
  PROVE  Peker(avvik', k, w) = Peker(avvik \cup Logget(f), k, w)
<1>1. avvik' = UtenUttrekk(avvik \cup Logget(f), uttrekk')
  BY DEF Anvend
<1>2. w \in uttrekk' /\ w.id \in Nat
  <2>1. \A u \in uttrekk' : u \in uttrekk \/ u = Registrert(f)
    BY DEF Anvend, Beholdes
  <2> QED
    BY <2>1 DEF Registrert, TypeOK, Uttrekk
<1>3. avvik \cup Logget(f) \subseteq Avvik
  BY LoggetType DEF TypeOK
<1>4. ASSUME NEW a \in avvik', a.uttrekk = w.id PROVE a \in avvik \cup Logget(f)
  <2>1. PICK x \in avvik \cup Logget(f) :
          a = IF \E u \in uttrekk' : u.id = x.uttrekk THEN x ELSE [x EXCEPT !.uttrekk = Ingen]
    BY <1>1 DEF UtenUttrekk
  <2>2. a.uttrekk # Ingen
    BY <1>2, <1>4, IngenUkjent
  <2> QED
    BY <1>3, <2>1, <2>2 DEF Avvik
<1>5. ASSUME NEW a \in avvik \cup Logget(f), a.uttrekk = w.id PROVE a \in avvik'
  <2>1. \E u \in uttrekk' : u.id = a.uttrekk
    BY <1>2, <1>5
  <2> QED
    BY <1>1, <2>1 DEF UtenUttrekk
<1> QED
  BY <1>4, <1>5 DEF Peker

\* A file older than the latest loaded of its source leaves what is current as it is.
LEMMA AnvendEldre ==
  ASSUME TypeOK, ReferanseHel, TypeOK', ReferanseHel', ISiste,
         NEW f \in filer, Anvend(f), Hentet(f) < siste[f.kilde].hentet
  PROVE  NyesteErSiste(f.kilde)' /\ GjeldendeFor(f.kilde)' = siste'[f.kilde].funn
<1> DEFINE k == f.kilde
<1>1. k \in Kilde /\ Hentet(f) \in Nat /\ siste[k].hentet \in Nat
  BY FilFakta DEF TypeOK
<1>2. siste' = siste
  BY DEF Anvend
<1>3. PICK w \in SisteUttrekk(uttrekk) : w.kilde = k /\ w.hentet = siste[k].hentet
  <2>1. siste[k] # [hentet |-> 0, funn |-> {}]
    BY <1>1
  <2> QED
    BY <1>1, <2>1 DEF ISiste, NyesteErSiste
<1>4. w \in uttrekk /\ w.hentet \in Nat /\ w.id \in Nat
  BY DEF SisteUttrekk, TypeOK, Uttrekk
<1>5. w \in SisteUttrekk(uttrekk')
  <2>1. ~ Foran(Registrert(f), w)
    BY <1>1, <1>3, <1>4 DEF Registrert, Foran, Nyere
  <2>2. \A v \in uttrekk : ~ Foran(v, w)
    BY <1>3 DEF SisteUttrekk, Foran
  <2> QED
    BY <1>4, <2>1, <2>2, NyesteBeholdes
<1>6. Peker(avvik', k, w) = Peker(avvik, k, w)
  <2>1. Peker(avvik', k, w) = Peker(avvik \cup Logget(f), k, w)
    BY <1>5, PekerEtter DEF SisteUttrekk
  <2>2. \A a \in Logget(f) : a.uttrekk = nesteId
    BY DEF Logget
  <2>3. w.id # nesteId
    BY <1>4, AnvendFakta
  <2> QED
    BY <2>1, <2>2, <2>3 DEF Peker
<1>7. GjeldendeFor(k) = Problemer(Peker(avvik, k, w))
  BY <1>3, AnvendFakta, GjeldendeAvNyeste
<1>8. GjeldendeFor(f.kilde)' = Problemer(Peker(avvik', k, w))
  <2>1. \A j : j = k => GjeldendeFor(j)' = Problemer(Peker(avvik', j, w))
    BY <1>3, <1>5, AnvendFakta, GjeldendeAvNyesteEtter
  <2>2. f.kilde' = f.kilde
    OBVIOUS
  <2> QED
    BY <2>1, <2>2 DEF GjeldendeFor, Gjeldende
<1>9. NyesteErSiste(f.kilde)'
  BY <1>2, <1>3, <1>5 DEF NyesteErSiste, SisteUttrekk
<1> QED
  BY <1>1, <1>2, <1>6, <1>7, <1>8, <1>9 DEF ISiste

\* A file at least as new puts its own deviations in the place of what was current.
LEMMA AnvendNyere ==
  ASSUME TypeOK, ReferanseHel, TypeOK', ReferanseHel', ISiste,
         NEW f \in filer, Anvend(f), ~ (Hentet(f) < siste[f.kilde].hentet)
  PROVE  NyesteErSiste(f.kilde)' /\ GjeldendeFor(f.kilde)' = siste'[f.kilde].funn
<1> DEFINE k == f.kilde
           w == Registrert(f)
<1>1. k \in Kilde /\ Hentet(f) \in Nat /\ siste[k].hentet \in Nat
  BY FilFakta DEF TypeOK
<1>2. siste'[k] = [hentet |-> Hentet(f), funn |-> Problemer(Logget(f))]
  <2>1. \A d \in f.funn : d = <<d[1], d[2]>>
    BY FilFakta DEF Funn
  <2>2. Problemer(Logget(f)) = f.funn
    <3>1. ASSUME NEW d \in f.funn PROVE d \in Problemer(Logget(f))
      <4> DEFINE a == [uttrekk |-> nesteId, kilde |-> d[1], problem |-> d[2], gammel |-> FALSE]
      <4>1. a \in Logget(f) /\ d = <<a.kilde, a.problem>>
        BY <2>1 DEF Logget
      <4> QED
        BY <4>1 DEF Problemer
    <3>2. ASSUME NEW x \in Problemer(Logget(f)) PROVE x \in f.funn
      <4>1. PICK a \in Logget(f) : x = <<a.kilde, a.problem>>
        BY <3>2 DEF Problemer
      <4>2. PICK d \in f.funn : a.kilde = d[1] /\ a.problem = d[2]
        BY DEF Logget
      <4> QED
        BY <2>1, <4>1, <4>2
    <3> QED
      BY <3>1, <3>2
  <2>3. siste'[k] = [hentet |-> Hentet(f), funn |-> f.funn]
    BY <1>1 DEF Anvend, TypeOK
  <2> QED
    BY <2>2, <2>3
<1>3. w.id = nesteId /\ w.kilde = k /\ w.hentet = Hentet(f) /\ nesteId \in Nat
  BY DEF Registrert, TypeOK
<1>4. ASSUME NEW v \in uttrekk, v.kilde = k PROVE ~ Nyere(v, w)
  <2>1. v.id \in Nat /\ v.id < nesteId /\ v.hentet \in Nat
    BY DEF TypeOK, Uttrekk
  <2>2. PICK x \in SisteUttrekk(uttrekk) : x.kilde = k /\ x.hentet = siste[k].hentet
    BY <1>1, <1>4 DEF ISiste, NyesteErSiste
  <2>3. x.hentet \in Nat /\ ~ Nyere(v, x)
    BY <1>4, <2>2 DEF SisteUttrekk, TypeOK, Uttrekk
  <2> QED
    BY <1>1, <1>3, <2>1, <2>2, <2>3 DEF Nyere
<1>5. w \in SisteUttrekk(uttrekk')
  <2>1. ~ Foran(w, w)
    BY <1>1, <1>3 DEF Foran, Nyere
  <2>2. \A v \in uttrekk \cup {w} : ~ Foran(v, w)
    BY <1>3, <1>4, <2>1 DEF Foran
  <2> QED
    BY <2>2, NyesteBeholdes
<1>6. Peker(avvik', k, w) = Logget(f)
  <2>1. Peker(avvik', k, w) = Peker(avvik \cup Logget(f), k, w)
    BY <1>5, PekerEtter DEF SisteUttrekk
  <2>2. \A a \in Logget(f) : a.uttrekk = nesteId /\ KildeTil(a.kilde) = k
    BY FilFakta DEF Logget
  <2>3. \A a \in avvik : a.uttrekk # nesteId
    BY <1>3, IngenUkjent, AnvendFakta DEF Hele
  <2> QED
    BY <1>3, <2>1, <2>2, <2>3 DEF Peker
<1> HIDE DEF w
<1>7. GjeldendeFor(f.kilde)' = Problemer(Peker(avvik', k, w))
  <2>1. \A j : j = k => GjeldendeFor(j)' = Problemer(Peker(avvik', j, w))
    BY <1>3, <1>5, AnvendFakta, GjeldendeAvNyesteEtter
  <2> QED
    BY <2>1 DEF GjeldendeFor, Gjeldende
<1>8. NyesteErSiste(f.kilde)'
  BY <1>2, <1>3, <1>5 DEF NyesteErSiste, SisteUttrekk
<1> QED
  BY <1>2, <1>6, <1>7, <1>8

\* For a source the step does not touch.
LEMMA AnvendAndres ==
  ASSUME TypeOK, ReferanseHel, TypeOK', ReferanseHel', ISiste,
         NEW k \in Kilde, NEW f \in filer, Anvend(f), f.kilde # k
  PROVE  NyesteErSiste(k)' /\ GjeldendeFor(k)' = siste'[k].funn
<1>1. siste'[k] = siste[k]
  BY DEF Anvend, TypeOK
<1>2. {u \in uttrekk' : u.kilde = k} = {u \in uttrekk : u.kilde = k}
  BY DEF Anvend, Beholdes, Registrert
<1>3. {u \in SisteUttrekk(uttrekk') : u.kilde = k} = {u \in SisteUttrekk(uttrekk) : u.kilde = k}
  BY <1>2 DEF SisteUttrekk
<1>4. GjeldendeFor(k)' = GjeldendeFor(k)
  BY AndreKilderUrort DEF GjeldendeFor
<1>5. NyesteErSiste(k)'
  <2>1. CASE /\ \A u \in uttrekk : u.kilde # k
             /\ siste[k] = [hentet |-> 0, funn |-> {}]
    BY <1>1, <1>2, <2>1 DEF NyesteErSiste
  <2>2. CASE \E u \in SisteUttrekk(uttrekk) : u.kilde = k /\ u.hentet = siste[k].hentet
    <3>1. \E u \in SisteUttrekk(uttrekk') : u.kilde = k /\ u.hentet = siste'[k].hentet
      BY <1>1, <1>3, <2>2
    <3> QED
      BY <3>1 DEF NyesteErSiste, SisteUttrekk
  <2> QED
    BY <2>1, <2>2 DEF ISiste, NyesteErSiste
<1> QED
  BY <1>1, <1>4, <1>5 DEF ISiste

\* In whatever order files are applied, rolled back and cleaned up after, the view of
\* current deviations is what the latest of the loaded fetches had.
THEOREM GjeldendeErSisteHentingAlltid == Spec => []GjeldendeErSisteHenting
<1>1. Init => ISiste
  BY DEF Init, ISiste, NyesteErSiste, GjeldendeFor, Gjeldende
<1>2. TypeOK /\ ReferanseHel /\ TypeOK' /\ ReferanseHel' /\ ISiste /\ [Next]_vars => ISiste'
  <2> SUFFICES ASSUME TypeOK, ReferanseHel, TypeOK', ReferanseHel', ISiste, [Next]_vars,
                      NEW k \in Kilde
               PROVE  NyesteErSiste(k)' /\ GjeldendeFor(k)' = siste'[k].funn
    BY DEF ISiste
  <2>1. ASSUME uttrekk' = uttrekk, siste' = siste, GjeldendeFor(k)' = GjeldendeFor(k)
        PROVE  NyesteErSiste(k)' /\ GjeldendeFor(k)' = siste'[k].funn
    BY <2>1 DEF ISiste, NyesteErSiste, SisteUttrekk
  <2>2. CASE Skrives \/ UNCHANGED vars
    <3>1. uttrekk' = uttrekk /\ siste' = siste /\ avvik' = avvik
      BY <2>2 DEF Skrives, Skriv, IkkeHentet, SkrivMatrikkel, NyFil, vars
    <3> QED
      BY <2>1, <3>1 DEF GjeldendeFor, Gjeldende, SisteUttrekk
  <2>3. ASSUME NEW f \in filer, Avbrutt(f)
        PROVE  NyesteErSiste(k)' /\ GjeldendeFor(k)' = siste'[k].funn
    <3>1. uttrekk' = uttrekk /\ siste' = siste /\ avvik' = avvik
      BY <2>3 DEF Avbrutt
    <3> QED
      BY <2>1, <3>1 DEF GjeldendeFor, Gjeldende, SisteUttrekk
  <2>4. CASE Vedlikehold
    BY <2>1, <2>4, VedlikeholdUrort DEF Vedlikehold, Eldes, Prune
  <2>5. ASSUME NEW f \in filer, Anvend(f)
        PROVE  NyesteErSiste(k)' /\ GjeldendeFor(k)' = siste'[k].funn
    <3>1. CASE f.kilde # k
      BY <2>5, <3>1, AnvendAndres
    <3>2. CASE f.kilde = k
      <4>1. NyesteErSiste(f.kilde)' /\ GjeldendeFor(f.kilde)' = siste'[f.kilde].funn
        BY <2>5, AnvendEldre, AnvendNyere
      <4> QED
        BY <3>2, <4>1 DEF NyesteErSiste, GjeldendeFor
    <3> QED
      BY <3>1, <3>2
  <2> QED
    BY <2>2, <2>3, <2>4, <2>5 DEF Next, Anvendes
<1>3. ISiste => GjeldendeErSisteHenting
  BY DEF ISiste, GjeldendeErSisteHenting
<1> QED
  BY <1>1, <1>2, <1>3, TypeKorrekt, ReferanseHelAlltid, PTL DEF Spec

\* Three rows of one source never stay: before the last of them stand the two others.
LEMMA HoyestTo ==
  ASSUME NEW alle, alle \subseteq Uttrekk, \A u, v \in alle : u.id = v.id => u = v, NEW k,
         NEW x \in Beholdes(alle, k), NEW y \in Beholdes(alle, k), NEW z \in Beholdes(alle, k),
         x.kilde = k, y.kilde = k, z.kilde = k
  PROVE  x = y \/ y = z \/ x = z
<1>1. x \in alle /\ y \in alle /\ z \in alle
  BY DEF Beholdes
<1>2. ASSUME x # y, y # z, x # z PROVE FALSE
  <2>1. /\ Foran(x, y) \/ Foran(y, x)
        /\ Foran(y, z) \/ Foran(z, y)
        /\ Foran(x, z) \/ Foran(z, x)
    BY <1>1, <1>2, ForanOrden
  <2>2. /\ ~ (Foran(y, x) /\ Foran(z, x))
        /\ ~ (Foran(x, y) /\ Foran(z, y))
        /\ ~ (Foran(x, z) /\ Foran(y, z))
    BY <1>1, <1>2 DEF Beholdes
  <2>3. (Foran(x, y) /\ Foran(y, z) /\ Foran(z, x)) => Foran(x, z)
    BY <1>1 DEF Foran, Nyere, Uttrekk
  <2>4. (Foran(y, x) /\ Foran(x, z) /\ Foran(z, y)) => Foran(y, z)
    BY <1>1 DEF Foran, Nyere, Uttrekk
  <2> QED
    BY <2>1, <2>2, <2>3, <2>4
<1> QED
  BY <1>2

\* After a successful load a source has at most two fetches left.
THEOREM RyddetEtterLastAlltid == Spec => RyddetEtterLast
<1>1. ASSUME TypeOK, ReferanseHel, TypeOK', ReferanseHel', NEW f \in filer, Anvend(f), ~ f.feilet
      PROVE  Cardinality({u \in uttrekk' : u.kilde = f.kilde}) <= 2
  <2> DEFINE alle == uttrekk \cup {Registrert(f)}
             igjen == {u \in uttrekk' : u.kilde = f.kilde}
  <2>1. uttrekk' = Beholdes(alle, f.kilde)
    BY <1>1 DEF Anvend
  <2>2. alle \subseteq Uttrekk /\ \A u, v \in alle : u.id = v.id => u = v
    <3>1. /\ Registrert(f) \in Uttrekk /\ Registrert(f).id = nesteId
          /\ \A u \in uttrekk : u.id # nesteId
      BY <1>1, AnvendFakta DEF Registrert
    <3> QED
      BY <1>1, <3>1 DEF TypeOK, ReferanseHel
  <2>3. \A x, y, z \in igjen : x = y \/ y = z \/ x = z
    BY <2>1, <2>2, HoyestTo
  <2> HIDE DEF igjen
  <2>4. CASE igjen = {}
    BY <2>4, FS_EmptySet DEF igjen
  <2>5. CASE igjen # {}
    <3>1. PICK x \in igjen : TRUE
      BY <2>5
    <3>2. PICK y \in igjen : \A z \in igjen : z = x \/ z = y
      BY <2>3
    <3>3. igjen = {x, y}
      BY <3>2
    <3>4. Cardinality({x, y}) <= 2
      <4>1. {x, y} = {x} \cup {y} /\ IsFiniteSet({x}) /\ Cardinality({x}) = 1
        BY FS_Singleton
      <4>2. Cardinality({x} \cup {y}) = IF y \in {x} THEN Cardinality({x}) ELSE Cardinality({x}) + 1
        BY <4>1, FS_AddElement
      <4> QED
        BY <4>1, <4>2
    <3> QED
      BY <3>3, <3>4 DEF igjen
  <2> QED
    BY <2>4, <2>5
<1>2. TypeOK /\ ReferanseHel /\ TypeOK' /\ ReferanseHel' /\ [Next]_vars =>
        [\A f \in filer : Anvend(f) /\ ~ f.feilet =>
           Cardinality({u \in uttrekk' : u.kilde = f.kilde}) <= 2]_vars
  BY <1>1
<1> QED
  BY <1>2, TypeKorrekt, ReferanseHelAlltid, PTL DEF Spec, RyddetEtterLast
=============================================================================
