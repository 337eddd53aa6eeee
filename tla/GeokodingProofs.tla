---------------------------- MODULE GeokodingProofs ----------------------------
(***************************************************************************)
(* For any number of buildings, runs and faults, and whatever the Matrikkel *)
(* answers: an address placed by a lookup is at the only hit of its text     *)
(* (unless a load changed the text meanwhile), a match is never taken back,  *)
(* and every row of a query is completed or logged.                         *)
(***************************************************************************)
EXTENDS Geokoding, TLAPS

(* Partial functions on the buildings. *)

\* A function on some of the buildings is in Delvis.
LEMMA DelvisAv ==
  ASSUME NEW S, NEW D \in SUBSET Bygg, NEW f \in [D -> S]
  PROVE  f \in Delvis(S)
BY DEF Delvis

\* What is in Delvis has some of the buildings as its domain.
LEMMA DelvisGir ==
  ASSUME NEW S, NEW f \in Delvis(S)
  PROVE  DOMAIN f \in SUBSET Bygg /\ f \in [DOMAIN f -> S]
BY DEF Delvis

\* No rows at all is such a function.
LEMMA TomDelvis == \A S : Tom \in Delvis(S) /\ DOMAIN Tom = {}
<1> TAKE S
<1>1. Tom \in [{} -> S] BY DEF Tom
<1>2. {} \in SUBSET Bygg OBVIOUS
<1> QED BY <1>1, <1>2, DelvisAv DEF Tom

\* One row more is still such a function.
LEMMA DelvisMed ==
  ASSUME NEW S, NEW f \in Delvis(S), NEW b \in Bygg, NEW y \in S
  PROVE  [x \in DOMAIN f \cup {b} |-> IF x = b THEN y ELSE f[x]] \in Delvis(S)
<1>1. DOMAIN f \in SUBSET Bygg /\ f \in [DOMAIN f -> S] BY DelvisGir
<1> DEFINE D == DOMAIN f \cup {b}
           g == [x \in D |-> IF x = b THEN y ELSE f[x]]
<1>2. D \in SUBSET Bygg BY <1>1
<1>3. g \in [D -> S] BY <1>1
<1> HIDE DEF D, g
<1>4. g \in Delvis(S) BY <1>2, <1>3, DelvisAv
<1> QED BY <1>4 DEF D, g

\* What a row leads to is an entry of the file.
LEMMA SvarPost ==
  ASSUME NEW rad \in Rad, NEW v \in Sted, NEW F
  PROVE  Svar(rad, v, F) \in Post
BY Oppslagene DEF Svar, Post

\* So is the entry of a row that is only logged, or passed over.
LEMMA BareLoggPost == BareLogg \in Post /\ Ubehandlet \in Post
BY DEF BareLogg, Ubehandlet, Post

-----------------------------------------------------------------------------
(* Type correctness. *)

\* The query returns rows of the right type.
LEMMA LesType ==
  ASSUME TypeOK, NEW r \in Kjoringer, Les(r)
  PROVE  TypeOK'
<1> DEFINE D == {x \in Bygg : Mangler(x)}
           svar == [b \in D |-> [tekst |-> tekst[b], status |-> status[b], sted |-> sted[b]]]
<1>1. ASSUME NEW b \in D PROVE [tekst |-> tekst[b], status |-> status[b], sted |-> sted[b]] \in Rad
  <2>1. b \in Bygg /\ tekst[b] # Ingen /\ status[b] # "manuell"
        /\ (status[b] \in Uloste \/ status[b] = "matrikkel")
    BY <1>1 DEF Mangler, TypeOK, Status
  <2>2. tekst[b] \in Tekst /\ status[b] \in Status BY <2>1 DEF TypeOK
  <2>3. sted[b] \in Sted \cup {Ingen}
    BY <2>1 DEF TypeOK
  <2> QED BY <2>2, <2>3 DEF Rad
<1> HIDE DEF D
<1>2. D \in SUBSET Bygg BY DEF D
<1>3. svar \in [D -> Rad] BY <1>1
<1>4. svar \in Delvis(Rad) BY <1>2, <1>3, DelvisAv
<1>5. rader' = [rader EXCEPT ![r] = svar] BY DEF Les, D
<1> HIDE DEF svar
<1>6. rader' \in [Kjoringer -> Delvis(Rad)] BY <1>4, <1>5 DEF TypeOK
<1>7. DOMAIN poster[r] = {}
  BY DEF Les, TypeOK
<1>8. \A q \in Kjoringer : DOMAIN poster'[q] \subseteq DOMAIN rader'[q]
  BY <1>5, <1>7 DEF Les, TypeOK
<1>9. \A q \in Kjoringer : \A b \in DOMAIN rader'[q] : tekst'[b] # Ingen
  <2>1. \A b \in DOMAIN svar : tekst[b] # Ingen BY DEF svar, D, Mangler
  <2> QED BY <1>5, <2>1 DEF Les, TypeOK, adresser
<1> QED BY <1>6, <1>8, <1>9 DEF Les, TypeOK, adresser, bygninger

\* An entry is added for a row of the query.
LEMMA SkrivType ==
  ASSUME TypeOK, NEW r \in Kjoringer, NEW b \in Rest(r), NEW post \in Post,
         Skriv(r, b, post), feil' \in 0..MaksFeil
  PROVE  TypeOK'
<1> DEFINE nye == [x \in DOMAIN poster[r] \cup {b} |-> IF x = b THEN post ELSE poster[r][x]]
<1>1. rader[r] \in Delvis(Rad) /\ poster[r] \in Delvis(Post) BY DEF TypeOK
<1>2. b \in DOMAIN rader[r] /\ b \in Bygg BY <1>1, DelvisGir DEF Rest
<1>3. nye \in Delvis(Post) BY <1>1, <1>2, DelvisMed
<1>4. DOMAIN nye = DOMAIN poster[r] \cup {b} OBVIOUS
<1>5. poster' = [poster EXCEPT ![r] = nye] BY DEF Skriv
<1> HIDE DEF nye
<1>6. poster' \in [Kjoringer -> Delvis(Post)] BY <1>3, <1>5 DEF TypeOK
<1>7. \A q \in Kjoringer : DOMAIN poster'[q] \subseteq DOMAIN rader'[q]
  BY <1>2, <1>4, <1>5 DEF Skriv, TypeOK
<1> QED BY <1>6, <1>7 DEF Skriv, TypeOK, adresser, bygninger

\* A step that makes a lookup writes one entry.
LEMMA OppslagSkriver ==
  ASSUME TypeOK, NEW r \in Kjoringer, NEW b \in Rest(r),
         Finner(r, b) \/ FinnerIkke(r, b) \/ RadenDelt(r, b) \/ KallFeiler(r, b)
  PROVE  /\ feil' \in 0..MaksFeil
         /\ b \in DOMAIN rader[r] /\ b \in Bygg /\ rader[r][b] \in Rad
         /\ \E post \in Post : Skriv(r, b, post) /\ (\/ post = BareLogg
                                                     \/ post = Ubehandlet /\ rader[r][b].tekst \in Delt
                                                   \/ \E v \in Sted : \E F \in SUBSET Kall(rader[r][b], v) :
                                                        /\ Kandidater(rader[r][b]) = {v}
                                                        /\ post = Svar(rader[r][b], v, F))
<1>1. rader[r] \in Delvis(Rad) BY DEF TypeOK
<1>2. b \in DOMAIN rader[r] /\ b \in Bygg /\ rader[r][b] \in Rad BY <1>1, DelvisGir DEF Rest
<1>3. feil' \in 0..MaksFeil BY Oppslagene DEF Finner, FinnerIkke, RadenDelt, KallFeiler, Feil, TypeOK
<1> DEFINE rad == rader[r][b]
           Resultat(post) == \/ post = BareLogg
                             \/ post = Ubehandlet /\ rader[r][b].tekst \in Delt
                             \/ \E v \in Sted : \E F \in SUBSET Kall(rad, v) :
                                  Kandidater(rad) = {v} /\ post = Svar(rad, v, F)
<1>4. CASE Finner(r, b)
  <2>1. PICK v \in Sted : Kandidater(rad) = {v} /\ Skriv(r, b, Svar(rad, v, {}))
    BY <1>4 DEF Finner
  <2>2. {} \in SUBSET Kall(rad, v) OBVIOUS
  <2>3. Resultat(Svar(rad, v, {})) BY <2>1, <2>2
  <2>4. Svar(rad, v, {}) \in Post BY <1>2, SvarPost
  <2> QED BY <1>2, <1>3, <2>1, <2>3, <2>4
<1>5. CASE Skriv(r, b, BareLogg)
  BY <1>2, <1>3, <1>5, BareLoggPost
<1>6. CASE \E v \in Sted : Kandidater(rad) = {v} /\ \E F \in SUBSET Kall(rad, v) \ {{}} :
                                                       Skriv(r, b, Svar(rad, v, F))
  <2>1. PICK v \in Sted : Kandidater(rad) = {v} /\ \E F \in SUBSET Kall(rad, v) \ {{}} :
                                                       Skriv(r, b, Svar(rad, v, F))
    BY <1>6
  <2>2. PICK F \in SUBSET Kall(rad, v) : Skriv(r, b, Svar(rad, v, F)) BY <2>1
  <2>3. Resultat(Svar(rad, v, F)) BY <2>1
  <2>4. Svar(rad, v, F) \in Post BY <1>2, SvarPost
  <2> QED BY <1>2, <1>3, <2>2, <2>3, <2>4
<1>7. CASE rader[r][b].tekst \in Delt /\ Skriv(r, b, Ubehandlet)
  BY <1>2, <1>3, <1>7, BareLoggPost
<1> QED BY <1>4, <1>5, <1>6, <1>7 DEF FinnerIkke, RadenDelt, KallFeiler

\* The run is over: its rows and its file are gone.
LEMMA AvsluttType ==
  ASSUME TypeOK, NEW r \in Kjoringer, Avslutt(r)
  PROVE  /\ rader' \in [Kjoringer -> Delvis(Rad)]
         /\ poster' \in [Kjoringer -> Delvis(Post)]
         /\ \A q \in Kjoringer : /\ DOMAIN poster'[q] \subseteq DOMAIN rader'[q]
                                 /\ \A b \in DOMAIN rader'[q] : tekst[b] # Ingen
BY TomDelvis DEF Avslutt, TypeOK

\* The other runs are where they were.
LEMMA AvsluttTom ==
  ASSUME TypeOK, NEW r \in Kjoringer, Avslutt(r)
  PROVE  \A q \in Kjoringer : (rader'[q] = rader[q] /\ poster'[q] = poster[q])
                             \/ (DOMAIN rader'[q] = {} /\ DOMAIN poster'[q] = {})
BY TomDelvis DEF Avslutt, TypeOK

\* What a block writes comes from an entry of the file.
LEMMA GjoresGir ==
  ASSUME TypeOK, NEW r \in Kjoringer, NEW b \in Bygg, NEW B
  PROVE  /\ b \in DOMAIN poster[r] => poster[r][b] \in Post
         /\ \A blokk \in Blokker : Gjores(r, b, blokk, B) =>
              poster[r][b].sted \in Sted /\ b \in DOMAIN rader[r]
<1>1. poster[r] \in Delvis(Post) BY DEF TypeOK
<1>2. b \in DOMAIN poster[r] => poster[r][b] \in Post BY <1>1, DelvisGir
<1>3. ASSUME NEW blokk \in Blokker, Gjores(r, b, blokk, B)
      PROVE  poster[r][b].sted \in Sted /\ b \in DOMAIN rader[r]
  <2>1. b \in DOMAIN poster[r] /\ poster[r][b][blokk] BY <1>3 DEF Gjores
  <2>2. poster[r][b].info \/ poster[r][b].adresse \/ poster[r][b].funnet
    BY <2>1 DEF Blokker
  <2>3. poster[r][b].sted # Ingen /\ poster[r][b].sted \in Sted \cup {Ingen}
    BY <1>2, <2>1, <2>2 DEF Post
  <2> QED BY <2>1, <2>3 DEF TypeOK
<1> QED BY <1>2, <1>3

\* Every address read has a text: rows come from the query.
LEMMA RaderHarTekst ==
  ASSUME TypeOK, NEW r \in Kjoringer, NEW b \in DOMAIN rader[r]
  PROVE  b \in Bygg /\ rader[r][b] \in Rad
<1>1. rader[r] \in Delvis(Rad) BY DEF TypeOK
<1> QED BY <1>1, DelvisGir
\* Applying a file keeps the types, and places an address exactly if it says so.
LEMMA AnvendType ==
  ASSUME TypeOK, NEW r \in Kjoringer, NEW B, Anvend(r, B)
  PROVE  TypeOK'
<1>1. /\ rader' \in [Kjoringer -> Delvis(Rad)]
      /\ poster' \in [Kjoringer -> Delvis(Post)]
      /\ \A q \in Kjoringer : /\ DOMAIN poster'[q] \subseteq DOMAIN rader'[q]
                              /\ \A b \in DOMAIN rader'[q] : tekst'[b] # Ingen
  BY AvsluttType DEF Anvend
<1>2. \A b \in Bygg, blokk \in Blokker :
        Gjores(r, b, blokk, B) => poster[r][b].sted \in Sted /\ b \in DOMAIN rader[r]
  BY GjoresGir
<1>3. "adresse" \in Blokker /\ "funnet" \in Blokker /\ "info" \in Blokker BY DEF Blokker
<1>4. status' \in [Bygg -> Status]
  BY DEF Anvend, NyStatus, TypeOK, Status
<1>5. sted' \in [Bygg -> Sted \cup {Ingen, Manuelt}]
  BY <1>2, <1>3 DEF Anvend, NyttSted, TypeOK
<1>6. match' \in [Bygg -> {"ikke_forsokt", "ikke_funnet", "adresse"}]
  BY DEF Anvend, NyMatch, TypeOK
<1>7. fakta' \in [Bygg -> Sted \cup {Ingen, Manuelt}]
  BY <1>2, <1>3 DEF Anvend, NyeFakta, TypeOK
<1>8. info' \in [Bygg -> SUBSET Sted]
  <2>1. ASSUME NEW b \in Bygg PROVE info'[b] \in SUBSET Sted
    BY <1>2, <1>3 DEF Anvend, NyInfo, TypeOK
  <2> QED BY <2>1 DEF Anvend, NyInfo
<1>9. spor' \subseteq Bygg
  <2>1. poster[r] \in Delvis(Post) BY DEF TypeOK
  <2>2. DOMAIN poster[r] \subseteq Bygg BY <2>1, DelvisGir
  <2> QED BY <2>2 DEF Anvend, Logget
<1>10. feil' \in 0..MaksFeil BY Oppslagene DEF Anvend, Feil, TypeOK
<1>11. ASSUME NEW b \in Bygg
       PROVE  /\ status'[b] \in Uloste <=> sted'[b] = Ingen
              /\ status'[b] = "manuell" <=> sted'[b] = Manuelt
              /\ status'[b] \notin Uloste => tekst'[b] # Ingen
  <2>1. CASE Gjores(r, b, "adresse", B)
    <3>1. status'[b] = "matrikkel" /\ sted'[b] = poster[r][b].sted /\ sted'[b] \in Sted
      BY <1>2, <1>3, <2>1 DEF Anvend, NyStatus, NyttSted
    <3>2. tekst'[b] # Ingen
      BY <1>2, <1>3, <2>1 DEF Anvend, TypeOK
    <3> QED BY <3>1, <3>2, Oppslagene DEF Uloste
  <2>2. CASE ~ Gjores(r, b, "adresse", B)
    BY <2>2 DEF Anvend, NyStatus, NyttSted, TypeOK
  <2> QED BY <2>1, <2>2
<1> QED BY <1>1, <1>4, <1>5, <1>6, <1>7, <1>8, <1>9, <1>10, <1>11 DEF Anvend, TypeOK

\* The types of Geokoding: however runs, loads and editors interleave, an address is
\* placed exactly when its status says so.
THEOREM TypeKorrekt == Spec => []TypeOK
<1>1. Init => TypeOK
  <2> SUFFICES ASSUME Init PROVE TypeOK OBVIOUS
  <2>1. rader \in [Kjoringer -> Delvis(Rad)] /\ poster \in [Kjoringer -> Delvis(Post)]
    BY TomDelvis DEF Init
  <2>2. \A r \in Kjoringer : DOMAIN rader[r] = {} /\ DOMAIN poster[r] = {}
    BY TomDelvis DEF Init
  <2> QED BY <2>1, <2>2, Oppslagene DEF Init, TypeOK, Status, Uloste
<1>2. TypeOK /\ [Next]_vars => TypeOK'
  <2> SUFFICES ASSUME TypeOK, [Next]_vars PROVE TypeOK' OBVIOUS
  <2>1. ASSUME NEW r \in Kjoringer, Les(r) PROVE TypeOK' BY <2>1, LesType
  <2>2. ASSUME NEW r \in Kjoringer, NEW b \in Rest(r),
               Finner(r, b) \/ FinnerIkke(r, b) \/ RadenDelt(r, b) \/ KallFeiler(r, b)
        PROVE  TypeOK'
    BY <2>2, OppslagSkriver, SkrivType
  <2>3. ASSUME NEW r \in Kjoringer, NEW B \in Feilende, Anvend(r, B) PROVE TypeOK'
    BY <2>3, AnvendType
  <2>4. ASSUME NEW r \in Kjoringer, Avbryt(r) PROVE TypeOK'
    <3>1. feil' \in 0..MaksFeil BY <2>4, Oppslagene DEF Avbryt, Feil, TypeOK
    <3> QED BY <2>4, <3>1, AvsluttType DEF Avbryt, TypeOK, adresser, bygninger
  <2>5. ASSUME NEW b \in Bygg, NEW t \in Tekst, Last(b, t) PROVE TypeOK'
    <3>1. forsinket' \subseteq Bygg BY <2>5 DEF Last, TypeOK
    <3>2. t # Ingen BY Oppslagene
    <3>3. tekst' \in [Bygg -> Tekst \cup {Ingen}] BY <2>5 DEF Last, TypeOK
    <3>4. \A x : tekst'[x] = Ingen => tekst[x] = Ingen \/ x \notin Bygg
      BY <2>5, <3>2 DEF Last, TypeOK
    <3>5. \A r \in Kjoringer : \A x \in DOMAIN rader[r] : x \in Bygg BY RaderHarTekst
    <3> QED BY <2>5, <3>1, <3>3, <3>4, <3>5 DEF Last, TypeOK, bygninger
  <2>6. ASSUME NEW b \in Bygg, SettAdresse(b) PROVE TypeOK'
    BY <2>6, Oppslagene DEF SettAdresse, TypeOK, Status, Uloste, bygninger
  <2>7. ASSUME NEW b \in Bygg, SettFakta(b) PROVE TypeOK'
    BY <2>7 DEF SettFakta, TypeOK, adresser
  <2>8. CASE UNCHANGED vars BY <2>8 DEF vars, adresser, bygninger, TypeOK
  <2> QED BY <2>1, <2>2, <2>3, <2>4, <2>5, <2>6, <2>7, <2>8 DEF Next, Geokod
<1> QED BY <1>1, <1>2, PTL DEF Spec

-----------------------------------------------------------------------------
(* The place of an address. *)

\* A row that is being looked up holds the text of its address, unless a load has
\* changed it since, and what the file will set is the only hit of that text.
LestOgFunnet ==
  \A r \in Kjoringer :
    /\ \A b \in DOMAIN rader[r] :
         /\ b \in forsinket \/ tekst[b] = rader[r][b].tekst
         /\ rader[r][b].status \in Uloste => rader[r][b].sted = Ingen
    /\ \A b \in DOMAIN poster[r] :
         poster[r][b].adresse => b \in forsinket \/ Treff[tekst[b]] = {poster[r][b].sted}

StedInv == LestOgFunnet /\ StedErTekstens

\* A lookup enters what the text it read has as its only hit.
LEMMA OppslagSted ==
  ASSUME TypeOK, StedInv, NEW r \in Kjoringer, NEW b \in Rest(r),
         Finner(r, b) \/ FinnerIkke(r, b) \/ RadenDelt(r, b) \/ KallFeiler(r, b)
  PROVE  StedInv'
<1>1. PICK post \in Post : Skriv(r, b, post) /\ (\/ post = BareLogg
                                                 \/ post = Ubehandlet /\ rader[r][b].tekst \in Delt
                                               \/ \E v \in Sted : \E F \in SUBSET Kall(rader[r][b], v) :
                                                    /\ Kandidater(rader[r][b]) = {v}
                                                    /\ post = Svar(rader[r][b], v, F))
  BY OppslagSkriver
<1>2. b \in DOMAIN rader[r] BY OppslagSkriver
<1>3. post.adresse => b \in forsinket \/ Treff[tekst[b]] = {post.sted}
  <2>1. CASE post = BareLogg \/ post = Ubehandlet BY <2>1 DEF BareLogg, Ubehandlet
  <2>2. ASSUME NEW v \in Sted, NEW F, Kandidater(rader[r][b]) = {v}, post = Svar(rader[r][b], v, F),
               post.adresse, b \notin forsinket
        PROVE  Treff[tekst[b]] = {post.sted}
    <3>1. post.sted = v /\ rader[r][b].status \in Uloste BY <2>2 DEF Svar
    <3>2. rader[r][b].sted = Ingen /\ tekst[b] = rader[r][b].tekst
      BY <1>2, <2>2, <3>1 DEF StedInv, LestOgFunnet
    <3> QED BY <2>2, <3>1, <3>2 DEF Kandidater
  <2> QED BY <1>1, <2>1, <2>2
<1>4. /\ rader' = rader /\ tekst' = tekst /\ status' = status /\ sted' = sted /\ forsinket' = forsinket
      /\ poster' = [poster EXCEPT ![r] =
                      [x \in DOMAIN poster[r] \cup {b} |-> IF x = b THEN post ELSE poster[r][x]]]
  BY <1>1 DEF Skriv, adresser
<1>5. ASSUME NEW q \in Kjoringer, NEW x \in DOMAIN poster'[q], poster'[q][x].adresse
      PROVE  x \in forsinket \/ Treff[tekst[x]] = {poster'[q][x].sted}
  <2>0. poster \in [Kjoringer -> Delvis(Post)] BY DEF TypeOK
  <2>1. CASE q = r /\ x = b
    <3>1. poster'[q][x] = post BY <1>4, <1>5, <2>0, <2>1
    <3> QED BY <1>3, <1>5, <2>1, <3>1
  <2>2. CASE ~ (q = r /\ x = b)
    <3>1. x \in DOMAIN poster[q] /\ poster'[q][x] = poster[q][x] BY <1>4, <1>5, <2>0, <2>2
    <3> QED BY <1>5, <3>1 DEF StedInv, LestOgFunnet
  <2> QED BY <2>1, <2>2
<1> QED BY <1>4, <1>5 DEF StedInv, LestOgFunnet, StedErTekstens

\* A file that is applied sets the places the texts have.
LEMMA AnvendSted ==
  ASSUME TypeOK, StedInv, NEW r \in Kjoringer, NEW B, Anvend(r, B)
  PROVE  StedInv'
<1>1. tekst' = tekst /\ forsinket' = forsinket BY DEF Anvend
<1>2. \A q \in Kjoringer : (rader'[q] = rader[q] /\ poster'[q] = poster[q])
                          \/ (DOMAIN rader'[q] = {} /\ DOMAIN poster'[q] = {})
  BY AvsluttTom DEF Anvend
<1>3. LestOgFunnet' BY <1>1, <1>2 DEF StedInv, LestOgFunnet
<1>4. ASSUME NEW b \in Bygg, b \notin forsinket, status'[b] = "matrikkel"
      PROVE  Treff[tekst[b]] = {sted'[b]}
  <2>1. CASE Gjores(r, b, "adresse", B)
    <3>1. sted'[b] = poster[r][b].sted BY <2>1 DEF Anvend, NyttSted
    <3> QED BY <1>4, <2>1, <3>1 DEF Gjores, StedInv, LestOgFunnet
  <2>2. CASE ~ Gjores(r, b, "adresse", B)
    <3>1. sted'[b] = sted[b] /\ status[b] = "matrikkel"
      BY <1>4, <2>2 DEF Anvend, NyttSted, NyStatus
    <3> QED BY <1>4, <3>1 DEF StedInv, StedErTekstens
  <2> QED BY <2>1, <2>2
<1> QED BY <1>1, <1>3, <1>4 DEF StedInv, StedErTekstens

\* A load rewrites only what is not placed, and marks what it changes under a lookup.
LEMMA LastSted ==
  ASSUME TypeOK, StedInv, NEW b \in Bygg, NEW t \in Tekst, Last(b, t)
  PROVE  StedInv'
<1>1. /\ rader' = rader /\ poster' = poster /\ status' = status /\ sted' = sted
      /\ tekst' = [tekst EXCEPT ![b] = t] /\ status[b] \in Uloste
      /\ forsinket' = IF \E r \in Kjoringer : b \in DOMAIN rader[r] THEN forsinket \cup {b} ELSE forsinket
  BY DEF Last
<1>2. \A x \in Bygg : x # b => tekst'[x] = tekst[x] BY <1>1 DEF TypeOK
<1>3. \A r \in Kjoringer : \A x \in DOMAIN rader[r] : x \in Bygg BY RaderHarTekst
<1>4. \A r \in Kjoringer : DOMAIN poster[r] \subseteq DOMAIN rader[r] BY DEF TypeOK
<1>5. \A r \in Kjoringer : \A x \in DOMAIN rader[r] : x \in forsinket' \/ (x # b /\ x \notin forsinket)
  BY <1>1
<1>6. LestOgFunnet'
  <2> SUFFICES ASSUME NEW r \in Kjoringer
      PROVE  /\ \A x \in DOMAIN rader[r] : x \in forsinket' \/ tekst'[x] = rader[r][x].tekst
             /\ \A x \in DOMAIN rader[r] :
                  rader[r][x].status \in Uloste => rader[r][x].sted = Ingen
             /\ \A x \in DOMAIN poster[r] :
                  poster[r][x].adresse => x \in forsinket' \/ Treff[tekst'[x]] = {poster[r][x].sted}
    BY <1>1 DEF LestOgFunnet
  <2>1. \A x \in DOMAIN rader[r] : x \in forsinket' \/ (x \notin forsinket /\ tekst'[x] = tekst[x])
    BY <1>2, <1>3, <1>5
  <2>2. /\ \A x \in DOMAIN rader[r] : x \in forsinket' \/ tekst'[x] = rader[r][x].tekst
        /\ \A x \in DOMAIN rader[r] :
             rader[r][x].status \in Uloste => rader[r][x].sted = Ingen
    BY <2>1 DEF StedInv, LestOgFunnet
  <2>3. ASSUME NEW x \in DOMAIN poster[r], poster[r][x].adresse, x \notin forsinket'
        PROVE  Treff[tekst'[x]] = {poster[r][x].sted}
    <3>1. x \notin forsinket /\ tekst'[x] = tekst[x] BY <1>4, <2>1, <2>3
    <3> QED BY <2>3, <3>1 DEF StedInv, LestOgFunnet
  <2> QED BY <2>2, <2>3
<1>7. StedErTekstens' BY <1>1, <1>2 DEF StedInv, StedErTekstens, Uloste
<1> QED BY <1>6, <1>7 DEF StedInv

\* However runs overlap with each other, with loads and with editors, a placed address
\* is at the only hit of its text, unless a load changed the text under a lookup.
THEOREM StedAlltidTekstens == Spec => []StedErTekstens
<1>1. Init => StedInv
  <2> SUFFICES ASSUME Init PROVE StedInv OBVIOUS
  <2>1. \A r \in Kjoringer : DOMAIN rader[r] = {} /\ DOMAIN poster[r] = {}
    BY TomDelvis DEF Init
  <2> QED BY <2>1 DEF Init, StedInv, LestOgFunnet, StedErTekstens
<1>2. TypeOK /\ StedInv /\ [Next]_vars => StedInv'
  <2> SUFFICES ASSUME TypeOK, StedInv, [Next]_vars PROVE StedInv' OBVIOUS
  <2>1. ASSUME NEW r \in Kjoringer, Les(r) PROVE StedInv'
    <3> DEFINE D == {x \in Bygg : Mangler(x)}
               svar == [b \in D |-> [tekst |-> tekst[b], status |-> status[b], sted |-> sted[b]]]
    <3>1. rader' = [rader EXCEPT ![r] = svar] BY <2>1 DEF Les
    <3>2. /\ poster' = poster /\ tekst' = tekst /\ status' = status /\ sted' = sted
          /\ forsinket' = forsinket
      BY <2>1 DEF Les, adresser
    <3>3. \A b \in D : svar[b].tekst = tekst[b] /\ (svar[b].status \in Uloste => svar[b].sted = Ingen)
      BY DEF TypeOK
    <3>4. DOMAIN svar = D OBVIOUS
    <3> HIDE DEF svar, D
    <3>5. \A q \in Kjoringer : q # r => rader'[q] = rader[q] BY <3>1 DEF TypeOK
    <3>6. rader'[r] = svar BY <3>1 DEF TypeOK
    <3>7. LestOgFunnet' BY <3>2, <3>3, <3>4, <3>5, <3>6 DEF StedInv, LestOgFunnet
    <3> QED BY <3>2, <3>7 DEF StedInv, StedErTekstens
  <2>2. ASSUME NEW r \in Kjoringer, NEW b \in Rest(r),
               Finner(r, b) \/ FinnerIkke(r, b) \/ RadenDelt(r, b) \/ KallFeiler(r, b)
        PROVE  StedInv'
    BY <2>2, OppslagSted
  <2>3. ASSUME NEW r \in Kjoringer, NEW B \in Feilende, Anvend(r, B) PROVE StedInv'
    BY <2>3, AnvendSted
  <2>4. ASSUME NEW r \in Kjoringer, Avbryt(r) PROVE StedInv'
    <3>1. \A q \in Kjoringer : (rader'[q] = rader[q] /\ poster'[q] = poster[q])
                              \/ (DOMAIN rader'[q] = {} /\ DOMAIN poster'[q] = {})
      BY <2>4, AvsluttTom DEF Avbryt
    <3>2. tekst' = tekst /\ forsinket' = forsinket /\ status' = status /\ sted' = sted
      BY <2>4 DEF Avbryt, adresser
    <3>3. LestOgFunnet' BY <3>1, <3>2 DEF StedInv, LestOgFunnet
    <3> QED BY <3>2, <3>3 DEF StedInv, StedErTekstens
  <2>5. ASSUME NEW b \in Bygg, NEW t \in Tekst, Last(b, t) PROVE StedInv'
    BY <2>5, LastSted
  <2>6. ASSUME NEW b \in Bygg, SettAdresse(b) PROVE StedInv'
    BY <2>6 DEF SettAdresse, StedInv, LestOgFunnet, StedErTekstens, TypeOK
  <2>7. ASSUME NEW b \in Bygg, SettFakta(b) PROVE StedInv'
    BY <2>7 DEF SettFakta, StedInv, LestOgFunnet, StedErTekstens, adresser
  <2>8. CASE UNCHANGED vars
    BY <2>8 DEF vars, adresser, StedInv, LestOgFunnet, StedErTekstens
  <2> QED BY <2>1, <2>2, <2>3, <2>4, <2>5, <2>6, <2>7, <2>8 DEF Next, Geokod
<1>3. StedInv => StedErTekstens BY DEF StedInv
<1> QED BY <1>1, <1>2, <1>3, TypeKorrekt, PTL DEF Spec

-----------------------------------------------------------------------------
(* The match, and the account of every row. *)

\* A match by address is never taken back, whichever lookups overlap and fail.
THEOREM MatchAlltidVernet == Spec => MatchVernet
<1>1. ASSUME TypeOK, [Next]_vars, NEW b \in Bygg, match[b] = "adresse" PROVE match'[b] = "adresse"
  <2>1. ASSUME NEW r \in Kjoringer, NEW B \in Feilende, Anvend(r, B) PROVE match'[b] = "adresse"
    BY <1>1, <2>1 DEF Anvend, NyMatch
  <2>2. ASSUME NEW r \in Kjoringer, NEW x \in Rest(r),
               Finner(r, x) \/ FinnerIkke(r, x) \/ RadenDelt(r, x) \/ KallFeiler(r, x)
        PROVE  match' = match
    BY <2>2 DEF Finner, FinnerIkke, RadenDelt, KallFeiler, Skriv, bygninger
  <2>3. ASSUME NEW r \in Kjoringer, Les(r) \/ Avbryt(r) PROVE match' = match
    BY <2>3 DEF Les, Avbryt, bygninger
  <2>4. ASSUME NEW x \in Bygg, NEW t \in Tekst, Last(x, t) PROVE match' = match
    BY <2>4 DEF Last, bygninger
  <2>5. ASSUME NEW x \in Bygg, SettAdresse(x) \/ SettFakta(x) PROVE match' = match
    BY <2>5 DEF SettAdresse, SettFakta, bygninger
  <2>6. CASE UNCHANGED vars BY <1>1, <2>6 DEF vars, bygninger
  <2> QED BY <1>1, <2>1, <2>2, <2>3, <2>4, <2>5, <2>6 DEF Next, Geokod
<1>2. TypeOK /\ [Next]_vars => \A b \in Bygg : match[b] = "adresse" => match'[b] = "adresse"
  BY <1>1
<1>3. TypeOK /\ [Next]_vars =>
        [\A b \in Bygg : match[b] = "adresse" => match'[b] = "adresse"]_vars
  BY <1>2
<1> QED BY <1>3, TypeKorrekt, PTL DEF Spec, MatchVernet

\* An entry is logged, or finds the building of an address that is placed or that it
\* places; and what was placed when it was read stays so.
GjortRede ==
  \A r \in Kjoringer :
    /\ \A b \in DOMAIN rader[r] : rader[r][b].status \notin Uloste => status[b] \notin Uloste
    /\ \A b \in DOMAIN poster[r] :
         \/ rader[r][b].tekst \in Delt
         \/ poster[r][b].logget \/ (poster[r][b].funnet /\ (poster[r][b].adresse \/ status[b] \notin Uloste))

\* The entry of a row accounts for it.
LEMMA OppslagRede ==
  ASSUME TypeOK, GjortRede, NEW r \in Kjoringer, NEW b \in Rest(r),
         Finner(r, b) \/ FinnerIkke(r, b) \/ RadenDelt(r, b) \/ KallFeiler(r, b)
  PROVE  GjortRede'
<1>1. PICK post \in Post : Skriv(r, b, post) /\ (\/ post = BareLogg
                                                 \/ post = Ubehandlet /\ rader[r][b].tekst \in Delt
                                               \/ \E v \in Sted : \E F \in SUBSET Kall(rader[r][b], v) :
                                                    /\ Kandidater(rader[r][b]) = {v}
                                                    /\ post = Svar(rader[r][b], v, F))
  BY OppslagSkriver
<1>2. b \in DOMAIN rader[r] BY OppslagSkriver
<1>3. \/ rader[r][b].tekst \in Delt
      \/ post.logget \/ (post.funnet /\ (post.adresse \/ status[b] \notin Uloste))
  <2>1. CASE post = BareLogg \/ (post = Ubehandlet /\ rader[r][b].tekst \in Delt) BY <2>1 DEF BareLogg
  <2>2. ASSUME NEW v \in Sted, NEW F, post = Svar(rader[r][b], v, F), ~ post.logget
        PROVE  post.funnet /\ (post.adresse \/ status[b] \notin Uloste)
    <3>1. "veg" \notin F /\ v \in MedBygg /\ "bygg" \notin F BY <2>2 DEF Svar
    <3>2. post.funnet /\ (post.adresse <=> rader[r][b].status \in Uloste) BY <2>2, <3>1 DEF Svar
    <3> QED BY <1>2, <3>2 DEF GjortRede
  <2> QED BY <1>1, <2>1, <2>2
<1>4. /\ rader' = rader /\ status' = status
      /\ poster' = [poster EXCEPT ![r] =
                      [x \in DOMAIN poster[r] \cup {b} |-> IF x = b THEN post ELSE poster[r][x]]]
  BY <1>1 DEF Skriv, adresser
<1>5. ASSUME NEW q \in Kjoringer, NEW x \in DOMAIN poster'[q]
      PROVE  \/ rader[q][x].tekst \in Delt
             \/ poster'[q][x].logget
             \/ poster'[q][x].funnet /\ (poster'[q][x].adresse \/ status[x] \notin Uloste)
  <2>0. poster \in [Kjoringer -> Delvis(Post)] BY DEF TypeOK
  <2>1. CASE q = r /\ x = b
    <3>1. poster'[q][x] = post BY <1>4, <1>5, <2>0, <2>1
    <3> QED BY <1>3, <2>1, <3>1
  <2>2. CASE ~ (q = r /\ x = b)
    <3>1. x \in DOMAIN poster[q] /\ poster'[q][x] = poster[q][x] BY <1>4, <1>5, <2>0, <2>2
    <3> QED BY <3>1 DEF GjortRede
  <2> QED BY <2>1, <2>2
<1> QED BY <1>4, <1>5 DEF GjortRede

\* No status goes back to the ones that are looked up.
LEMMA StatusSettes ==
  ASSUME TypeOK, [Next]_vars, NEW b \in Bygg, status[b] \notin Uloste
  PROVE  status'[b] \notin Uloste
<1>1. ASSUME NEW r \in Kjoringer, NEW B \in Feilende, Anvend(r, B) PROVE status'[b] \notin Uloste
  BY <1>1 DEF Anvend, NyStatus, Uloste
<1>2. ASSUME NEW r \in Kjoringer, NEW x \in Rest(r),
             Finner(r, x) \/ FinnerIkke(r, x) \/ RadenDelt(r, x) \/ KallFeiler(r, x)
      PROVE  status' = status
  BY <1>2 DEF Finner, FinnerIkke, RadenDelt, KallFeiler, Skriv, adresser
<1>3. ASSUME NEW r \in Kjoringer, Les(r) \/ Avbryt(r) PROVE status' = status
  BY <1>3 DEF Les, Avbryt, adresser
<1>4. ASSUME NEW x \in Bygg, NEW t \in Tekst, Last(x, t) PROVE status' = status
  BY <1>4 DEF Last
<1>5. ASSUME NEW x \in Bygg, SettAdresse(x) PROVE status'[b] \notin Uloste
  BY <1>5 DEF SettAdresse, Uloste, TypeOK
<1>6. ASSUME NEW x \in Bygg, SettFakta(x) PROVE status' = status
  BY <1>6 DEF SettFakta, adresser
<1>7. CASE UNCHANGED vars BY <1>7 DEF vars, adresser
<1> QED BY <1>1, <1>2, <1>3, <1>4, <1>5, <1>6, <1>7 DEF Next, Geokod

\* The account is kept by every step.
LEMMA RedeBevart ==
  ASSUME TypeOK, GjortRede, [Next]_vars
  PROVE  GjortRede'
<1>1. \A b \in Bygg : status[b] \notin Uloste => status'[b] \notin Uloste BY StatusSettes
<1>2. \A r \in Kjoringer : \A b \in DOMAIN rader[r] : b \in Bygg BY RaderHarTekst
<1>3. \A r \in Kjoringer : DOMAIN poster[r] \subseteq DOMAIN rader[r] BY DEF TypeOK
<1>4. ASSUME \A q \in Kjoringer : (rader'[q] = rader[q] /\ poster'[q] = poster[q])
                                \/ (DOMAIN rader'[q] = {} /\ DOMAIN poster'[q] = {})
      PROVE  GjortRede'
  <2> SUFFICES ASSUME NEW q \in Kjoringer, rader'[q] = rader[q], poster'[q] = poster[q]
      PROVE  /\ \A b \in DOMAIN rader[q] : rader[q][b].status \notin Uloste => status'[b] \notin Uloste
             /\ \A b \in DOMAIN poster[q] :
                  \/ rader[q][b].tekst \in Delt
                  \/ poster[q][b].logget
                  \/ (poster[q][b].funnet /\ (poster[q][b].adresse \/ status'[b] \notin Uloste))
    BY <1>4 DEF GjortRede
  <2> QED BY <1>1, <1>2, <1>3 DEF GjortRede
<1>5. ASSUME NEW r \in Kjoringer, Les(r) PROVE GjortRede'
  <2> DEFINE D == {x \in Bygg : Mangler(x)}
             svar == [b \in D |-> [tekst |-> tekst[b], status |-> status[b], sted |-> sted[b]]]
  <2>1. rader' = [rader EXCEPT ![r] = svar] BY <1>5 DEF Les
  <2>2. poster' = poster /\ status' = status BY <1>5 DEF Les, adresser
  <2>3. \A b \in DOMAIN svar : svar[b].status = status[b] OBVIOUS
  <2> HIDE DEF svar, D
  <2>4. \A q \in Kjoringer : q # r => rader'[q] = rader[q] BY <2>1 DEF TypeOK
  <2>5. rader'[r] = svar BY <2>1 DEF TypeOK
  <2>6. DOMAIN poster[r] = {} BY <1>3, <1>5 DEF Les
  <2> QED BY <2>2, <2>3, <2>4, <2>5, <2>6 DEF GjortRede
<1>6. ASSUME NEW r \in Kjoringer, NEW b \in Rest(r),
             Finner(r, b) \/ FinnerIkke(r, b) \/ RadenDelt(r, b) \/ KallFeiler(r, b)
      PROVE  GjortRede'
  BY <1>6, OppslagRede
<1>7. ASSUME NEW r \in Kjoringer, Avslutt(r) PROVE GjortRede' BY <1>4, <1>7, AvsluttTom
<1>8. CASE rader' = rader /\ poster' = poster BY <1>4, <1>8
<1> QED BY <1>5, <1>6, <1>7, <1>8
        DEF Next, Geokod, Anvend, Avbryt, Last, SettAdresse, SettFakta, vars

\* Every row of a query is completed or logged when its file is applied.
THEOREM FullfortEllerLoggetAlltid == Spec => FullfortEllerLogget
<1>1. Init => GjortRede
  <2> SUFFICES ASSUME Init PROVE GjortRede OBVIOUS
  <2>1. \A r \in Kjoringer : DOMAIN rader[r] = {} /\ DOMAIN poster[r] = {}
    BY TomDelvis DEF Init
  <2> QED BY <2>1 DEF GjortRede
<1>2. ASSUME TypeOK, GjortRede, NEW r \in Kjoringer, NEW B \in Feilende, Anvend(r, B),
             NEW b \in DOMAIN rader[r], b \notin spor', rader[r][b].tekst \notin Delt
      PROVE  status'[b] \notin Uloste /\ fakta'[b] # Ingen
  <2>1. b \in Bygg BY <1>2, RaderHarTekst
  <2>2. b \in DOMAIN poster[r] BY <1>2 DEF Anvend, Rest, TypeOK
  <2>3. ~ poster[r][b].logget /\ \A blokk \in Blokker : poster[r][b][blokk] => <<b, blokk>> \notin B
    BY <1>2, <2>2 DEF Anvend, Logget
  <2>4. poster[r][b].funnet /\ (poster[r][b].adresse \/ status[b] \notin Uloste)
    BY <1>2, <2>2, <2>3 DEF GjortRede
  <2>5. Gjores(r, b, "funnet", B)
    BY <2>2, <2>3, <2>4 DEF Gjores, Blokker
  <2>6. poster[r][b].sted \in Sted BY <1>2, <2>1, <2>5, GjoresGir DEF Blokker
  <2>7. fakta'[b] # Ingen BY <1>2, <2>1, <2>5, <2>6, Oppslagene DEF Anvend, NyeFakta
  <2>8. poster[r][b].adresse => Gjores(r, b, "adresse", B)
    BY <2>2, <2>3 DEF Gjores, Blokker
  <2>9. status'[b] \notin Uloste BY <1>2, <2>1, <2>4, <2>8 DEF Anvend, NyStatus, Uloste
  <2> QED BY <2>7, <2>9
<1>3. TypeOK /\ GjortRede /\ [Next]_vars => GjortRede' BY RedeBevart
<1>4. TypeOK /\ GjortRede =>
        [\A r \in Kjoringer, B \in Feilende : Anvend(r, B) =>
           \A b \in DOMAIN rader[r] :
             \/ rader[r][b].tekst \in Delt
             \/ b \in spor' \/ (status'[b] \notin Uloste /\ fakta'[b] # Ingen)]_vars
  BY <1>2
<1> QED BY <1>1, <1>3, <1>4, TypeKorrekt, PTL DEF Spec, FullfortEllerLogget

-----------------------------------------------------------------------------
(* What an editor sets. *)

\* A run does not read an address that is set by hand, and one that no run has read
\* is not written: it stays as the editor set it.
THEOREM ManueltAlltidBlir == Spec => ManueltBlir
<1>1. ASSUME TypeOK, [Next]_vars, NEW b \in Bygg, status[b] = "manuell",
             \A r \in Kjoringer : b \notin DOMAIN rader[r]
      PROVE  /\ status'[b] = "manuell" /\ sted'[b] = Manuelt
             /\ \A r \in Kjoringer : b \notin DOMAIN rader'[r]
  <2>0. sted[b] = Manuelt BY <1>1 DEF TypeOK
  <2>1. ASSUME NEW r \in Kjoringer, Les(r)
        PROVE  status' = status /\ sted' = sted /\ \A q \in Kjoringer : b \notin DOMAIN rader'[q]
    <3> DEFINE D == {x \in Bygg : Mangler(x)}
               svar == [x \in D |-> [tekst |-> tekst[x], status |-> status[x], sted |-> sted[x]]]
    <3>1. b \notin D BY <1>1 DEF Mangler
    <3>2. rader' = [rader EXCEPT ![r] = svar] BY <2>1 DEF Les
    <3>3. DOMAIN svar = D OBVIOUS
    <3> HIDE DEF svar, D
    <3> QED BY <1>1, <2>1, <3>1, <3>2, <3>3 DEF Les, adresser, TypeOK
  <2>2. ASSUME NEW r \in Kjoringer, NEW x \in Rest(r),
               Finner(r, x) \/ FinnerIkke(r, x) \/ RadenDelt(r, x) \/ KallFeiler(r, x)
        PROVE  status' = status /\ sted' = sted /\ rader' = rader
    BY <2>2 DEF Finner, FinnerIkke, RadenDelt, KallFeiler, Skriv, adresser
  <2>3. ASSUME NEW r \in Kjoringer, NEW B \in Feilende, Anvend(r, B)
        PROVE  /\ status'[b] = "manuell" /\ sted'[b] = Manuelt
               /\ \A q \in Kjoringer : b \notin DOMAIN rader'[q]
    <3>1. b \notin DOMAIN poster[r] BY <1>1 DEF TypeOK
    <3>2. status'[b] = "manuell" /\ sted'[b] = Manuelt
      BY <1>1, <2>0, <2>3, <3>1 DEF Anvend, NyStatus, NyttSted, Gjores
    <3> QED BY <1>1, <2>3, <3>2, AvsluttTom DEF Anvend
  <2>4. ASSUME NEW r \in Kjoringer, Avbryt(r)
        PROVE  status' = status /\ sted' = sted /\ \A q \in Kjoringer : b \notin DOMAIN rader'[q]
    BY <1>1, <2>4, AvsluttTom DEF Avbryt, adresser
  <2>5. ASSUME NEW x \in Bygg, NEW t \in Tekst, Last(x, t)
        PROVE  status' = status /\ sted' = sted /\ rader' = rader
    BY <2>5 DEF Last
  <2>6. ASSUME NEW x \in Bygg, SettAdresse(x) \/ SettFakta(x)
        PROVE  status'[b] = "manuell" /\ sted'[b] = Manuelt /\ rader' = rader
    BY <1>1, <2>0, <2>6 DEF SettAdresse, SettFakta, adresser, TypeOK
  <2>7. CASE UNCHANGED vars BY <1>1, <2>0, <2>7 DEF vars, adresser
  <2> QED BY <1>1, <2>0, <2>1, <2>2, <2>3, <2>4, <2>5, <2>6, <2>7 DEF Next, Geokod
<1>2. TypeOK /\ [Next]_vars =>
        [\A b \in Bygg : status[b] = "manuell" /\ (\A r \in Kjoringer : b \notin DOMAIN rader[r]) =>
           /\ status'[b] = "manuell" /\ sted'[b] = Manuelt
           /\ \A r \in Kjoringer : b \notin DOMAIN rader'[r]]_vars
  BY <1>1
<1> QED BY <1>2, TypeKorrekt, PTL DEF Spec, ManueltBlir
=============================================================================
