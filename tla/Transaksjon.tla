----------------------------- MODULE Transaksjon -----------------------------
(***************************************************************************)
(* The PostgreSQL transactions the load runs in: READ COMMITTED, row locks   *)
(* held until the end of the transaction, statement snapshots.  External:    *)
(* what is modelled is what the SQL the ETL writes relies on.               *)
(*                                                                         *)
(* A session keeps the rows it has written to itself until it commits.  A   *)
(* row another session has written is locked; a statement that needs it      *)
(* waits, and continues with the snapshot it had when it began to wait.     *)
(***************************************************************************)
CONSTANTS Okt,      \* sessions
          Rader,    \* row identities
          Ingen     \* no such row; no value

VARIABLES db,       \* [Rader -> committed value or Ingen]
          ny,       \* [Okt -> the rows the session has written, with their values]
          ser       \* [Okt -> snapshot of a waiting statement, or Ingen]

Ventende(s) == ser[s] # Ingen

\* What a statement of s sees: its own writes and what is committed.
Verdi(s, rad) == IF rad \in DOMAIN ny[s] THEN ny[s][rad] ELSE db[rad]

Synlige(s) == {rad \in Rader : Verdi(s, rad) # Ingen}

\* The snapshot of the statement: taken when it started.
Oyeblikk(s) == IF Ventende(s) THEN ser[s] ELSE Synlige(s)

\* Rows of the set that another session holds.
Opptatt(s, rader) == {rad \in rader : \E t \in Okt \ {s} : rad \in DOMAIN ny[t]}

\* The values of f, and those of g where f has none.
Over(f, g) == [x \in DOMAIN f \cup DOMAIN g |-> IF x \in DOMAIN f THEN f[x] ELSE g[x]]

\* The statement writes the rows of f and its lock wait is over.
Skriv(s, f) == /\ Opptatt(s, DOMAIN f) = {}
               /\ ny' = [ny EXCEPT ![s] = Over(f, @)]
               /\ ser' = [ser EXCEPT ![s] = Ingen]
               /\ UNCHANGED db

\* The statement needs rows that are held: it waits with the snapshot it has.
Vent(s, rader) == /\ ~ Ventende(s)
                  /\ Opptatt(s, rader) # {}
                  /\ ser' = [ser EXCEPT ![s] = Synlige(s)]
                  /\ UNCHANGED <<db, ny>>

Commit(s) == /\ db' = Over(ny[s], db)
             /\ ny' = [ny EXCEPT ![s] = <<>>]
             /\ ser' = [ser EXCEPT ![s] = Ingen]

Tilbakerull(s) == /\ ny' = [ny EXCEPT ![s] = <<>>]
                  /\ ser' = [ser EXCEPT ![s] = Ingen]
                  /\ UNCHANGED db

\* A row is held by one session at a time.
LaasEksklusiv == \A s, t \in Okt : s # t => DOMAIN ny[s] \cap DOMAIN ny[t] = {}

TxInit == /\ db = [rad \in Rader |-> Ingen]
          /\ ny = [s \in Okt |-> <<>>]
          /\ ser = [s \in Okt |-> Ingen]
=============================================================================
