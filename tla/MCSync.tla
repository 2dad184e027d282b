------------------------------- MODULE MCSync -------------------------------
(***************************************************************************)
(* The barrier, the two locks and the two small programs of threads that   *)
(* wait for each other, for TLC: the lobby, the museum's reader-writer     *)
(* lock, the spinlock, ping-pong and the horse race.  A behaviour is one   *)
(* of the program that is chosen at the start; the variables of the others *)
(* keep their initial values.                                              *)
(***************************************************************************)
EXTENDS GameLobby

CONSTANTS
  a, b, c,
  Readers, Writers, Writes, r1, r2, w1, w2,     \* RWLock
  STOP_AT,                                      \* PingPong
  horses, finish, Deltas,                       \* HorseRace
  SpinWorkers, Wrap                             \* Spinlock

ASSUME SyncAssumption ==
  /\ IsFiniteSet(Readers) /\ IsFiniteSet(Writers)
  /\ Readers \cap Writers = {} /\ NoOne \notin Readers \cup Writers
  /\ {Writes, STOP_AT} \subseteq Nat
  /\ {horses, finish, SpinWorkers, Wrap} \cup Deltas \subseteq Nat \ {0}

VARIABLES
  program,
  data_, lock_mtx, wait_to_read_, wait_to_write_,
  readers_, writers_, waiting_writers_, lock_pc,        \* RWLock
  thread_pc, sem, asleep,                               \* Threading
  turn, count,                                          \* PingPong
  positions, expected, shown, moved,                    \* HorseRace
  flag_, ctr, read                                      \* Spinlock

Museum == INSTANCE RWLock WITH pc <- lock_pc, mtx_ <- lock_mtx
Ping == INSTANCE PingPong WITH pc <- thread_pc
Race == INSTANCE HorseRace WITH pc <- thread_pc
Spin == INSTANCE Spinlock WITH pc <- thread_pc, Workers <- SpinWorkers

museumVars == <<data_, lock_mtx, wait_to_read_, wait_to_write_, readers_,
                writers_, waiting_writers_, lock_pc>>
pingVars == <<turn, count>>
raceVars == <<positions, expected, shown, moved>>
spinVars == <<flag_, ctr, read>>
allVars == <<program, vars, museumVars, thread_pc, sem, asleep, pingVars, raceVars, spinVars>>

InLobby == program = "5_game_lobby"
InMuseum == program = "4_museum_decor"
InPing == program = "1_two_thread_ping_pong"
InRace == program = "2_horse_race"
InSpin == program = "spinlock"

PingIdle == turn = Ping!pinger /\ count = 0
RaceIdle ==
  /\ positions = [h \in Race!Horses |-> 0] /\ expected = horses
  /\ shown = positions /\ moved = {}
SpinIdle == flag_ = FALSE /\ ctr = 0 /\ read = << >>

MCInit ==
  /\ Init /\ Museum!Init
  /\ \/ program \in {"5_game_lobby", "4_museum_decor"}
        /\ thread_pc = << >> /\ sem = << >> /\ asleep = << >>
        /\ PingIdle /\ RaceIdle /\ SpinIdle
     \/ program = "1_two_thread_ping_pong" /\ Ping!Init /\ RaceIdle /\ SpinIdle
     \/ program = "2_horse_race" /\ Race!Init /\ PingIdle /\ SpinIdle
     \/ program = "spinlock" /\ Spin!Init /\ PingIdle /\ RaceIdle

(* What a program leaves alone.                                            *)
Lobby(A) ==
  InLobby /\ A /\ UNCHANGED <<program, museumVars, thread_pc, sem, asleep,
                              pingVars, raceVars, spinVars>>
MuseumRuns(A) ==
  InMuseum /\ A /\ UNCHANGED <<program, vars, thread_pc, sem, asleep,
                               pingVars, raceVars, spinVars>>
PingRuns(A) ==
  InPing /\ A /\ UNCHANGED <<program, vars, museumVars, raceVars, spinVars>>
RaceRuns(A) ==
  InRace /\ A /\ UNCHANGED <<program, vars, museumVars, pingVars, spinVars>>
SpinRuns(A) ==
  InSpin /\ A /\ UNCHANGED <<program, vars, museumVars, pingVars, raceVars>>

Finished ==
  \/ InPing /\ Ping!Ended
  \/ InRace /\ Race!Ended

MCNext ==
  \/ Lobby(Next)
  \/ MuseumRuns(Museum!Next)
  \/ PingRuns((\E t \in Ping!PingPongThreads : Ping!Step(t)) \/ Ping!Spurious)
  \/ RaceRuns(\E h \in Race!Horses : Race!Step(h))
  \/ SpinRuns(\E t \in Spin!SpinThreads : Spin!Step(t))
  \/ Finished /\ UNCHANGED allVars

(* The scheduling that each program relies on.                             *)
Fair ==
  /\ \A p \in Players : WF_allVars(Lobby(player(p)))
  /\ \A r \in Readers : WF_allVars(MuseumRuns(Museum!read(r)))
  /\ \A w \in Writers : WF_allVars(MuseumRuns(Museum!writer(w)))
  /\ \A t \in Ping!PingPongThreads : WF_allVars(PingRuns(Ping!Step(t)))
  /\ \A h \in Race!Horses : WF_allVars(RaceRuns(Race!Step(h)))
  /\ \A t \in Spin!SpinThreads : WF_allVars(SpinRuns(Spin!Step(t)))

MCSpec == MCInit /\ [][MCNext]_allVars /\ Fair
-----------------------------------------------------------------------------
(* Neither lock forgets whom it keeps waiting (see RWLock).                *)
LockInv == Museum!LockInv

(* The copy that a reader makes outside the mutex never overlaps a write,  *)
(* two writes never overlap, and the spinlock's counter loses no           *)
(* increment.                                                              *)
NoDataRace == Museum!NoDataRace /\ (InSpin => Spin!NoIncrementLost)

(* Nobody moves after the picture that shows a winner (see HorseRace).     *)
RaceOver == InRace => Race!RaceOver

(* The screen is updated when all have moved (see HorseRace).              *)
ShownWhenAllMoved == [][Race!ShownWhenAllMoved]_allVars

(* A thread is woken again and again for no reason.                        *)
WokenForEver ==
  []<><<\/ Lobby(\E p \in Players : Wake(p))
        \/ MuseumRuns(\/ \E r \in Readers : Museum!ReaderWakes(r)
                      \/ \E w \in Writers : Museum!WriterWakes(w))>>_allVars

(* All players play all their rounds, ping-pong and the race end, and the  *)
(* spinlock is taken for ever; a writer once counted gets to write however *)
(* often the readers come back (see RWLock).  Only spurious wake-ups that  *)
(* never end could keep a mutex from the others for ever.                  *)
EverybodyGetsThere ==
  \/ WokenForEver
  \/ /\ []<>(\/ InMuseum
             \/ InLobby /\ \A p \in Players : pc[p] = "done"
             \/ Finished
             \/ InSpin /\ ctr = 0)
     /\ []<>(InSpin => ctr # 0)
     /\ \A w \in Writers : Museum!Counted(w) ~> lock_pc[w] = "writing"
=============================================================================
