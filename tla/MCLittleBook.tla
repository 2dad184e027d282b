---------------------------- MODULE MCLittleBook ----------------------------
(***************************************************************************)
(* The programs of cpp/problems/from little book of semaphores for TLC:    *)
(* the savages' pot, the smokers' table, the barbershops, Hilzer's shop    *)
(* and Santa's.  A behaviour is one of the program that is chosen at the   *)
(* start; the variables of the others do not change.                       *)
(***************************************************************************)
EXTENDS Threading, Sequences

CONSTANTS
  Programs,                                         \* those that are run
  M, Diners,                                        \* DiningSavages
  Generations,                                      \* CigaretteSmokers
  Rounds,                                           \* SmokerPushers
  BoardRounds, Draws,                               \* SmokerScoreboard
  NCustomers, N_CHAIRS,                             \* Barbershop
  Barbers, Ushers, MAX_CUSTOMERS, SOFA_CAPACITY,
  LeftOut,                                          \* HilzerBarbershop
  Deer, Elves, Group                                \* SantaClaus

ASSUME LittleBookAssumption ==
  /\ {M, Diners, NCustomers, N_CHAIRS, Barbers, Ushers, MAX_CUSTOMERS,
      SOFA_CAPACITY, Deer, Elves, Group} \subseteq Nat \ {0}
  /\ {Generations, Rounds, BoardRounds} \subseteq Nat
  /\ Draws \in [1..BoardRounds -> SUBSET (0..2)]
  /\ Group <= Elves

(* Values of the runs: a round of the scoreboard's in which item 0 is left *)
(* out and one in which 0 or 2 is; Hilzer's shop with two ushers and one   *)
(* barber, or with one usher and two barbers.                              *)
MCDraws == <<{0}, {0, 2}>>
MCLeftOut == {{<<"barber", 2>>}, {<<"usher", 2>>}}

VARIABLES
  program,
  meals, cur_m,                                                  \* DiningSavages
  table, agent_can_place,                                        \* the smokers
  item_generation, generation, to_notify,
  seen_generation, candidate_generation,                         \* CigaretteSmokers
  push_pending, to_announce, notif, rounds,                      \* SmokerPushers
  scoreboard, current, old, notify, to_post,                     \* SmokerScoreboard
  n_customers,                                                   \* the barbershops
  barber_chair_free, queue, called,                              \* Barbershop
  standing_queue, sofa_queue, next, ahead,                    \* HilzerBarbershop
  elves_ready, deer_ready                                        \* SantaClaus

Savages == INSTANCE DiningSavages
Smokers == INSTANCE CigaretteSmokers
Pushers == INSTANCE SmokerPushers

Board == INSTANCE SmokerScoreboard WITH Rounds <- BoardRounds
Barbershops == INSTANCE Barbershop
Hilzer == INSTANCE HilzerBarbershop
North == INSTANCE SantaClaus

potVars == <<meals, cur_m>>
smokersOnly ==
  <<item_generation, generation, to_notify, seen_generation, candidate_generation>>
pushersOnly == <<push_pending, to_announce, notif>>
boardOnly == <<scoreboard, current, old, notify, to_post>>
tableVars ==
  <<potVars, table, agent_can_place, rounds, smokersOnly, pushersOnly, boardOnly>>

barbersOnly == <<barber_chair_free, queue, called>>
hilzerOnly == <<standing_queue, sofa_queue, next, ahead>>
northVars == <<elves_ready, deer_ready>>
shopVars == <<n_customers, barbersOnly, hilzerOnly, northVars>>

allVars == <<program, threadVars, tableVars, shopVars>>

InPot == program \in {"savages_1", "savages_2", "savages_3", "savages_4"}
InSmokers == program \in {"smokers_1", "smokers_2"}
InPushers == program \in {"smokers_3", "smokers_3_1", "smokers_hard"}
InBoard == program = "smokers_atomics"
InBarbershop == program \in {"barbershop_0", "barbershop_1", "barbershop_2"}
InHilzer == program = "hilzer"
InNorth == program = "santa"

(* The agent of the harder variant does not wait for the table.            *)
Impatient == program \in {"smokers_hard", "smokers_atomics"}

SmokersIdle == Smokers!SmokersIdle /\ Pushers!PushersIdle /\ Board!BoardIdle
ShopsIdle == Barbershops!ShopIdle /\ Hilzer!HilzerIdle /\ North!NorthIdle
TablesIdle == Savages!PotIdle /\ SmokersIdle

MCInit ==
  /\ program \in Programs
  /\ \/ Savages!Init /\ SmokersIdle /\ ShopsIdle
     \/ Smokers!Init /\ TablesIdle /\ ShopsIdle
     \/ Pushers!Init /\ TablesIdle /\ ShopsIdle
     \/ Board!Init /\ TablesIdle /\ ShopsIdle
     \/ Barbershops!Init /\ TablesIdle /\ ShopsIdle
     \/ program = "hilzer" /\ Hilzer!Init /\ TablesIdle /\ ShopsIdle
     \/ program = "santa" /\ North!Init /\ TablesIdle /\ ShopsIdle

(* What a program leaves alone.                                            *)
PotFrame ==
  UNCHANGED <<table, agent_can_place, rounds, smokersOnly, pushersOnly,
              boardOnly, shopVars>>
SmokersFrame == UNCHANGED <<potVars, pushersOnly, boardOnly, rounds, shopVars>>
PushersFrame == UNCHANGED <<potVars, smokersOnly, boardOnly, shopVars>>
BoardFrame ==
  UNCHANGED <<potVars, table, agent_can_place, smokersOnly, pushersOnly, shopVars>>
BarberFrame == UNCHANGED <<tableVars, hilzerOnly, northVars>>
HilzerFrame == UNCHANGED <<tableVars, barbersOnly, northVars>>
NorthFrame == UNCHANGED <<tableVars, n_customers, barbersOnly, hilzerOnly>>

Runs(t) ==
  \/ InPot /\ Savages!Step(t) /\ PotFrame
  \/ InSmokers /\ Smokers!Step(t) /\ SmokersFrame
  \/ InPushers /\ Pushers!Step(t) /\ PushersFrame
  \/ InBoard /\ Board!Step(t) /\ BoardFrame
  \/ InBarbershop /\ Barbershops!Step(t) /\ BarberFrame
  \/ InHilzer /\ Hilzer!Step(t) /\ HilzerFrame
  \/ InNorth /\ North!Step(t) /\ NorthFrame

(* Spurious wake-ups, and the end of what is bounded or may stop.          *)
Others ==
  \/ InPot /\ Savages!Spurious /\ PotFrame
  \/ InSmokers /\ (Smokers!Spurious \/ Smokers!RoundsOver) /\ SmokersFrame
  \/ InPushers /\ (Pushers!Spurious \/ Pushers!RoundsOver) /\ PushersFrame
  \/ InBoard /\ Board!RoundsOver /\ BoardFrame
  \/ InHilzer /\ Hilzer!MayStop /\ HilzerFrame
  \/ InNorth /\ North!Spurious /\ NorthFrame

ThreadsOf(p) ==
  CASE p \in Savages!Versions -> Savages!PotThreads
    [] p \in {"smokers_1", "smokers_2"} -> Smokers!SmokerThreads
    [] p \in {"smokers_3", "smokers_3_1", "smokers_hard"} -> Pushers!PusherThreads
    [] p = "smokers_atomics" -> Board!BoardThreads
    [] p \in {"barbershop_0", "barbershop_1", "barbershop_2"} -> Barbershops!ShopThreads
    [] p = "hilzer" -> Hilzer!HilzerThreads
    [] p = "santa" -> North!NorthThreads
    [] OTHER -> {}

Threads == UNION {ThreadsOf(p) : p \in Programs}

MCNext == (Others \/ \E t \in ThreadsOf(program) : Runs(t)) /\ UNCHANGED program

(* Every thread of the program runs, but the deer may stay on vacation.    *)
(* With the impatient agent, whose rounds are bounded, it is enough that   *)
(* some thread runs.                                                       *)
OnVacation(t) == t \in North!DeerThreads /\ pc[t] = "start"

Fair ==
  /\ WF_allVars(Impatient /\ (\E t \in ThreadsOf(program) : Runs(t)) /\ UNCHANGED program)
  /\ \A t \in Threads :
       WF_allVars(~Impatient /\ Runs(t) /\ ~OnVacation(t) /\ UNCHANGED program)

MCSpec == MCInit /\ [][MCNext]_allVars /\ Fair
-----------------------------------------------------------------------------
(* The four programs of the savages keep the rules of the pot: in the      *)
(* third it is the barrier, at which diners do not wait, that keeps a      *)
(* diner of the next pot from completing the phase of this one; in the     *)
(* second a diner may act on a serving count that is long gone.            *)
PotOf == INSTANCE Pot WITH servings <- IF InPot THEN Savages!servings ELSE 0
RefinesPot == PotOf!PotSpec

(* The six programs of the smokers keep the rules of the table: a smoker   *)
(* never smokes a mixture of two pairs or another smoker's pair, and no    *)
(* ingredient is lost or used twice, although in the harder variant the    *)
(* items of several rounds are on the table at once, and in the last       *)
(* program one atomic word and compare-exchange stand for the table.       *)
Nothing == Smokers!Nothing

lies_on_table ==
  CASE InSmokers -> Smokers!on_table [] InPushers -> Pushers!on_table
    [] InBoard -> Board!on_table [] OTHER -> Nothing

TableOf == INSTANCE SmokersTable WITH
  patient <- ~Impatient,
  on_table <- lies_on_table,
  cigarettes <- CASE InSmokers -> Smokers!cigarettes
                  [] InPushers -> Pushers!cigarettes
                  [] InBoard -> Board!cigarettes [] OTHER -> Nothing
RefinesTable == TableOf!TableSpec

(* What the programs take for granted holds: the asserts of                *)
(* cigarette_smoker_2.cpp:82-83, that the generation a smoker has pieced   *)
(* together is still the current one, and that no binary semaphore is      *)
(* released above one, which is undefined, though one thread acquires and  *)
(* another releases it.                                                    *)
TakenForGranted ==
  /\ InSmokers => Smokers!AssertsHold
  /\ program = "savages_4" => \A s \in {"mtx", "empty", "full"} : sem[s] <= 1
  /\ program = "smokers_3_1" => \A s \in DOMAIN sem : sem[s] <= 1

(* Nothing is lost on the way: for ever the pot is emptied and filled      *)
(* again, pairs are placed and taken; where the pairs are bounded, all of  *)
(* them are smoked.                                                        *)
AllSmoked ==
  \/ program = "smokers_2" /\ generation = Generations /\ Smokers!on_table = Nothing
  \/ program = "smokers_hard" /\ rounds = Rounds /\ Pushers!Settled
  \/ InBoard /\ rounds = BoardRounds /\ Board!Settled

Serves ==
  IF InPot THEN Savages!servings' # Savages!servings
           ELSE lies_on_table' # lies_on_table

TablesGoRound == []<>AllSmoked \/ []<><<Serves>>_allVars
-----------------------------------------------------------------------------
(* The three barbershops keep the rules of the shop: the barber's signals, *)
(* of which none names its customer, never end one customer's cut while    *)
(* another's is going on, and nobody leaves unshorn.                       *)
ShopOf == INSTANCE Shop WITH
  Customers <- Barbershops!Customers,
  waiting <- IF InBarbershop THEN Barbershops!waiting ELSE {},
  in_chair <- IF InBarbershop THEN Barbershops!in_chair ELSE {},
  shorn <- IF InBarbershop THEN Barbershops!shorn ELSE {}
RefinesShop == ShopOf!ShopSpec

(* No binary semaphore is released above one, which is undefined, although *)
(* each is released by one thread and acquired by another; barbershop_0's  *)
(* wait for the chair, inside the mutex, never has to wait.                *)
BinarySemaphores ==
  /\ InBarbershop => /\ \A s \in Barbershops!binary : sem[s] <= 1
                     /\ sem[Barbershops!barber_chair] = 1 => barber_chair_free
  /\ InHilzer => \A s \in Hilzer!binary : sem[s] <= 1

(* Hilzer's customers are seated in the order of their arrival, whichever  *)
(* usher and whatever token (see HilzerBarbershop).                        *)
InOrder == InHilzer => Hilzer!InOrder

(* The usher keeps the queue until the customer it called has sat down     *)
(* (see HilzerBarbershop).                                                 *)
UsherAwaitsSeating == InHilzer => Hilzer!UsherAwaitsSeating

(* The sofa is never overcrowded, and each payment has one receipt.        *)
SofaAndRegister == InHilzer => Hilzer!SofaAndRegister

(* Santa's elves keep to their groups, and no help is left over.           *)
GroupsStayTogether == InNorth => North!GroupsStayTogether

Served ==
  \/ n_customers' < n_customers
  \/ elves_ready # elves_ready'

(* Customers are served for ever, unless Hilzer's shop has lost somebody   *)
(* to a token taken back; the elves are helped for ever unless the deer    *)
(* keep coming, and they are helped when they do.                          *)
ShopsKeepServing ==
  /\ []<>(IF InHilzer THEN Hilzer!Stranded ELSE deer_ready) \/ []<><<Served>>_allVars
  /\ []<>~deer_ready
=============================================================================
