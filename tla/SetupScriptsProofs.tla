-------------------------- MODULE SetupScriptsProofs --------------------------
(***************************************************************************)
(* Proofs about the operator's scripts, for any number of visitors, drip,  *)
(* funding and number of times a script is stopped or a transaction lost;  *)
(* and that the scripts use the faucet program as anybody may, so that its *)
(* theorems hold while they run.                                           *)
(* Whether a transaction could have been accepted (ENABLED) does not matter *)
(* for what is proved here: both outcomes are covered.                     *)
(***************************************************************************)
EXTENDS SetupScripts, FiniteSetTheorems, TLAPS

-------------------------------------------------------------------------------
(* The chain *)

\* What the registry and the faucet keep, without the operators they are from.
ChainOK ==
  /\ faucet \in [admin : Wallets, drip_amount : 1 .. MAX_DRIP] \cup {NoFaucet}
  /\ asset \in [Wallets -> 0 .. MaxU64]
  /\ assetSupply \in 0 .. MaxU64
  /\ mintAuthority \in Wallets \cup {FaucetSigner}
  /\ config \in Wallets \cup {FaucetSigner, NoKey}
  /\ credential \in [Wallets \cup {FaucetSigner} ->
                       Wallets \cup {FaucetSigner, NoKey}]
  /\ lamports \in [Wallets \cup {FaucetSigner} -> Nat]

LEMMA ChainOKDef == Faucet!TypeOK <=> ChainOK
  BY DEF ChainOK, Faucet!TypeOK, Faucet!Faucet, Faucet!U64, Faucet!Keys,
         Faucet!Identity!TypeOK

LEMMA ChainOKAfter == Faucet!TypeOK' <=> ChainOK'
  BY DEF ChainOK, Faucet!TypeOK, Faucet!Faucet, Faucet!U64, Faucet!Keys,
         Faucet!Identity!TypeOK

LEMMA Sizes ==
  /\ MaxU64 \in Nat /\ MAX_DRIP \in Nat /\ DRIP \in 1 .. MAX_DRIP
  /\ SIGNER_FUNDING \in Nat /\ InitialLamports \in Nat /\ MaxFaults \in Nat
  /\ Payer \in Wallets /\ PoolPda \in Wallets /\ Visitors \subseteq Wallets
  BY SetupAssumption
  DEF Wallets, Faucet!MaxU64Assumption, Faucet!FaucetAssumption, Faucet!U64

(* The transactions of the scripts, one lemma each.                        *)
LEMMA RegistryTransactions ==
  ASSUME ChainOK, UNCHANGED <<faucet, asset, assetSupply, mintAuthority>>,
         NEW k \in Wallets \cup {FaucetSigner}, NEW s \in Wallets \cup {FaucetSigner},
         \/ Faucet!Identity!Initialize(s) \/ Faucet!Identity!VerifyWallet(s, k)
         \/ Faucet!Identity!SetAuthority(s, k)
  PROVE  ChainOK'
  BY DEF ChainOK, Faucet!Identity!Initialize, Faucet!Identity!VerifyWallet,
         Faucet!Identity!SetAuthority, Faucet!Identity!PayRent

LEMMA FaucetInitializeKeeps ==
  ASSUME ChainOK, Faucet!Initialize(Payer, DRIP)
  PROVE  ChainOK'
<1>1. faucet' \in [admin : Wallets, drip_amount : 1 .. MAX_DRIP]
  BY Sizes DEF Faucet!Initialize
<1>2. lamports' \in [Wallets \cup {FaucetSigner} -> Nat]
  BY Sizes DEF ChainOK, Faucet!Initialize, Faucet!Identity!PayRent
<1> QED BY <1>1, <1>2 DEF ChainOK, Faucet!Initialize, Faucet!mint

LEMMA FundSignerKeeps ==
  ASSUME ChainOK, FundSigner, ~SignerFunded
  PROVE  ChainOK'
<1>1. lamports[FaucetSigner] \in Nat /\ lamports[Payer] \in Nat
  BY Sizes DEF ChainOK
<1>2. lamports' \in [Wallets \cup {FaucetSigner} -> Nat]
  BY <1>1, Sizes DEF ChainOK, FundSigner, SignerFunded
<1> QED BY <1>2 DEF ChainOK, FundSigner

LEMMA HandOverMintKeeps ==
  ASSUME ChainOK, Faucet!HandOverMint(Payer, FaucetSigner)
  PROVE  ChainOK'
  BY DEF ChainOK, Faucet!HandOverMint, Faucet!registry

LEMMA GiveRegistryKeeps ==
  ASSUME ChainOK, GiveRegistry
  PROVE  ChainOK'
  BY DEF ChainOK, GiveRegistry, Faucet!Identity!SetAuthority

LEMMA BorrowRegistryKeeps ==
  ASSUME ChainOK, Faucet!SetIdentityAuthority(Payer, Payer)
  PROVE  ChainOK'
  BY Sizes DEF ChainOK, Faucet!SetIdentityAuthority,
               Faucet!Identity!SetAuthority, Faucet!mint

LEMMA ClaimKeeps ==
  ASSUME ChainOK, NEW v \in Visitors, Faucet!Claim(v, v)
  PROVE  ChainOK'
<1>1. v \in Wallets
  BY Sizes
<1>2. faucet # NoFaucet /\ Faucet!CanMint(asset, assetSupply, v, faucet.drip_amount)
  BY DEF Faucet!Claim, Faucet!CanDrip
<1>3. faucet.drip_amount \in Nat
  BY <1>2, Sizes DEF ChainOK
<1>4. assetSupply' \in 0 .. MaxU64 /\ asset' \in [Wallets -> 0 .. MaxU64]
  BY <1>1, <1>2, <1>3, Sizes
  DEF ChainOK, Faucet!Claim, Faucet!CanMint, Faucet!Minted, Faucet!U64
<1>5. /\ config' = config
      /\ credential' \in [Wallets \cup {FaucetSigner} ->
                            Wallets \cup {FaucetSigner, NoKey}]
      /\ lamports' \in [Wallets \cup {FaucetSigner} -> Nat]
  BY <1>1
  DEF ChainOK, Faucet!Claim, Faucet!EnsureVerified, Faucet!registry,
      Faucet!Identity!VerifyWallet, Faucet!Identity!PayRent
<1> QED BY <1>4, <1>5 DEF ChainOK, Faucet!Claim

-------------------------------------------------------------------------------
(* The scripts *)

LEMMA RecordedInit == Init => Recorded
<1> SUFFICES ASSUME Init PROVE Recorded
  OBVIOUS
<1>1. ChainOK
  BY Sizes DEF ChainOK, Init
<1>2. quoteMints \in 0 .. MaxFaults + 1 /\ faults \in 0 .. MaxFaults
  BY Sizes DEF Init
<1>3. pools \subseteq 1 .. quoteMints
  BY DEF Init
<1>4. /\ local \in [quoteMint : 0 .. quoteMints, lpMint : {NoMint, PoolLp, UnusedKey}]
      /\ file \in [deployed : BOOLEAN, quoteMint : 0 .. quoteMints,
                   lpMint : {NoMint, PoolLp, UnusedKey}]
  BY DEF Init
<1>5. TypeOK
  BY <1>1, <1>2, <1>3, <1>4, ChainOKDef DEF TypeOK, Init, Steps
<1> QED BY <1>5, Sizes
        DEF Recorded, Init, QuoteMintKnown, KnowsQuoteMint, OnePool

\* The faults a step may use up.
FaultsCounted ==
  faults' \in 0 .. MaxFaults /\ (faults' = faults \/ faults' = faults + 1)

\* What the solver does not find among the facts about a step.
LEMMA Grown ==
  ASSUME NEW a \in Int, NEW b \in Int, NEW c \in Int, NEW d \in Int,
         a <= b + d, b <= c
  PROVE  a <= c + d
  OBVIOUS

(* A step that leaves the pool and what the script knows as they are is     *)
(* harmless wherever the script goes on, other than into the steps of      *)
(* setup-pool that know the quote mint.                                    *)
LEMMA Unmoved ==
  ASSUME Recorded, ChainOK', FaultsCounted,
         UNCHANGED <<pools, quoteMints, funded, seeded, payerP>>,
         UNCHANGED <<local, file, poolDone>>,
         pc' \in Steps, pc' \in KnowsQuoteMint => pc \in KnowsQuoteMint
  PROVE  Recorded'
<1>1. Faucet!TypeOK'
  BY ChainOKAfter
<1>2. TypeOK'
  BY <1>1 DEF Recorded, TypeOK, FaultsCounted
<1>3. quoteMints' <= faults' + (IF QuoteMintKnown' THEN 1 ELSE 0)
  <2>1. quoteMints \in Int /\ faults \in Int /\ faults' \in Int /\ faults <= faults'
    BY Sizes DEF Recorded, TypeOK, FaultsCounted
  <2>2. (QuoteMintKnown' <=> QuoteMintKnown) /\ quoteMints' = quoteMints
    BY DEF QuoteMintKnown
  <2>3. quoteMints <= faults + (IF QuoteMintKnown THEN 1 ELSE 0)
    BY DEF Recorded
  <2> DEFINE known == IF QuoteMintKnown THEN 1 ELSE 0
  <2>4. known \in Int /\ known' = known
    BY <2>2
  <2>5. quoteMints <= faults + known
    BY <2>3
  <2> HIDE DEF known
  <2>6. quoteMints <= faults' + known
    BY <2>1, <2>4, <2>5, Grown
  <2> QED BY <2>2, <2>4, <2>6 DEF known
<1>4. /\ pc' \in KnowsQuoteMint =>
           QuoteMintKnown' /\ local'.quoteMint = file'.quoteMint
      /\ OnePool'
  BY DEF Recorded, OnePool, QuoteMintKnown
<1> QED BY <1>2, <1>3, <1>4 DEF Recorded, KnowsQuoteMint

\* Nothing landed on the chain.
LEMMA ChainStays ==
  ASSUME Recorded, UNCHANGED chain
  PROVE  ChainOK' /\ UNCHANGED <<pools, quoteMints, funded, seeded, payerP>>
<1>1. ChainOK
  BY ChainOKDef DEF Recorded, TypeOK
<1> QED BY <1>1 DEF ChainOK, chain, faucetVars, registry, poolVars

LEMMA NoFault ==
  ASSUME Recorded, UNCHANGED faults
  PROVE  FaultsCounted
  BY DEF Recorded, TypeOK, FaultsCounted

LEMMA OneFault ==
  ASSUME Recorded, Fault
  PROVE  FaultsCounted
  BY Sizes DEF Recorded, TypeOK, FaultsCounted, Fault

\* Where a transaction that was waited for, or that stopped the script, ends.
LEMMA GoOn ==
  ASSUME Recorded, ChainOK', UNCHANGED poolVars, FaultsCounted,
         NEW step \in Steps, GoTo(step),
         step \in KnowsQuoteMint => pc \in KnowsQuoteMint
  PROVE  Recorded'
  BY Unmoved DEF GoTo, poolVars

LEMMA Ended ==
  ASSUME Recorded, ChainOK', UNCHANGED poolVars, Stopped
  PROVE  Recorded'
  BY GoOn, OneFault DEF Stopped, Steps, KnowsQuoteMint

LEMMA Refused ==
  ASSUME Recorded, UNCHANGED chain, FaultsCounted,
         NEW step \in Steps, GoTo(step),
         step \in KnowsQuoteMint => pc \in KnowsQuoteMint
  PROVE  Recorded'
  BY ChainStays, GoOn DEF poolVars

LpMints == {NoMint, PoolLp, UnusedKey}

LEMMA AtMostOneMore ==
  ASSUME NEW P \in BOOLEAN, NEW m \in Nat, NEW f \in 0 .. m, NEW a \in Nat,
         a <= f + (IF P THEN 1 ELSE 0)
  PROVE  a \in 0 .. m + 1
  OBVIOUS

\* What has to be shown where the pool, the file or the mints do change.
LEMMA Assembled ==
  ASSUME ChainOK', faults' \in 0 .. MaxFaults, quoteMints' \in Nat,
         quoteMints' <= faults' + (IF QuoteMintKnown' THEN 1 ELSE 0),
         pools' \subseteq 1 .. quoteMints', OnePool',
         funded' \in BOOLEAN, seeded' \in BOOLEAN, payerP' \in BOOLEAN,
         poolDone' \in BOOLEAN,
         pc' \in Steps,
         local' \in [quoteMint : 0 .. quoteMints', lpMint : LpMints],
         file' \in [deployed : BOOLEAN, quoteMint : 0 .. quoteMints', lpMint : LpMints],
         pc' \in KnowsQuoteMint =>
           QuoteMintKnown' /\ local'.quoteMint = file'.quoteMint
  PROVE  Recorded'
<1>1. QuoteMintKnown' \in BOOLEAN /\ MaxFaults \in Nat
  BY Sizes DEF QuoteMintKnown
<1>2. quoteMints' \in 0 .. MaxFaults + 1
  BY <1>1, AtMostOneMore
<1>3. TypeOK'
  BY <1>2, ChainOKAfter DEF TypeOK, LpMints
<1> QED BY <1>3 DEF Recorded, KnowsQuoteMint

\* The same of the state before, for the actions below.
LEMMA Before ==
  ASSUME Recorded
  PROVE  /\ ChainOK /\ faults \in 0 .. MaxFaults /\ quoteMints \in Nat
         /\ quoteMints <= faults + (IF QuoteMintKnown THEN 1 ELSE 0)
         /\ pools \subseteq 1 .. quoteMints /\ pools \subseteq {file.quoteMint}
         /\ funded \in BOOLEAN /\ seeded \in BOOLEAN /\ payerP \in BOOLEAN
         /\ poolDone \in BOOLEAN
         /\ pc \in Steps
         /\ local \in [quoteMint : 0 .. quoteMints, lpMint : LpMints]
         /\ file \in [deployed : BOOLEAN, quoteMint : 0 .. quoteMints, lpMint : LpMints]
         /\ pc \in KnowsQuoteMint =>
              QuoteMintKnown /\ local.quoteMint = file.quoteMint
<1>1. ChainOK
  BY ChainOKDef DEF Recorded, TypeOK
<1>2. faults \in 0 .. MaxFaults /\ quoteMints \in Nat
  BY Sizes DEF Recorded, TypeOK
<1> QED BY <1>1, <1>2 DEF Recorded, TypeOK, LpMints, OnePool

\* A script that ends, its transaction not accepted.
LEMMA IdleKeeps ==
  ASSUME Recorded, UNCHANGED chain, Stopped \/ (UNCHANGED faults /\ GoTo("idle"))
  PROVE  Recorded'
  BY ChainStays, Ended, GoOn, NoFault DEF poolVars, Steps, KnowsQuoteMint

LEMMA MoreFaults ==
  ASSUME NEW P \in BOOLEAN, NEW f \in Nat, NEW g \in {f, f + 1}, NEW a \in Nat,
         a <= f + (IF P THEN 1 ELSE 0)
  PROVE  a <= g + (IF P THEN 1 ELSE 0)
  OBVIOUS

(* A run creates a quote mint only when the file names none: what earlier   *)
(* runs created was then lost in a fault of its own, and so is this one if *)
(* the run is stopped before it is written down.                           *)
LEMMA PoolQuoteKeeps ==
  ASSUME Recorded, PoolQuote
  PROVE  Recorded'
<1> DEFINE chosen == IF QuoteMintKnown THEN file.quoteMint ELSE quoteMints + 1
           lpMint == IF file.lpMint # NoMint THEN file.lpMint ELSE UnusedKey
           known == /\ local' = [quoteMint |-> chosen, lpMint |-> lpMint]
                    /\ file' = [file EXCEPT !.quoteMint = chosen]
                    /\ pc' = "pool"
                    /\ UNCHANGED poolDone
<1>1. lpMint \in LpMints /\ file.quoteMint \in 0 .. quoteMints
  BY Before DEF LpMints
<1>3. CASE QuoteMintKnown /\ UNCHANGED <<chain, faults>> /\ known
  <2>1. ChainOK' /\ UNCHANGED <<pools, quoteMints, funded, seeded, payerP, faults>>
    BY <1>3, ChainStays
  <2>2. /\ local' \in [quoteMint : 0 .. quoteMints', lpMint : LpMints]
        /\ file' \in [deployed : BOOLEAN, quoteMint : 0 .. quoteMints', lpMint : LpMints]
        /\ file'.quoteMint = file.quoteMint /\ local'.quoteMint = file.quoteMint
    BY <1>1, <1>3, <2>1, Before
  <2>3. QuoteMintKnown' /\ OnePool'
    BY <1>3, <2>1, <2>2, Before DEF QuoteMintKnown, OnePool
  <2>4. quoteMints' <= faults' + (IF QuoteMintKnown' THEN 1 ELSE 0)
    BY <1>3, <2>1, <2>3, Before
  <2>5. pc' \in Steps
    BY <1>3 DEF Steps
  <2> QED BY <1>3, <2>1, <2>2, <2>3, <2>4, <2>5, Before, Assembled
<1>4. CASE ~QuoteMintKnown /\ CreateQuoteMint /\ known /\ UNCHANGED faults
  <2>1. /\ ChainOK' /\ quoteMints' = quoteMints + 1
        /\ UNCHANGED <<pools, funded, seeded, payerP, faults>>
    BY <1>4, Before DEF CreateQuoteMint, ChainOK, faucetVars, registry
  <2>2. /\ local' \in [quoteMint : 0 .. quoteMints', lpMint : LpMints]
        /\ file' \in [deployed : BOOLEAN, quoteMint : 0 .. quoteMints', lpMint : LpMints]
        /\ file'.quoteMint = quoteMints + 1 /\ local'.quoteMint = quoteMints + 1
    BY <1>1, <1>4, <2>1, Before
  <2>3. QuoteMintKnown' /\ quoteMints' \in Nat
    BY <2>1, <2>2, Before DEF QuoteMintKnown
  <2>4. pools' = {}
    BY <1>4, <2>1, Before DEF QuoteMintKnown
  <2>5. quoteMints' <= faults' + (IF QuoteMintKnown' THEN 1 ELSE 0)
    <3>1. quoteMints <= faults /\ faults \in Nat /\ quoteMints \in Nat
      BY <1>4, Before
    <3>2. quoteMints' <= faults' + 1
      BY <2>1, <3>1
    <3> QED BY <2>3, <3>2
  <2>6. pc' \in Steps /\ OnePool' /\ pools' \subseteq 1 .. quoteMints'
    BY <1>4, <2>4 DEF Steps, OnePool
  <2> QED BY <1>4, <2>1, <2>2, <2>3, <2>5, <2>6, Before, Assembled
<1>5. CASE ~QuoteMintKnown /\ CreateQuoteMint /\ Stopped
  <2>1. /\ ChainOK' /\ quoteMints' = quoteMints + 1 /\ faults' = faults + 1
        /\ UNCHANGED <<pools, funded, seeded, payerP, local, file, poolDone>>
    BY <1>5, Before
    DEF CreateQuoteMint, ChainOK, faucetVars, registry, Stopped, Fault, GoTo
  <2>2. /\ local' \in [quoteMint : 0 .. quoteMints', lpMint : LpMints]
        /\ file' \in [deployed : BOOLEAN, quoteMint : 0 .. quoteMints', lpMint : LpMints]
    BY <2>1, Before
  <2>3. QuoteMintKnown' = FALSE /\ quoteMints' \in Nat
    BY <1>5, <2>1, Before DEF QuoteMintKnown
  <2>4. quoteMints' <= faults' + (IF QuoteMintKnown' THEN 1 ELSE 0)
    <3>1. quoteMints <= faults /\ faults \in Nat /\ quoteMints \in Nat
      BY <1>5, Before
    <3>2. quoteMints' <= faults' + 0
      BY <2>1, <3>1
    <3> QED BY <2>3, <3>2
  <2>5. faults' \in 0 .. MaxFaults
    BY <1>5, OneFault DEF Stopped, FaultsCounted
  <2>6. pc' \in Steps /\ pc' \notin KnowsQuoteMint
    BY <1>5 DEF Stopped, GoTo, Steps, KnowsQuoteMint
  <2>7. OnePool' /\ pools' \subseteq 1 .. quoteMints'
    BY <2>1, Before DEF OnePool
  <2> QED BY <2>1, <2>2, <2>3, <2>4, <2>5, <2>6, <2>7, Before, Assembled
<1>6. CASE UNCHANGED chain /\ (Stopped \/ (UNCHANGED faults /\ GoTo("idle")))
  BY <1>6, IdleKeeps
<1> QED BY <1>3, <1>4, <1>5, <1>6
        DEF PoolQuote, AwaitUnless, Await, FileWithQuoteMint, LpMintKey

(* The pool is created for the quote mint the script works with, which is   *)
(* the one in the file.                                                    *)
LEMMA PoolInitializeKeeps ==
  ASSUME Recorded, PoolInitialize
  PROVE  Recorded'
<1>1. pc \in KnowsQuoteMint
  BY DEF PoolInitialize, KnowsQuoteMint
<1>2. QuoteMintKnown /\ local.quoteMint = file.quoteMint
  BY <1>1, Before
<1> DEFINE created == /\ pools' = pools \cup {local.quoteMint}
                      /\ UNCHANGED <<faucetVars, quoteMints, funded, seeded, payerP>>
<1>3. CASE /\ created \/ UNCHANGED chain
           /\ local' \in {local, [local EXCEPT !.lpMint = PoolLp]}
           /\ pc' = "borrow"
           /\ UNCHANGED <<file, poolDone, faults>>
  <2>1. ChainOK' /\ UNCHANGED <<quoteMints, funded, seeded, payerP>>
    BY <1>3, ChainStays, Before DEF ChainOK, faucetVars, registry
  <2>2. pools' \subseteq pools \cup {file.quoteMint}
    BY <1>2, <1>3, ChainStays
  <2>3. /\ local' \in [quoteMint : 0 .. quoteMints', lpMint : LpMints]
        /\ local'.quoteMint = local.quoteMint
    BY <1>3, <2>1, Before DEF LpMints
  <2>4. QuoteMintKnown' /\ OnePool'
    BY <1>2, <1>3, <2>2, Before DEF QuoteMintKnown, OnePool
  <2>5. pools' \subseteq 1 .. quoteMints'
    <3>1. file.quoteMint \in 1 .. quoteMints
      BY <1>2, Before DEF QuoteMintKnown
    <3> QED BY <2>1, <2>2, <3>1, Before
  <2>6. quoteMints' <= faults' + (IF QuoteMintKnown' THEN 1 ELSE 0)
    BY <1>2, <1>3, <2>1, <2>4, Before
  <2>7. pc' \in Steps
    BY <1>3 DEF Steps
  <2> QED BY <1>2, <1>3, <2>1, <2>3, <2>4, <2>5, <2>6, <2>7, Before, Assembled
<1>4. CASE created /\ Stopped
  <2>1. /\ ChainOK'
        /\ UNCHANGED <<quoteMints, funded, seeded, payerP, local, file, poolDone>>
        /\ faults' \in 0 .. MaxFaults /\ faults' = faults + 1
    BY <1>4, Before, OneFault
    DEF ChainOK, faucetVars, registry, Stopped, Fault, GoTo, FaultsCounted
  <2>2. QuoteMintKnown' /\ OnePool'
    BY <1>2, <1>4, <2>1, Before DEF QuoteMintKnown, OnePool
  <2>3. pools' \subseteq 1 .. quoteMints'
    <3>1. file.quoteMint \in 1 .. quoteMints
      BY <1>2, Before DEF QuoteMintKnown
    <3> QED BY <1>2, <1>4, <2>1, <3>1, Before
  <2>4. quoteMints' <= faults' + (IF QuoteMintKnown' THEN 1 ELSE 0)
    <3>1. quoteMints <= faults + 1 /\ faults \in Nat /\ quoteMints \in Nat
      BY <1>2, Before
    <3>2. quoteMints' <= faults' + 1
      BY <2>1, <3>1
    <3> QED BY <2>2, <3>2
  <2>5. pc' \in Steps /\ pc' \notin KnowsQuoteMint
    BY <1>4 DEF Stopped, GoTo, Steps, KnowsQuoteMint
  <2> QED BY <2>1, <2>2, <2>3, <2>4, <2>5, Before, Assembled
<1>5. CASE UNCHANGED chain /\ (Stopped \/ (UNCHANGED faults /\ GoTo("idle")))
  BY <1>5, IdleKeeps
<1> QED BY <1>3, <1>4, <1>5 DEF PoolInitialize, AwaitUnless, Await

(* Transactions that leave the set of pools and the mints alone.            *)
LEMMA PoolUsed ==
  ASSUME Recorded, UNCHANGED <<faucetVars, pools, quoteMints>>,
         funded' \in BOOLEAN, seeded' \in BOOLEAN, payerP' \in BOOLEAN, FaultsCounted,
         UNCHANGED <<local, file, poolDone>>,
         pc' \in Steps, pc' \in KnowsQuoteMint => pc \in KnowsQuoteMint
  PROVE  Recorded'
<1>1. ChainOK'
  BY Before DEF ChainOK, faucetVars, registry
<1>2. (QuoteMintKnown' <=> QuoteMintKnown) /\ OnePool'
  BY Before DEF QuoteMintKnown, OnePool
<1>3. quoteMints' <= faults' + (IF QuoteMintKnown' THEN 1 ELSE 0)
  BY <1>2, Before, MoreFaults DEF FaultsCounted, QuoteMintKnown
<1> QED BY <1>1, <1>2, <1>3, Before, Assembled DEF FaultsCounted

LEMMA PoolWrapKeeps ==
  ASSUME Recorded, PoolWrap
  PROVE  Recorded'
<1>1. pc \in KnowsQuoteMint
  BY DEF PoolWrap, KnowsQuoteMint
<1>2. "seed" \in Steps /\ "idle" \in Steps /\ "idle" \notin KnowsQuoteMint
  BY DEF Steps, KnowsQuoteMint
<1>3. CASE /\ payerP' = TRUE
           /\ UNCHANGED <<faucetVars, pools, quoteMints, funded, seeded>>
           /\ (GoTo("seed") /\ UNCHANGED faults) \/ Stopped
  <2>1. FaultsCounted /\ UNCHANGED <<local, file, poolDone>> /\ pc' \in {"seed", "idle"}
    BY <1>3, NoFault, OneFault DEF Stopped, GoTo
  <2> QED BY <1>1, <1>2, <1>3, <2>1, Before, PoolUsed
<1>4. CASE UNCHANGED chain /\ UNCHANGED faults /\ GoTo("seed")
  BY <1>1, <1>2, <1>4, Refused, NoFault
<1>5. CASE UNCHANGED chain /\ (Stopped \/ (UNCHANGED faults /\ GoTo("idle")))
  BY <1>5, IdleKeeps
<1> QED BY <1>3, <1>4, <1>5 DEF PoolWrap, AwaitUnless, Await

LEMMA PoolSeedKeeps ==
  ASSUME Recorded, PoolSeed
  PROVE  Recorded'
<1>1. pc \in KnowsQuoteMint
  BY DEF PoolSeed, KnowsQuoteMint
<1>2. /\ "writePool" \in Steps /\ "idle" \in Steps /\ "idle" \notin KnowsQuoteMint
  BY DEF Steps, KnowsQuoteMint
<1>3. CASE /\ AddLiquidity
           /\ (GoTo("writePool") /\ UNCHANGED faults) \/ Stopped
  <2>1. /\ FaultsCounted /\ UNCHANGED <<local, file, poolDone>>
        /\ pc' \in {"writePool", "idle"}
    BY <1>3, NoFault, OneFault DEF Stopped, GoTo
  <2>2. funded' \in BOOLEAN /\ seeded' \in BOOLEAN /\ payerP' \in BOOLEAN
    BY <1>3 DEF AddLiquidity
  <2> QED BY <1>1, <1>2, <1>3, <2>1, <2>2, PoolUsed DEF AddLiquidity
<1>4. CASE UNCHANGED chain /\ UNCHANGED faults /\ GoTo("writePool")
  BY <1>1, <1>2, <1>4, Refused, NoFault
<1>5. CASE UNCHANGED chain /\ (Stopped \/ (UNCHANGED faults /\ GoTo("idle")))
  BY <1>5, IdleKeeps
<1> QED BY <1>3, <1>4, <1>5 DEF PoolSeed, AwaitUnless, Await

(* What is written at the end is what was in the file already.              *)
LEMMA PoolWriteKeeps ==
  ASSUME Recorded, PoolWrite
  PROVE  Recorded'
<1>1. QuoteMintKnown /\ local.quoteMint = file.quoteMint
  BY Before DEF PoolWrite, KnowsQuoteMint
<1>2. ChainOK' /\ UNCHANGED <<pools, quoteMints, funded, seeded, payerP, local, faults>>
  BY ChainStays DEF PoolWrite
<1>3. /\ file' \in [deployed : BOOLEAN, quoteMint : 0 .. quoteMints', lpMint : LpMints]
      /\ file'.quoteMint = file.quoteMint
  BY <1>1, <1>2, Before DEF PoolWrite
<1>4. QuoteMintKnown' /\ OnePool'
  BY <1>1, <1>2, <1>3, Before DEF QuoteMintKnown, OnePool
<1>5. quoteMints' <= faults' + (IF QuoteMintKnown' THEN 1 ELSE 0)
  BY <1>1, <1>2, <1>4, Before
<1>6. pc' \in Steps /\ pc' \notin KnowsQuoteMint /\ poolDone' \in BOOLEAN
  BY DEF PoolWrite, Steps, KnowsQuoteMint
<1> QED BY <1>2, <1>3, <1>4, <1>5, <1>6, Before, Assembled

LEMMA RecordedStep == Recorded /\ [Next]_vars => Recorded'
<1> SUFFICES ASSUME Recorded, [Next]_vars PROVE Recorded'
  OBVIOUS
<1>ok. ChainOK
  BY Before
<1>rest. UNCHANGED chain => ChainOK' /\ UNCHANGED poolVars
  BY ChainStays DEF poolVars
<1>1. CASE StartDevnet \/ StartFaucet
  BY <1>1, Refused, NoFault DEF StartDevnet, StartFaucet, Steps, KnowsQuoteMint
<1>2. CASE DevnetIdentity
  <2>1. Faucet!Identity!Initialize(Payer)
          /\ UNCHANGED <<faucet, asset, assetSupply, mintAuthority, poolVars>>
          => ChainOK' /\ UNCHANGED poolVars
    BY <1>ok, Sizes, RegistryTransactions
  <2>2. /\ ChainOK' /\ UNCHANGED poolVars
        /\ \/ GoTo("payer") /\ (UNCHANGED faults \/ Fault)
           \/ Stopped
    BY <1>2, <1>rest, <2>1 DEF DevnetIdentity, TryAwait
  <2> QED BY <2>2, GoOn, Ended, NoFault, OneFault DEF Steps, KnowsQuoteMint

<1>3. CASE DevnetPayer
  <2>1. Faucet!Identity!VerifyWallet(Payer, Payer)
          /\ UNCHANGED <<faucet, asset, assetSupply, mintAuthority, poolVars>>
          => ChainOK' /\ UNCHANGED poolVars
    BY <1>ok, Sizes, RegistryTransactions
  <2>2. /\ ChainOK' /\ UNCHANGED poolVars
        /\ \/ GoTo("vault") /\ (UNCHANGED faults \/ Fault)
           \/ Stopped
    BY <1>3, <1>rest, <2>1 DEF DevnetPayer, TryAwait
  <2> QED BY <2>2, GoOn, Ended, NoFault, OneFault DEF Steps, KnowsQuoteMint
<1>4. CASE FaucetInitialize
  <2>1. /\ ChainOK' /\ UNCHANGED poolVars
        /\ \/ GoTo("fund") /\ (UNCHANGED faults \/ Fault)
           \/ Stopped
    BY <1>4, <1>ok, <1>rest, FaucetInitializeKeeps DEF FaucetInitialize, TryAwait
  <2> QED BY <2>1, GoOn, Ended, NoFault, OneFault DEF Steps, KnowsQuoteMint
<1>5. CASE FaucetFund
  <2>1. FundSigner /\ ~SignerFunded => ChainOK' /\ UNCHANGED poolVars
    BY <1>ok, FundSignerKeeps DEF FundSigner
  <2>2. /\ ChainOK' /\ UNCHANGED poolVars
        /\ \/ (GoTo("mint") \/ GoTo("idle")) /\ UNCHANGED faults
           \/ Stopped
    BY <1>5, <1>rest, <2>1 DEF FaucetFund, AwaitUnless, Await
  <2> QED BY <2>2, GoOn, Ended, NoFault DEF Steps, KnowsQuoteMint
<1>6. CASE FaucetMint
  <2>1. /\ ChainOK' /\ UNCHANGED poolVars
        /\ \/ (GoTo("registry") \/ GoTo("idle")) /\ UNCHANGED faults
           \/ Stopped
    BY <1>6, <1>ok, <1>rest, HandOverMintKeeps DEF FaucetMint, AwaitUnless, Await
  <2> QED BY <2>1, GoOn, Ended, NoFault DEF Steps, KnowsQuoteMint
<1>give. GiveRegistry => ChainOK' /\ UNCHANGED poolVars
  BY <1>ok, GiveRegistryKeeps DEF GiveRegistry
<1>7. CASE FaucetRegistry
  <2>1. /\ ChainOK' /\ UNCHANGED poolVars
        /\ \/ (GoTo("writeFaucet") \/ GoTo("idle")) /\ UNCHANGED faults
           \/ Stopped
    BY <1>7, <1>rest, <1>give DEF FaucetRegistry, AwaitUnless, Await
  <2> QED BY <2>1, GoOn, Ended, NoFault DEF Steps, KnowsQuoteMint
<1>8. CASE FaucetWrite
  BY <1>8, Refused, NoFault DEF FaucetWrite, Steps, KnowsQuoteMint
<1>9. CASE PoolBorrow
  <2>1. /\ ChainOK' /\ UNCHANGED poolVars /\ pc = "borrow"
        /\ \/ /\ GoTo("wrap") \/ GoTo("verify") \/ GoTo("idle")
              /\ UNCHANGED faults
           \/ Stopped
    BY <1>9, <1>ok, <1>rest, BorrowRegistryKeeps DEF PoolBorrow, Await
  <2> QED BY <2>1, GoOn, Ended, NoFault DEF Steps, KnowsQuoteMint
<1>10. CASE PoolVerify
  <2>1. Faucet!Identity!VerifyWallet(Payer, PoolPda)
          /\ UNCHANGED <<faucet, asset, assetSupply, mintAuthority, poolVars>>
          => ChainOK' /\ UNCHANGED poolVars
    BY <1>ok, Sizes, RegistryTransactions
  <2>2. /\ ChainOK' /\ UNCHANGED poolVars /\ pc = "verify"
        /\ \/ (GoTo("handBack") \/ GoTo("idle")) /\ UNCHANGED faults
           \/ Stopped
    BY <1>10, <1>rest, <2>1 DEF PoolVerify, Await
  <2> QED BY <2>2, GoOn, Ended, NoFault DEF Steps, KnowsQuoteMint
<1>11. CASE PoolHandBack
  <2>1. /\ ChainOK' /\ UNCHANGED poolVars /\ pc = "handBack"
        /\ \/ (GoTo("wrap") \/ GoTo("idle")) /\ UNCHANGED faults
           \/ Stopped
    BY <1>11, <1>rest, <1>give DEF PoolHandBack, Await
  <2> QED BY <2>1, GoOn, Ended, NoFault DEF Steps, KnowsQuoteMint
<1>12. CASE \E v \in Visitors : VisitorClaims(v)
  <2>1. PICK v \in Visitors : VisitorClaims(v)
    BY <1>12
  <2>2. ChainOK' /\ UNCHANGED poolVars
    BY <1>ok, <2>1, ClaimKeeps DEF VisitorClaims
  <2>3. FaultsCounted
    BY <2>1, NoFault DEF VisitorClaims
  <2>4. UNCHANGED <<pc, local, file, poolDone>> /\ pc \in Steps
    BY <2>1 DEF VisitorClaims, scriptVars, Recorded, TypeOK
  <2> QED BY <2>2, <2>3, <2>4, Unmoved DEF poolVars
<1>13. CASE UNCHANGED vars
  <2>1. UNCHANGED chain /\ UNCHANGED faults
    BY <1>13 DEF vars
  <2>2. UNCHANGED <<pc, local, file, poolDone>> /\ pc \in Steps
    BY <1>13 DEF vars, scriptVars, Recorded, TypeOK
  <2> QED BY <1>rest, <2>1, <2>2, NoFault, Unmoved DEF poolVars
<1>14. CASE DevnetVault
  <2>1. CASE /\ file' = [file EXCEPT !.deployed = TRUE] /\ pc' = "idle"
             /\ UNCHANGED <<local, poolDone>> /\ UNCHANGED chain /\ UNCHANGED faults
    <3>1. ChainOK' /\ UNCHANGED <<pools, quoteMints, funded, seeded, payerP>>
      BY <2>1, ChainStays
    <3>2. /\ file' \in [deployed : BOOLEAN, quoteMint : 0 .. quoteMints', lpMint : LpMints]
          /\ file'.quoteMint = file.quoteMint
      BY <2>1, <3>1, Before
    <3>3. (QuoteMintKnown' <=> QuoteMintKnown) /\ OnePool'
      BY Before, <3>1, <3>2 DEF QuoteMintKnown, OnePool
    <3>4. quoteMints' <= faults' + (IF QuoteMintKnown' THEN 1 ELSE 0)
      BY Before, <2>1, <3>1, <3>3
    <3>5. pc' \in Steps /\ pc' \notin KnowsQuoteMint
      BY <2>1 DEF Steps, KnowsQuoteMint
    <3> QED BY Before, <2>1, <3>1, <3>2, <3>3, <3>4, <3>5, Assembled
  <2>2. CASE /\ UNCHANGED chain
             /\ Stopped \/ (UNCHANGED faults /\ GoTo("idle"))
    BY <1>rest, <2>2, Ended, GoOn, NoFault DEF Steps, KnowsQuoteMint
  <2> QED BY <1>14, <2>1, <2>2 DEF DevnetVault, Await
<1>15. CASE StartPool
  <2>1. ChainOK' /\ UNCHANGED <<pools, quoteMints, funded, seeded, payerP>>
    BY <1>15, ChainStays DEF StartPool
  <2>2. UNCHANGED <<local, file, faults>> /\ pc' = "quote" /\ poolDone' = FALSE
    BY <1>15 DEF StartPool
  <2>3. (QuoteMintKnown' <=> QuoteMintKnown) /\ OnePool'
    BY Before, <2>1, <2>2 DEF QuoteMintKnown, OnePool
  <2>4. quoteMints' <= faults' + (IF QuoteMintKnown' THEN 1 ELSE 0)
    BY Before, <2>1, <2>2, <2>3
  <2>5. pc' \in Steps /\ pc' \notin KnowsQuoteMint
    BY <2>2 DEF Steps, KnowsQuoteMint
  <2> QED BY Before, <2>1, <2>2, <2>3, <2>4, <2>5, Assembled
<1>16. CASE PoolQuote
  BY <1>16, PoolQuoteKeeps
<1>17. CASE PoolInitialize
  BY <1>17, PoolInitializeKeeps
<1>18. CASE PoolWrap
  BY <1>18, PoolWrapKeeps
<1>19. CASE PoolSeed
  BY <1>19, PoolSeedKeeps
<1>20. CASE PoolWrite
  BY <1>20, PoolWriteKeeps
<1>21. CASE PoolFilled \/ PoolEmptied
  <2>1. /\ funded' \in BOOLEAN /\ seeded' \in BOOLEAN /\ payerP' \in BOOLEAN
        /\ UNCHANGED <<faucetVars, pools, quoteMints>>
    BY <1>21, Before DEF PoolFilled, PoolEmptied
  <2>2. FaultsCounted
    BY <1>21, NoFault DEF PoolFilled, PoolEmptied
  <2>3. UNCHANGED <<pc, local, file, poolDone>> /\ pc \in Steps
    BY <1>21, Before DEF PoolFilled, PoolEmptied, scriptVars
  <2> QED BY <2>1, <2>2, <2>3, PoolUsed
<1> QED
  BY <1>1, <1>2, <1>3, <1>4, <1>5, <1>6, <1>7, <1>8, <1>9, <1>10, <1>11, <1>12,
     <1>13, <1>14, <1>15, <1>16, <1>17, <1>18, <1>19, <1>20, <1>21
  DEF Next, Script

-------------------------------------------------------------------------------
(* What a run of setup-pool has seen to *)

PoolSteps == KnowsQuoteMint \cup {"quote"}

\* Nobody in this system revokes a credential.
LEMMA RegistryKeepsPool ==
  ASSUME ChainOK, PoolVerified,
         NEW k \in Wallets \cup {FaucetSigner}, NEW s \in Wallets \cup {FaucetSigner},
         \/ Faucet!Identity!Initialize(s) \/ Faucet!Identity!VerifyWallet(s, k)
         \/ Faucet!Identity!SetAuthority(s, k) \/ UNCHANGED credential
  PROVE  PoolVerified'
<1>1. NoKey \notin Wallets \cup {FaucetSigner}
  BY SetupAssumption DEF Faucet!FaucetAssumption
<1> QED BY <1>1, Sizes
        DEF ChainOK, PoolVerified, Faucet!Identity!Initialize,
            Faucet!Identity!VerifyWallet, Faucet!Identity!SetAuthority

LEMMA ProgressInit == Init => Progress
  BY DEF Init, Progress, RerunKeeps, KnowsQuoteMint, NoMint, PoolLp

(* A step outside setup-pool, and a transaction refused in it, leave all it *)
(* has seen to as it is, whatever the pool's account holds.                *)
LEMMA Elsewhere ==
  ASSUME Progress, UNCHANGED <<pools, seeded>>, UNCHANGED <<local, poolDone>>,
         file'.quoteMint = file.quoteMint, file'.lpMint = file.lpMint,
         PoolVerified => PoolVerified', faults' = 0 => faults = 0,
         pc' = pc \/ (pc' \notin PoolSteps /\ pc # "writePool")
  PROVE  Progress'
  BY DEF Progress, RerunKeeps, PoolSteps, KnowsQuoteMint

LEMMA PoolRunStopped ==
  ASSUME Recorded, Progress, pc \in PoolSteps, Stopped
  PROVE  Progress'
<1>1. pc' = "idle" /\ poolDone' = FALSE /\ poolDone = FALSE
  BY Before DEF Stopped, GoTo, Progress, PoolSteps
<1>2. faults' # 0
  BY Before DEF Stopped, Fault
<1> QED BY <1>1, <1>2 DEF Progress, RerunKeeps, KnowsQuoteMint

LEMMA PoolRunRefused ==
  ASSUME Progress, UNCHANGED chain, UNCHANGED faults, GoTo("idle"),
         pc # "writePool"
  PROVE  Progress'
  BY Elsewhere DEF chain, faucetVars, registry, poolVars, GoTo, PoolSteps,
                   KnowsQuoteMint, PoolVerified

\* On to a step that needs the pool, and from "handBack" on its credential.
LEMMA PoolRunGoesOn ==
  ASSUME Recorded, Progress, pc \in KnowsQuoteMint \ {"pool", "writePool"},
         UNCHANGED <<pools, seeded, faults>>,
         PoolVerified => PoolVerified',
         NEW step \in {"verify", "handBack", "wrap", "seed"}, GoTo(step),
         step # "verify" => PoolVerified'
  PROVE  Progress'
<1>1. poolDone' = FALSE /\ pools' # {}
  BY Before DEF Progress, GoTo
<1> QED BY <1>1 DEF Progress, RerunKeeps, GoTo, KnowsQuoteMint

LEMMA PoolQuoteProgress ==
  ASSUME Recorded, Recorded', Progress, PoolQuote
  PROVE  Progress'
<1>1. pc = "quote" /\ pc \in PoolSteps /\ poolDone = FALSE
  BY Before DEF PoolQuote, PoolSteps, Progress
<1>2. CASE Stopped
  BY <1>1, <1>2, PoolRunStopped
<1>3. CASE UNCHANGED chain /\ UNCHANGED faults /\ GoTo("idle")
  BY <1>1, <1>3, PoolRunRefused
<1>4. CASE /\ UNCHANGED chain \/ CreateQuoteMint
           /\ UNCHANGED <<faults, poolDone>> /\ pc' = "pool"
           /\ local'.lpMint = IF file.lpMint # NoMint THEN file.lpMint ELSE UnusedKey
           /\ file'.lpMint = file.lpMint
  <2>1. UNCHANGED seeded
    BY <1>4 DEF CreateQuoteMint, chain, poolVars
  <2>2. file'.lpMint = PoolLp => local'.lpMint = PoolLp
    BY <1>4 DEF PoolLp, NoMint
  <2> QED BY <1>1, <1>4, <2>1, <2>2
          DEF Progress, RerunKeeps, KnowsQuoteMint
<1> QED
  <2>1. file \in [deployed : BOOLEAN, quoteMint : 0 .. quoteMints, lpMint : LpMints]
    BY Before
  <2> QED BY <1>2, <1>3, <1>4, <2>1
          DEF PoolQuote, AwaitUnless, Await, FileWithQuoteMint, LpMintKey

LEMMA PoolInitializeProgress ==
  ASSUME Recorded, Recorded', Progress, PoolInitialize
  PROVE  Progress'
<1>1. pc = "pool" /\ pc \in PoolSteps /\ pc \in KnowsQuoteMint /\ poolDone = FALSE
  BY Before DEF PoolInitialize, PoolSteps, KnowsQuoteMint, Progress
<1>2. CASE Stopped
  BY <1>1, <1>2, PoolRunStopped
<1>3. CASE UNCHANGED chain /\ UNCHANGED faults /\ GoTo("idle")
  BY <1>1, <1>3, PoolRunRefused
<1>4. CASE /\ pools' = pools \cup {local.quoteMint} /\ seeded' = seeded
           /\ local' \in {local, [local EXCEPT !.lpMint = PoolLp]}
           /\ pc' = "borrow" /\ UNCHANGED <<file, poolDone, faults>>
  <2>1. local'.lpMint \in {local.lpMint, PoolLp}
    BY <1>4, Before
  <2> QED BY <1>1, <1>4, <2>1 DEF Progress, RerunKeeps, KnowsQuoteMint
<1>5. ASSUME local.quoteMint \in pools, UNCHANGED chain
      PROVE  pools' = pools \cup {local.quoteMint} /\ seeded' = seeded
  BY <1>5 DEF chain, poolVars
<1> QED BY <1>2, <1>3, <1>4, <1>5 DEF PoolInitialize, AwaitUnless, Await

(* The three transactions around the registry.                             *)
LEMMA PoolRegistryProgress ==
  ASSUME Recorded, Recorded', Progress, PoolBorrow \/ PoolVerify \/ PoolHandBack
  PROVE  Progress'
<1>1. /\ pc \in {"borrow", "verify", "handBack"} /\ pc \in PoolSteps
      /\ pc \in KnowsQuoteMint \ {"pool", "writePool"} /\ pc # "writePool"
  BY DEF PoolBorrow, PoolVerify, PoolHandBack, PoolSteps, KnowsQuoteMint
<1>2. CASE Stopped
  BY <1>1, <1>2, PoolRunStopped
<1>3. CASE UNCHANGED chain /\ UNCHANGED faults /\ GoTo("idle")
  BY <1>1, <1>3, PoolRunRefused
<1>ok. ChainOK /\ Payer \in Wallets /\ PoolPda \in Wallets
  BY Before, Sizes
<1>4. CASE PoolBorrow
  <2>1. CASE PoolVerified /\ UNCHANGED <<chain, faults>> /\ GoTo("wrap")
    <3>1. PoolVerified' /\ UNCHANGED <<pools, seeded, faults>>
      BY <2>1 DEF PoolVerified, chain, faucetVars, registry, poolVars
    <3> QED BY <1>1, <2>1, <3>1, PoolRunGoesOn
  <2>2. CASE /\ Faucet!SetIdentityAuthority(Payer, Payer) /\ UNCHANGED poolVars
             /\ GoTo("verify") /\ UNCHANGED faults
    <3>1. PoolVerified => PoolVerified'
      BY <1>ok, <2>2, RegistryKeepsPool DEF Faucet!SetIdentityAuthority
    <3> QED BY <1>1, <2>2, <3>1, PoolRunGoesOn DEF poolVars
  <2> QED BY <1>2, <1>3, <1>4, <2>1, <2>2 DEF PoolBorrow, Await
<1>5. CASE PoolVerify
  <2>1. CASE /\ Faucet!Identity!VerifyWallet(Payer, PoolPda) /\ UNCHANGED poolVars
             /\ GoTo("handBack") /\ UNCHANGED faults
    <3>1. PoolVerified'
      <4>1. PoolPda # NoKey
        BY <1>ok, SetupAssumption DEF Faucet!FaucetAssumption
      <4>2. credential' = [credential EXCEPT ![PoolPda] = PoolPda]
        BY <2>1 DEF Faucet!Identity!VerifyWallet
      <4> QED BY <1>ok, <4>1, <4>2 DEF ChainOK, PoolVerified
    <3> QED BY <1>1, <2>1, <3>1, PoolRunGoesOn DEF poolVars
  <2> QED BY <1>2, <1>3, <1>5, <2>1 DEF PoolVerify, Await
<1>6. CASE PoolHandBack
  <2>1. CASE GiveRegistry /\ GoTo("wrap") /\ UNCHANGED faults
    <3>1. PoolVerified'
      BY <1>ok, <1>6, <2>1
      DEF PoolHandBack, Progress, PoolVerified, GiveRegistry, Faucet!Identity!SetAuthority
    <3> QED BY <1>1, <2>1, <3>1, PoolRunGoesOn DEF GiveRegistry, poolVars
  <2> QED BY <1>2, <1>3, <1>6, <2>1 DEF PoolHandBack, Await
<1> QED BY <1>4, <1>5, <1>6

LEMMA PoolWrapProgress ==
  ASSUME Recorded, Recorded', Progress, PoolWrap
  PROVE  Progress'
<1>1. /\ pc = "wrap" /\ pc \in PoolSteps /\ pc \in KnowsQuoteMint \ {"pool", "writePool"}
      /\ PoolVerified
  BY DEF PoolWrap, PoolSteps, KnowsQuoteMint, Progress
<1>2. CASE Stopped
  BY <1>1, <1>2, PoolRunStopped
<1>3. CASE UNCHANGED chain /\ UNCHANGED faults /\ GoTo("idle")
  BY <1>1, <1>3, PoolRunRefused
<1>4. CASE /\ UNCHANGED <<faucetVars, pools, seeded, faults>> /\ GoTo("seed")
  <2>1. PoolVerified'
    BY <1>1, <1>4 DEF PoolVerified, faucetVars, registry
  <2> QED BY <1>1, <1>4, <2>1, PoolRunGoesOn
<1> QED BY <1>2, <1>3, <1>4 DEF PoolWrap, AwaitUnless, Await, chain, poolVars

LEMMA PoolSeedProgress ==
  ASSUME Recorded, Recorded', Progress, PoolSeed
  PROVE  Progress'
<1>1. pc = "seed" /\ pc \in PoolSteps /\ PoolVerified /\ poolDone = FALSE /\ pools # {}
  BY Before DEF PoolSeed, PoolSteps, KnowsQuoteMint, Progress
<1>2. CASE Stopped
  BY <1>1, <1>2, PoolRunStopped
<1>3. CASE UNCHANGED chain /\ UNCHANGED faults /\ GoTo("idle")
  BY <1>1, <1>3, PoolRunRefused
<1>4. CASE /\ UNCHANGED <<faucetVars, pools, faults>> /\ GoTo("writePool")
           /\ seeded' = seeded \/ local.lpMint = PoolLp
  <2>1. PoolVerified'
    BY <1>1, <1>4 DEF PoolVerified, faucetVars, registry
  <2> QED BY <1>1, <1>4, <2>1 DEF Progress, RerunKeeps, GoTo, KnowsQuoteMint
<1>5. UNCHANGED chain => seeded' = seeded /\ UNCHANGED <<faucetVars, pools>>
  BY DEF chain, poolVars
<1>6. AddLiquidity => local.lpMint = PoolLp /\ UNCHANGED <<faucetVars, pools>>
  BY DEF AddLiquidity
<1> QED BY <1>2, <1>3, <1>4, <1>5, <1>6 DEF PoolSeed, AwaitUnless, Await

(* The end of a successful run: here the promise is made.                  *)
LEMMA PoolWriteProgress ==
  ASSUME Recorded, Recorded', Progress, PoolWrite
  PROVE  Progress'
<1>1. /\ pc \in KnowsQuoteMint \ {"pool"} /\ pools # {} /\ PoolVerified
  BY DEF PoolWrite, KnowsQuoteMint, Progress
<1>2. /\ UNCHANGED <<pools, seeded, faults>> /\ PoolVerified'
      /\ pc' = "idle" /\ file'.lpMint = local.lpMint
  BY <1>1, Before
  DEF PoolWrite, chain, faucetVars, registry, poolVars, PoolVerified
<1>3. pools' = {file'.quoteMint}
  BY <1>1, <1>2 DEF Recorded, OnePool
<1>4. faults' = 0 /\ seeded' => file'.lpMint = PoolLp
  BY <1>1, <1>2 DEF Progress
<1> QED BY <1>1, <1>2, <1>3, <1>4 DEF Progress, RerunKeeps, KnowsQuoteMint

(* The other two scripts leave the pool alone and revoke nothing.           *)
LEMMA OtherScriptStep ==
  ASSUME Recorded,
         \/ DevnetIdentity \/ DevnetPayer
         \/ FaucetInitialize \/ FaucetFund \/ FaucetMint \/ FaucetRegistry \/ FaucetWrite
  PROVE  /\ UNCHANGED poolVars /\ UNCHANGED <<local, file, poolDone>>
         /\ pc # "writePool" /\ pc' \notin PoolSteps
         /\ PoolVerified => PoolVerified'
         /\ faults' = 0 => faults = 0
<1>ok. ChainOK /\ Payer \in Wallets /\ faults \in Nat
  BY Before, Sizes
<1>1. Fault => faults' # 0
  BY <1>ok DEF Fault
<1>2. /\ UNCHANGED chain => UNCHANGED poolVars /\ UNCHANGED credential
      /\ UNCHANGED credential => (PoolVerified => PoolVerified')
  BY DEF chain, faucetVars, registry, PoolVerified
<1> DEFINE Harmless == /\ UNCHANGED poolVars /\ (PoolVerified => PoolVerified')
<1>3. Faucet!Identity!Initialize(Payer) /\ UNCHANGED poolVars => Harmless
  BY <1>ok, RegistryKeepsPool
<1>4. Faucet!Identity!VerifyWallet(Payer, Payer) /\ UNCHANGED poolVars => Harmless
  BY <1>ok, RegistryKeepsPool
<1>5. GiveRegistry => Harmless
  BY <1>ok, RegistryKeepsPool DEF GiveRegistry
<1>6. Faucet!Initialize(Payer, DRIP) /\ UNCHANGED poolVars => Harmless
  BY <1>2 DEF Faucet!Initialize
<1>7. FundSigner => Harmless
  BY <1>2 DEF FundSigner
<1>8. Faucet!HandOverMint(Payer, FaucetSigner) /\ UNCHANGED poolVars => Harmless
  BY <1>2 DEF Faucet!HandOverMint, Faucet!registry
<1>9. UNCHANGED chain => Harmless
  BY <1>2
<1> HIDE DEF Harmless
<1>10. Harmless /\ (UNCHANGED faults \/ Fault)
  BY <1>3, <1>4, <1>5, <1>6, <1>7, <1>8, <1>9
  DEF DevnetIdentity, DevnetPayer, FaucetInitialize, FaucetFund, FaucetMint,
      FaucetRegistry, FaucetWrite, TryAwait, Await, AwaitUnless, Stopped
<1>11. \E step \in Steps \ PoolSteps : GoTo(step)
  BY DEF DevnetIdentity, DevnetPayer, FaucetInitialize, FaucetFund, FaucetMint,
         FaucetRegistry, FaucetWrite, TryAwait, Await, AwaitUnless, Stopped,
         Steps, PoolSteps, KnowsQuoteMint
<1>12. pc # "writePool"
  BY DEF DevnetIdentity, DevnetPayer, FaucetInitialize, FaucetFund, FaucetMint,
         FaucetRegistry, FaucetWrite
<1> QED BY <1>1, <1>10, <1>11, <1>12 DEF GoTo, Harmless

LEMMA ProgressStep == Recorded /\ Recorded' /\ Progress /\ [Next]_vars => Progress'
<1> SUFFICES ASSUME Recorded, Recorded', Progress, [Next]_vars PROVE Progress'
  OBVIOUS
<1>1. CASE \/ DevnetIdentity \/ DevnetPayer
           \/ FaucetInitialize \/ FaucetFund \/ FaucetMint \/ FaucetRegistry \/ FaucetWrite
  BY <1>1, OtherScriptStep, Elsewhere DEF poolVars
<1>quiet. UNCHANGED chain => UNCHANGED poolVars /\ (PoolVerified => PoolVerified')
  BY DEF chain, faucetVars, registry, PoolVerified
<1>2. CASE DevnetVault
  <2>1. /\ UNCHANGED chain /\ UNCHANGED <<local, poolDone>>
        /\ pc' = "idle" /\ pc = "vault"
        /\ file' = [file EXCEPT !.deployed = TRUE] \/ file' = file
        /\ UNCHANGED faults \/ Fault
    BY <1>2 DEF DevnetVault, Await, Stopped, GoTo
  <2>2. file'.quoteMint = file.quoteMint /\ file'.lpMint = file.lpMint
    BY <2>1, Before
  <2>3. faults' = 0 => faults = 0
    BY <2>1, Before DEF Fault
  <2> QED BY <1>quiet, <2>1, <2>2, <2>3, Elsewhere DEF poolVars, PoolSteps, KnowsQuoteMint
<1>3. CASE StartDevnet \/ StartFaucet
  BY <1>3, <1>quiet, Elsewhere
  DEF StartDevnet, StartFaucet, GoTo, poolVars, PoolSteps, KnowsQuoteMint
<1>4. CASE StartPool
  <2>1. /\ UNCHANGED <<pools, seeded, local, file, faults>>
        /\ pc = "idle" /\ pc' = "quote" /\ poolDone' = FALSE
    BY <1>4 DEF StartPool, chain, poolVars
  <2> QED BY <2>1 DEF Progress, RerunKeeps, KnowsQuoteMint
<1>5. CASE \E v \in Visitors : VisitorClaims(v)
  <2>1. PICK v \in Visitors : VisitorClaims(v)
    BY <1>5
  <2>2. /\ UNCHANGED <<poolVars, local, file, poolDone, pc, faults>>
        /\ Faucet!Identity!VerifyWallet(FaucetSigner, v) \/ UNCHANGED credential
    BY <2>1 DEF VisitorClaims, scriptVars, Faucet!Claim, Faucet!EnsureVerified,
                Faucet!registry
  <2>3. PoolVerified => PoolVerified'
    BY <2>2, Before, Sizes, RegistryKeepsPool
  <2> QED BY <2>2, <2>3, Elsewhere DEF poolVars
<1>6. CASE PoolFilled \/ PoolEmptied
  <2>1. UNCHANGED <<faucetVars, pools, seeded, local, file, poolDone, pc, faults>>
    BY <1>6 DEF PoolFilled, PoolEmptied, scriptVars
  <2>2. PoolVerified => PoolVerified'
    BY <2>1 DEF faucetVars, registry, PoolVerified
  <2> QED BY <2>1, <2>2, Elsewhere
<1>7. CASE UNCHANGED vars
  BY <1>7, <1>quiet, Elsewhere DEF vars, scriptVars, poolVars
<1> QED
  BY <1>1, <1>2, <1>3, <1>4, <1>5, <1>6, <1>7, PoolQuoteProgress, PoolInitializeProgress,
     PoolRegistryProgress, PoolWrapProgress, PoolSeedProgress, PoolWriteProgress
  DEF Next, Script

-------------------------------------------------------------------------------
(* Theorems *)

(* What a run finds on the chain and in the file fits together, wherever    *)
(* the runs before it were stopped: every quote mint that is not in the    *)
(* file was lost in a fault of its own (setup-pool.ts:64-78), and what the *)
(* step a run is at builds on has been done.                               *)
THEOREM InductiveHolds == Spec => []Inductive
<1>1. Init => Inductive
  BY RecordedInit, ProgressInit DEF Inductive
<1>2. Inductive /\ [Next]_vars => Inductive'
  BY RecordedStep, ProgressStep DEF Inductive
<1> QED BY <1>1, <1>2, PTL DEF Spec

\* The scripts never leave their steps, nor create more quote mints than that.
THEOREM TypeCorrect == Spec => []TypeOK
<1>1. Inductive => TypeOK
  BY DEF Inductive, Recorded
<1> QED BY <1>1, InductiveHolds, PTL

(* However often setup-pool is stopped and run again, there is one pool, the*)
(* one of the quote mint in the file (setup-pool.ts:67-68).                *)
THEOREM OnePoolAlways == Spec => []OnePool
<1>1. Inductive => OnePool
  BY DEF Inductive, Recorded
<1> QED BY <1>1, InductiveHolds, PTL

(* A run of setup-pool that succeeds leaves one pool, that of the quote mint *)
(* in the file, and verified, whatever happened to earlier runs and whoever *)
(* used the pool; as long as no run was stopped, also the LP mint of the   *)
(* payer's seed in the file (setup-pool.ts:6).                             *)
THEOREM RerunKeepsAlways == Spec => []RerunKeeps
<1>1. Inductive => RerunKeeps
  BY DEF Inductive, Progress
<1> QED BY <1>1, InductiveHolds, PTL

(* Only the borrowing step of setup-pool takes the registry from the faucet,*)
(* and not once the pool is verified.                                      *)
LEMMA HomeForGood ==
  ASSUME Recorded, [Next]_vars, config = FaucetSigner, PoolVerified
  PROVE  config' = FaucetSigner /\ PoolVerified'
<1> DEFINE Home == config' = FaucetSigner /\ PoolVerified'
<1>1. /\ ChainOK /\ Payer \in Wallets /\ PoolPda \in Wallets /\ Visitors \subseteq Wallets
      /\ FaucetSigner # NoKey
  BY Before, Sizes, SetupAssumption DEF Faucet!FaucetAssumption
<1>2. UNCHANGED <<config, credential>> => Home
  BY DEF PoolVerified
<1>3. UNCHANGED chain \/ UNCHANGED faucetVars => Home
  BY <1>2 DEF chain, faucetVars, registry
<1>4. Faucet!Identity!Initialize(Payer) => Home
  BY <1>1 DEF Faucet!Identity!Initialize
<1>5. ASSUME NEW s \in Wallets \cup {FaucetSigner}, NEW k \in Wallets,
             Faucet!Identity!VerifyWallet(s, k)
      PROVE  Home
  BY <1>1, <1>5, RegistryKeepsPool DEF Faucet!Identity!VerifyWallet
<1>6. GiveRegistry => Home
  BY <1>1, RegistryKeepsPool DEF GiveRegistry, Faucet!Identity!SetAuthority
<1>7. /\ Faucet!Initialize(Payer, DRIP) => Home
      /\ FundSigner => Home
      /\ Faucet!HandOverMint(Payer, FaucetSigner) => Home
  BY <1>2 DEF Faucet!Initialize, FundSigner, Faucet!HandOverMint, Faucet!registry
<1>0. SUFFICES Home
  OBVIOUS
<1> HIDE DEF Home
<1>8. CASE DevnetIdentity \/ DevnetPayer \/ DevnetVault
  BY <1>1, <1>3, <1>4, <1>5, <1>8
  DEF DevnetIdentity, DevnetPayer, DevnetVault, TryAwait, Await
<1>9. CASE FaucetInitialize \/ FaucetFund \/ FaucetMint \/ FaucetRegistry \/ FaucetWrite
  BY <1>3, <1>6, <1>7, <1>9
  DEF FaucetInitialize, FaucetFund, FaucetMint, FaucetRegistry, FaucetWrite,
      TryAwait, Await, AwaitUnless
<1>10. CASE PoolBorrow \/ PoolVerify \/ PoolHandBack
  BY <1>1, <1>3, <1>5, <1>6, <1>10 DEF PoolBorrow, PoolVerify, PoolHandBack, Await
<1>11. CASE PoolQuote \/ PoolInitialize \/ PoolWrap \/ PoolSeed \/ PoolWrite
  BY <1>3, <1>11
  DEF PoolQuote, PoolInitialize, PoolWrap, PoolSeed, PoolWrite, CreateQuoteMint,
      AddLiquidity, Await, AwaitUnless
<1>12. ASSUME NEW v \in Visitors, VisitorClaims(v) PROVE Home
  <2>1. \/ Faucet!Identity!VerifyWallet(FaucetSigner, v)
        \/ UNCHANGED <<config, credential>>
    BY <1>12 DEF VisitorClaims, Faucet!Claim, Faucet!EnsureVerified, Faucet!registry
  <2> QED BY <1>1, <1>2, <1>5, <2>1
<1>13. CASE \/ StartDevnet \/ StartFaucet \/ StartPool
           \/ PoolFilled \/ PoolEmptied \/ UNCHANGED vars
  BY <1>3, <1>13 DEF StartDevnet, StartFaucet, StartPool, PoolFilled, PoolEmptied, vars
<1> QED BY <1>8, <1>9, <1>10, <1>11, <1>12, <1>13 DEF Next, Script

(* The registry, once with the faucet and the pool verified, stays: of what *)
(* RegistryComesHome says the part that needs no fairness.                 *)
THEOREM RegistryStaysHomeAlways == Spec => RegistryStaysHome
<1>1. Inductive => Recorded
  BY DEF Inductive
<1>2. Recorded /\ [Next]_vars =>
        [config = FaucetSigner /\ PoolVerified
           => config' = FaucetSigner /\ PoolVerified']_vars
  BY HomeForGood
<1> QED BY <1>1, <1>2, InductiveHolds, PTL DEF Spec, RegistryStaysHome

-------------------------------------------------------------------------------
(* The scripts and their visitors use the faucet and the registry as anybody*)
(* may: their steps are steps of PassageFaucet.                            *)

AllLamports == InitialLamports * (Cardinality(Visitors) + 1)

LEMMA Everybody ==
  /\ IsFiniteSet(Visitors) /\ Cardinality(Visitors) \in Nat
  /\ AllLamports \in Nat /\ AllLamports <= MaxU64 /\ InitialLamports <= AllLamports
  /\ FaucetSigner \notin Wallets /\ Payer \notin Visitors
  /\ Payer # PoolPda /\ PoolPda \notin Visitors
<1>1. Faucet!IsFiniteSet(Wallets) <=> IsFiniteSet(Wallets)
  BY DEF Faucet!IsFiniteSet, IsFiniteSet
<1>2. IsFiniteSet(Visitors) /\ Cardinality(Visitors) \in Nat
  BY <1>1, SetupAssumption, FS_Subset, FS_CardinalityType
  DEF Wallets, Faucet!FaucetAssumption
<1>3. AllLamports \in Nat /\ AllLamports <= MaxU64
  BY SetupAssumption DEF Faucet!FaucetAssumption, Faucet!U64, AllLamports
<1>4. InitialLamports <= AllLamports
  BY <1>2, Sizes DEF AllLamports
<1> QED BY <1>2, <1>3, <1>4, SetupAssumption DEF Faucet!FaucetAssumption

LEMMA ChainInit == Init => Faucet!Init
<1> SUFFICES ASSUME Init PROVE Faucet!Init
  OBVIOUS
<1> DEFINE payers == Visitors \cup {Payer}
<1>1. /\ lamports \in [Wallets \cup {FaucetSigner} -> 0 .. AllLamports]
      /\ lamports[FaucetSigner] = 0
  BY Sizes, Everybody DEF Init
<1>2. Faucet!Units(lamports) = payers \X (1 .. InitialLamports)
  BY Sizes, Everybody DEF Init, Faucet!Units, Wallets
<1>3. Cardinality(payers \X (1 .. InitialLamports)) = AllLamports
  <2>1. IsFiniteSet(payers) /\ Cardinality(payers) = Cardinality(Visitors) + 1
    BY Everybody, FS_AddElement
  <2>2. /\ IsFiniteSet(1 .. InitialLamports)
        /\ Cardinality(1 .. InitialLamports) =
             IF 1 > InitialLamports THEN 0 ELSE InitialLamports - 1 + 1
    BY Sizes, FS_Interval
  <2>3. Cardinality(1 .. InitialLamports) = InitialLamports
    BY <2>2, Sizes
  <2>4. Cardinality(payers \X (1 .. InitialLamports))
          = Cardinality(payers) * Cardinality(1 .. InitialLamports)
    BY <2>1, <2>2, FS_Product
  <2> QED BY <2>1, <2>3, <2>4, Sizes, Everybody DEF AllLamports
<1>4. Faucet!Total(lamports) = AllLamports
  <2>1. \A S : Faucet!Cardinality(S) = Cardinality(S)
    BY DEF Faucet!Cardinality, Cardinality
  <2> QED BY <1>2, <1>3, <2>1 DEF Faucet!Total
<1> QED BY <1>1, <1>4, Sizes DEF Init, Faucet!Init, Faucet!Keys, AllLamports

\* What one transaction of a script, or a claim of a visitor, is there.
LEMMA ChainTransactions ==
  ASSUME Recorded
  PROVE  /\ \A k \in Wallets :
              /\ \/ Faucet!Identity!Initialize(Payer)
                 \/ Faucet!Identity!VerifyWallet(Payer, k)
              /\ UNCHANGED <<faucet, asset, assetSupply, mintAuthority>>
              => Faucet!Next
         /\ GiveRegistry => Faucet!Next
         /\ Faucet!Initialize(Payer, DRIP) => Faucet!Next
         /\ FundSigner /\ ~SignerFunded => Faucet!Next
         /\ Faucet!HandOverMint(Payer, FaucetSigner) => Faucet!Next
         /\ Faucet!SetIdentityAuthority(Payer, Payer) => Faucet!Next
         /\ \A v \in Visitors : Faucet!Claim(v, v) => Faucet!Next
<1>1. /\ Payer \in Wallets /\ Payer \in Faucet!Keys /\ FaucetSigner \in Faucet!Keys
      /\ Wallets \subseteq Faucet!Keys /\ Visitors \subseteq Wallets
  BY Sizes DEF Faucet!Keys
<1>2. \A k \in Wallets :
        /\ \/ Faucet!Identity!Initialize(Payer)
           \/ Faucet!Identity!VerifyWallet(Payer, k)
        /\ UNCHANGED <<faucet, asset, assetSupply, mintAuthority>>
        => Faucet!Next
  BY <1>1 DEF Faucet!Next, Faucet!RegistryStep, Faucet!mint
<1>3. GiveRegistry => Faucet!Next
  BY <1>1 DEF GiveRegistry, Faucet!Next, Faucet!RegistryStep, Faucet!mint
<1>4. FundSigner /\ ~SignerFunded => Faucet!Next
  <2>1. SUFFICES ASSUME FundSigner, ~SignerFunded PROVE Faucet!FundSigner(Payer)
    BY <1>1 DEF Faucet!Next
  <2> DEFINE missing == SIGNER_FUNDING - lamports[FaucetSigner]
  <2>2. missing \in 1 .. lamports[Payer]
    <3>1. lamports[FaucetSigner] \in Nat /\ lamports[Payer] \in Nat
      BY Before, Sizes DEF ChainOK
    <3> QED BY <2>1, <3>1, Sizes DEF FundSigner, SignerFunded
  <2>3. /\ lamports' = [lamports EXCEPT ![Payer] = @ - missing,
                                        ![FaucetSigner] = @ + missing]
        /\ UNCHANGED <<faucet, asset, assetSupply, mintAuthority, config, credential>>
    BY <2>1 DEF FundSigner
  <2> QED BY <2>2, <2>3 DEF Faucet!FundSigner, Faucet!mint
<1>5. /\ Faucet!Initialize(Payer, DRIP) => Faucet!Next
      /\ Faucet!HandOverMint(Payer, FaucetSigner) => Faucet!Next
      /\ Faucet!SetIdentityAuthority(Payer, Payer) => Faucet!Next
      /\ \A v \in Visitors : Faucet!Claim(v, v) => Faucet!Next
  BY <1>1 DEF Faucet!Next
<1> QED BY <1>2, <1>3, <1>4, <1>5

LEMMA ChainStep == Recorded /\ [Next]_vars => [Faucet!Next]_(Faucet!vars)
<1> SUFFICES ASSUME Recorded, [Next]_vars PROVE Faucet!Next \/ UNCHANGED Faucet!vars
  OBVIOUS
<1>1. /\ UNCHANGED chain => UNCHANGED Faucet!vars
      /\ UNCHANGED faucetVars => UNCHANGED Faucet!vars
  BY DEF chain, faucetVars, registry, Faucet!vars, Faucet!mint, Faucet!registry
<1>2. Payer \in Wallets /\ PoolPda \in Wallets
  BY Sizes
<1>3. CASE StartDevnet \/ StartFaucet \/ StartPool \/ UNCHANGED vars
  BY <1>1, <1>3 DEF StartDevnet, StartFaucet, StartPool, vars
<1>4. CASE DevnetIdentity \/ DevnetPayer \/ DevnetVault
  BY <1>1, <1>2, <1>4, ChainTransactions
  DEF DevnetIdentity, DevnetPayer, DevnetVault, TryAwait, Await
<1>5. CASE FaucetInitialize \/ FaucetFund \/ FaucetMint \/ FaucetRegistry \/ FaucetWrite
  BY <1>1, <1>5, ChainTransactions
  DEF FaucetInitialize, FaucetFund, FaucetMint, FaucetRegistry, FaucetWrite,
      TryAwait, Await, AwaitUnless
<1>6. CASE PoolBorrow \/ PoolVerify \/ PoolHandBack
  BY <1>1, <1>2, <1>6, ChainTransactions
  DEF PoolBorrow, PoolVerify, PoolHandBack, Await
<1>7. CASE PoolQuote \/ PoolInitialize \/ PoolWrap \/ PoolSeed \/ PoolWrite
  BY <1>1, <1>7
  DEF PoolQuote, PoolInitialize, PoolWrap, PoolSeed, PoolWrite, CreateQuoteMint,
      AddLiquidity, Await, AwaitUnless
<1>8. CASE \E v \in Visitors : VisitorClaims(v)
  BY <1>8, ChainTransactions DEF VisitorClaims
<1>9. CASE PoolFilled \/ PoolEmptied
  BY <1>1, <1>9 DEF PoolFilled, PoolEmptied
<1> QED BY <1>3, <1>4, <1>5, <1>6, <1>7, <1>8, <1>9 DEF Next, Script

(* The scripts are clients of the faucet program: whatever holds of every   *)
(* use of it holds while they run, are stopped and run again.              *)
THEOREM ImplementsFaucet == Spec => Faucet!Spec
<1>1. Init => Recorded
  BY RecordedInit
<1>2. Recorded /\ [Next]_vars => Recorded'
  BY RecordedStep
<1>3. Init => Faucet!Init
  BY ChainInit
<1>4. Recorded /\ [Next]_vars => [Faucet!Next]_(Faucet!vars)
  BY ChainStep
<1> QED BY <1>1, <1>2, <1>3, <1>4, PTL DEF Spec, Faucet!Spec

FaucetProofs == INSTANCE PassageFaucetProofs WITH
  Wallets <- Wallets, DripChoices <- {DRIP},
  TotalLamports <- InitialLamports * (Cardinality(Visitors) + 1)

\* The faucet of the theorems is the faucet the scripts use.
LEMMA SameFaucet ==
  /\ FaucetProofs!Init <=> Faucet!Init
  /\ FaucetProofs!Next <=> Faucet!Next
  /\ FaucetProofs!vars = Faucet!vars
<1>1. FaucetProofs!Total(lamports) = Faucet!Total(lamports)
  BY DEF FaucetProofs!Total, Faucet!Total, FaucetProofs!Units, Faucet!Units,
         FaucetProofs!Cardinality, Faucet!Cardinality
<1>2. FaucetProofs!Init <=> Faucet!Init
  BY <1>1 DEF Faucet!Init, FaucetProofs!Init, Faucet!Keys, FaucetProofs!Keys
<1>3. FaucetProofs!Next <=> Faucet!Next
  BY DEF Faucet!Next, FaucetProofs!Next,
         Faucet!Initialize, FaucetProofs!Initialize, Faucet!ValidDrip,
         FaucetProofs!ValidDrip, Faucet!SetDripAmount,
         FaucetProofs!SetDripAmount, Faucet!IsAdmin, FaucetProofs!IsAdmin,
         Faucet!SetIdentityAuthority, FaucetProofs!SetIdentityAuthority,
         Faucet!Claim, FaucetProofs!Claim, Faucet!CanDrip,
         FaucetProofs!CanDrip, Faucet!EnsureVerified,
         FaucetProofs!EnsureVerified, Faucet!DataIsEmpty,
         FaucetProofs!DataIsEmpty, Faucet!RegistryStep,
         FaucetProofs!RegistryStep, Faucet!IssueAsset,
         FaucetProofs!IssueAsset, Faucet!HandOverMint,
         FaucetProofs!HandOverMint, Faucet!FundSigner,
         FaucetProofs!FundSigner, Faucet!mint, FaucetProofs!mint,
         Faucet!registry, FaucetProofs!registry, Faucet!Keys,
         FaucetProofs!Keys, Faucet!CanMint, FaucetProofs!CanMint,
         Faucet!Minted, FaucetProofs!Minted, Faucet!U64, FaucetProofs!U64,
         Faucet!Identity!Initialize, FaucetProofs!Identity!Initialize,
         Faucet!Identity!VerifyWallet, FaucetProofs!Identity!VerifyWallet,
         Faucet!Identity!RevokeWallet, FaucetProofs!Identity!RevokeWallet,
         Faucet!Identity!SetAuthority, FaucetProofs!Identity!SetAuthority,
         Faucet!Identity!IsAuthority, FaucetProofs!Identity!IsAuthority,
         Faucet!Identity!PayRent, FaucetProofs!Identity!PayRent,
         Faucet!Identity!RefundRent, FaucetProofs!Identity!RefundRent
<1>4. FaucetProofs!vars = Faucet!vars
  BY DEF FaucetProofs!vars, Faucet!vars, FaucetProofs!mint, Faucet!mint,
         FaucetProofs!registry, Faucet!registry
<1> QED BY <1>2, <1>3, <1>4

LEMMA FaucetAssumptions ==
  /\ FaucetProofs!MaxU64Assumption /\ FaucetProofs!FaucetAssumption
  /\ FaucetProofs!RegistryAssumption /\ FaucetProofs!NoFaucetAssumption
<1>1. FaucetProofs!IsFiniteSet(Wallets) <=> Faucet!IsFiniteSet(Wallets)
  BY DEF FaucetProofs!IsFiniteSet, Faucet!IsFiniteSet
<1>2. FaucetProofs!MaxU64Assumption /\ FaucetProofs!FaucetAssumption
  BY <1>1, SetupAssumption
  DEF FaucetProofs!MaxU64Assumption, Faucet!MaxU64Assumption,
      FaucetProofs!FaucetAssumption, Faucet!FaucetAssumption,
      FaucetProofs!U64, Faucet!U64
<1>3. FaucetProofs!NoFaucetAssumption
  BY SetupAssumption
  DEF FaucetProofs!NoFaucetAssumption, Faucet!NoFaucetAssumption,
      FaucetProofs!Faucet, Faucet!Faucet
<1>4. FaucetProofs!RegistryAssumption
  BY SetupAssumption, Everybody
  DEF FaucetProofs!RegistryAssumption, FaucetProofs!Identity!IdentityAssumption,
      FaucetProofs!Keys, Faucet!FaucetAssumption, AllLamports
<1> QED BY <1>2, <1>3, <1>4

LEMMA ScriptsUseFaucet == Spec => FaucetProofs!Spec
<1>1. Faucet!Init => FaucetProofs!Init
  BY SameFaucet
<1>2. [Faucet!Next]_(Faucet!vars) => [FaucetProofs!Next]_(FaucetProofs!vars)
  BY SameFaucet
  DEF FaucetProofs!vars, Faucet!vars, FaucetProofs!mint, Faucet!mint,
      FaucetProofs!registry, Faucet!registry
<1> QED BY <1>1, <1>2, ImplementsFaucet, PTL DEF FaucetProofs!Spec, Faucet!Spec

(* Nothing the operator pays for the faucet, its signer and the credentials *)
(* is lost, however often the scripts are stopped and run again.           *)
THEOREM RentConservedByScripts == Spec => []Faucet!RentConserved
<1>1. FaucetProofs!Spec => []FaucetProofs!RentConserved
  BY FaucetAssumptions, FaucetProofs!RentConservedAlways
<1>2. FaucetProofs!RentConserved => Faucet!RentConserved
  BY DEF FaucetProofs!RentConserved, Faucet!RentConserved,
         FaucetProofs!Total, Faucet!Total, FaucetProofs!Units, Faucet!Units,
         FaucetProofs!Cardinality, Faucet!Cardinality,
         FaucetProofs!Identity!Live, Faucet!Identity!Live,
         FaucetProofs!Keys, Faucet!Keys
<1> QED BY <1>1, <1>2, ScriptsUseFaucet, PTL

(* While the registry is with the faucet, the scripts do not verify anybody *)
(* either: only a visitor's own claim does, which pays it its drip.        *)
THEOREM VerifiedWithDripByScripts == Spec => Faucet!VerifiedWithDripOnly
<1>1. FaucetProofs!Spec => FaucetProofs!VerifiedWithDripOnly
  BY FaucetAssumptions, FaucetProofs!VerifiedWithDripOnlyAlways
<1> DEFINE Paid == config = FaucetSigner =>
       \A k \in Faucet!Identity!Live' \ Faucet!Identity!Live :
         k \in Wallets /\ asset'[k] = asset[k] + faucet.drip_amount
           SamePaid == config = FaucetSigner =>
       \A k \in FaucetProofs!Identity!Live' \ FaucetProofs!Identity!Live :
         k \in Wallets /\ asset'[k] = asset[k] + faucet.drip_amount
<1>2. [SamePaid]_(FaucetProofs!vars) => [Paid]_(Faucet!vars)
  BY DEF FaucetProofs!vars, Faucet!vars, FaucetProofs!mint, Faucet!mint,
         FaucetProofs!registry, Faucet!registry,
         FaucetProofs!Identity!Live, Faucet!Identity!Live,
         FaucetProofs!Keys, Faucet!Keys
<1> QED BY <1>1, <1>2, ScriptsUseFaucet, PTL
        DEF FaucetProofs!VerifiedWithDripOnly, Faucet!VerifiedWithDripOnly

(* And what the scripts put into the signer PDA is spent on newcomers, each  *)
(* with its drip, and on nothing else.                                     *)
THEOREM SignerPaysForNewcomersByScripts == Spec => Faucet!SignerPaysForNewcomers
<1>1. FaucetProofs!Spec => FaucetProofs!SignerPaysForNewcomers
  BY FaucetAssumptions, FaucetProofs!SignerPaysForNewcomersAlways
<1> DEFINE Paid == lamports'[FaucetSigner] < lamports[FaucetSigner] =>
       /\ lamports'[FaucetSigner] = lamports[FaucetSigner] - 1
       /\ \E w \in Wallets :
            /\ credential[w] = NoKey /\ credential'[w] = w
            /\ asset'[w] = asset[w] + faucet.drip_amount
<1>2. [Paid]_(FaucetProofs!vars) => [Paid]_(Faucet!vars)
  BY DEF FaucetProofs!vars, Faucet!vars, FaucetProofs!mint, Faucet!mint,
         FaucetProofs!registry, Faucet!registry
<1> QED BY <1>1, <1>2, ScriptsUseFaucet, PTL
        DEF FaucetProofs!SignerPaysForNewcomers, Faucet!SignerPaysForNewcomers
===============================================================================
