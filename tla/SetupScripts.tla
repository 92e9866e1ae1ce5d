----------------------------- MODULE SetupScripts -----------------------------
(***************************************************************************)
(* The operator's scripts (scripts/setup-devnet.ts, setup-faucet.ts and    *)
(* setup-pool.ts) that put the programs to work.  Each is a sequence of    *)
(* transactions that stops at the first one refused, may be stopped at any *)
(* point by the operator or the cluster, and is then run again from the    *)
(* top: what a run knows of the earlier ones is the chain and the address  *)
(* file.  Visitors claim from the faucet meanwhile, and whoever holds      *)
(* pTokens trades with the pool.                                           *)
(*                                                                         *)
(* A step reads what it decides by and sends its transaction.  The operator*)
(* runs one script at a time, and starts one only when the last            *)
(* transaction of a stopped one has landed or expired; setup-devnet, which *)
(* creates new mints each time, only until it has completed once.          *)
(***************************************************************************)
EXTENDS Integers, FiniteSets

CONSTANTS
  Payer,            \* the operator's wallet
  Visitors,         \* wallets that come to the faucet, each once
  PoolPda,          \* the PDA of the pool of the recorded quote mint
  FaucetSigner, NoKey, NoFaucet, OtherAccount, MAX_DRIP, MaxU64,
  InitialLamports,  \* the payer's and each visitor's, in rents of one account
  DRIP,             \* the faucet's drip
  SIGNER_FUNDING,   \* what setup-faucet fills the signer PDA up to, in rents
  MaxFaults         \* bound: times a script is stopped or a transaction lost

VARIABLES
  faucet, asset, assetSupply, mintAuthority, config, credential, lamports,
  pools,        \* the quote mints for which a pool exists
  quoteMints,   \* how many quote mints were created
  funded,       \* the pool's pToken account is not empty
  seeded,       \* the payer has put its seed liquidity in
  payerP,       \* the payer has the pTokens to seed the pool with
  pc,           \* the step the running script is at, "idle" between runs
  local,        \* the mints setup-pool works with in this run
  file,         \* devnet-addresses.json
  poolDone,     \* the last run of setup-pool exited with success
  faults

registry == <<config, credential, lamports>>
faucetVars == <<faucet, asset, assetSupply, mintAuthority, registry>>
poolVars == <<pools, quoteMints, funded, seeded, payerP>>
chain == <<faucetVars, poolVars>>
scriptVars == <<pc, local, file, poolDone>>
vars == <<chain, scriptVars, faults>>

\* The pool PDA is a key like the others, but nobody signs for it here.
Wallets == Visitors \cup {Payer, PoolPda}

Faucet == INSTANCE PassageFaucet WITH
  Wallets <- Wallets, DripChoices <- {DRIP},
  TotalLamports <- InitialLamports * (Cardinality(Visitors) + 1)

ASSUME SetupAssumption ==
  /\ Faucet!MaxU64Assumption /\ Faucet!FaucetAssumption /\ Faucet!NoFaucetAssumption
  /\ Payer # PoolPda /\ Visitors \cap {Payer, PoolPda} = {}
  /\ InitialLamports \in Nat
  /\ DRIP \in 1 .. MAX_DRIP
  /\ SIGNER_FUNDING \in Nat \ {0}
  /\ MaxFaults \in Nat

NoMint == "none"        \* not in the file
PoolLp == "pool"        \* the LP mint of the pool
UnusedKey == "unused"   \* a generated key that no mint was created with

Steps == {"idle",
          "identity", "payer", "vault",
          "initialize", "fund", "mint", "registry", "writeFaucet",
          "quote", "pool", "borrow", "verify", "handBack", "wrap", "seed",
          "writePool"}

Init ==
  /\ faucet = NoFaucet
  /\ asset = [w \in Wallets |-> 0]
  /\ assetSupply = 0
  /\ mintAuthority = Payer
  /\ config = NoKey
  /\ credential = [k \in Wallets \cup {FaucetSigner} |-> NoKey]
  /\ lamports = [k \in Wallets \cup {FaucetSigner} |->
                   IF k \in {PoolPda, FaucetSigner} THEN 0 ELSE InitialLamports]
  /\ pools = {} /\ quoteMints = 0
  /\ funded = FALSE /\ seeded = FALSE /\ payerP = FALSE
  /\ pc = "idle"
  /\ local = [quoteMint |-> 0, lpMint |-> NoMint]
  /\ file = [deployed |-> FALSE, quoteMint |-> 0, lpMint |-> NoMint]
  /\ poolDone = FALSE
  /\ faults = 0

-------------------------------------------------------------------------------
(* How a transaction of a script ends *)

GoTo(step) == pc' = step /\ UNCHANGED <<local, file, poolDone>>

Fault == faults < MaxFaults /\ faults' = faults + 1

Stopped == Fault /\ GoTo("idle")

\* await: it lands and the script continues, or is stopped before or after it
\* landed; refused by a program, it throws and ends the script.
Await(tx, next) ==
  \/ tx /\ next /\ UNCHANGED faults
  \/ (tx \/ UNCHANGED chain) /\ Stopped
  \/ ~ENABLED tx /\ UNCHANGED <<chain, faults>> /\ GoTo("idle")

\* try { await } catch { log }: whatever the error, the script continues.
TryAwait(tx, next) ==
  \/ tx /\ next /\ UNCHANGED faults
  \/ (tx \/ UNCHANGED chain) /\ Stopped
  \/ UNCHANGED chain /\ next /\ (Fault \/ (~ENABLED tx /\ UNCHANGED faults))

\* if (done) { log } else { await }
AwaitUnless(done, tx, next) ==
  \/ done /\ UNCHANGED <<chain, faults>> /\ next
  \/ ~done /\ Await(tx, next)

-------------------------------------------------------------------------------
(* setup-devnet.ts.  The mints it creates are its own: an earlier run's are *)
(* forgotten with it.                                                      *)

DevnetIdentity ==
  /\ pc = "identity"
  /\ TryAwait(/\ Faucet!Identity!Initialize(Payer)
              /\ UNCHANGED <<faucet, asset, assetSupply, mintAuthority, poolVars>>,
              GoTo("payer"))

DevnetPayer ==
  /\ pc = "payer"
  /\ TryAwait(/\ Faucet!Identity!VerifyWallet(Payer, Payer)
              /\ UNCHANGED <<faucet, asset, assetSupply, mintAuthority, poolVars>>,
              GoTo("vault"))

\* The meta-list, the vault and the first wrap concern the new mints only.
DevnetVault ==
  /\ pc = "vault"
  /\ Await(UNCHANGED chain,
           /\ file' = [file EXCEPT !.deployed = TRUE]
           /\ pc' = "idle"
           /\ UNCHANGED <<local, poolDone>>)

-------------------------------------------------------------------------------
(* setup-faucet.ts *)

FaucetInitialize ==
  /\ pc = "initialize"
  /\ TryAwait(Faucet!Initialize(Payer, DRIP) /\ UNCHANGED poolVars, GoTo("fund"))

\* Mutant: the signer is taken to be funded once the faucet exists.
SignerFundedAtStart == faucet # NoFaucet

SignerFunded == lamports[FaucetSigner] >= SIGNER_FUNDING

FundSigner ==
  LET missing == SIGNER_FUNDING - lamports[FaucetSigner]
  IN  /\ missing <= lamports[Payer]
      /\ lamports' = [lamports EXCEPT ![Payer] = @ - missing,
                                      ![FaucetSigner] = @ + missing]
      /\ UNCHANGED <<faucet, asset, assetSupply, mintAuthority, config,
                     credential, poolVars>>

FaucetFund ==
  /\ pc = "fund"
  /\ AwaitUnless(SignerFunded, FundSigner, GoTo("mint"))

FaucetMint ==
  /\ pc = "mint"
  /\ AwaitUnless(mintAuthority = FaucetSigner,
                 Faucet!HandOverMint(Payer, FaucetSigner) /\ UNCHANGED poolVars,
                 GoTo("registry"))

\* The registry as the payer's: fails while it is anybody else's.
GiveRegistry ==
  /\ Faucet!Identity!SetAuthority(Payer, FaucetSigner)
  /\ UNCHANGED <<faucet, asset, assetSupply, mintAuthority, poolVars>>

\* Mutant: both authorities are taken to be delegated together.
RegistryDelegatedWithMint == mintAuthority = FaucetSigner

RegistryDelegated == config = FaucetSigner

\* Fetching a config that does not exist throws, as giving it away would.
FaucetRegistry ==
  /\ pc = "registry"
  /\ AwaitUnless(RegistryDelegated, GiveRegistry, GoTo("writeFaucet"))

\* The faucet's addresses are derived again by whoever needs them.
FaucetWrite ==
  /\ pc = "writeFaucet"
  /\ UNCHANGED <<chain, faults>>
  /\ GoTo("idle")

-------------------------------------------------------------------------------
(* setup-pool.ts *)

\* Mutant: a new quote mint in every run.
QuoteMintNeverKnown == FALSE

QuoteMintKnown == file.quoteMint # 0

CreateQuoteMint ==
  /\ quoteMints' = quoteMints + 1
  /\ UNCHANGED <<faucetVars, pools, funded, seeded, payerP>>

\* Mutant: the quote mint is written down with the rest, at the end.
FileWithQuoteMintLater(quoteMint) == file

FileWithQuoteMint(quoteMint) == [file EXCEPT !.quoteMint = quoteMint]

\* Mutant: the LP mint's key is generated anew in every run.
LpMintKeyNew == UnusedKey

\* The key generated in a run without one in the file is of no mint yet.
LpMintKey == IF file.lpMint # NoMint THEN file.lpMint ELSE UnusedKey

\* Minting the payer quote tokens, when short of them, cannot fail.
PoolQuote ==
  /\ pc = "quote"
  /\ LET quoteMint == IF QuoteMintKnown THEN file.quoteMint ELSE quoteMints + 1
     IN  AwaitUnless(QuoteMintKnown, CreateQuoteMint,
                     /\ local' = [quoteMint |-> quoteMint, lpMint |-> LpMintKey]
                     /\ file' = FileWithQuoteMint(quoteMint)
                     /\ pc' = "pool"
                     /\ UNCHANGED poolDone)

\* initialize_pool creates the LP mint with the key it is given.
PoolInitialize ==
  /\ pc = "pool"
  /\ LET exists == local.quoteMint \in pools
     IN  AwaitUnless(exists,
                     /\ pools' = pools \cup {local.quoteMint}
                     /\ UNCHANGED <<faucetVars, quoteMints, funded, seeded, payerP>>,
                     /\ local' = IF exists THEN local
                                           ELSE [local EXCEPT !.lpMint = PoolLp]
                     /\ pc' = "borrow"
                     /\ UNCHANGED <<file, poolDone>>)

PoolVerified == credential[PoolPda] # NoKey

\* Mutant: the registry is borrowed in every run.
PoolBorrowAlways ==
  /\ pc = "borrow"
  /\ Await(Faucet!SetIdentityAuthority(Payer, Payer) /\ UNCHANGED poolVars,
           GoTo("verify"))

PoolBorrow ==
  /\ pc = "borrow"
  /\ \/ PoolVerified /\ UNCHANGED <<chain, faults>> /\ GoTo("wrap")
     \/ /\ ~PoolVerified
        /\ Await(Faucet!SetIdentityAuthority(Payer, Payer) /\ UNCHANGED poolVars,
                 GoTo("verify"))

PoolVerify ==
  /\ pc = "verify"
  /\ Await(/\ Faucet!Identity!VerifyWallet(Payer, PoolPda)
           /\ UNCHANGED <<faucet, asset, assetSupply, mintAuthority, poolVars>>,
           GoTo("handBack"))

PoolHandBack ==
  /\ pc = "handBack"
  /\ Await(GiveRegistry, GoTo("wrap"))

\* The payer owns the tUSDY it wraps since setup-devnet.
PoolWrap ==
  /\ pc = "wrap"
  /\ AwaitUnless(payerP,
                 /\ payerP' = TRUE
                 /\ UNCHANGED <<faucetVars, pools, quoteMints, funded, seeded>>,
                 GoTo("seed"))

\* The payer's LP account can be created only for a mint that exists.  An
\* empty pool has no LP tokens (PassagePool!LpBacked): it takes any deposit.
AddLiquidity ==
  /\ local.lpMint = PoolLp
  /\ PoolVerified /\ payerP
  /\ funded' = TRUE /\ seeded' = TRUE
  /\ payerP' = FALSE
  /\ UNCHANGED <<faucetVars, pools, quoteMints>>

PoolSeed ==
  /\ pc = "seed"
  /\ AwaitUnless(funded, AddLiquidity, GoTo("writePool"))

PoolWrite ==
  /\ pc = "writePool"
  /\ file' = [file EXCEPT !.quoteMint = local.quoteMint, !.lpMint = local.lpMint]
  /\ poolDone' = TRUE
  /\ pc' = "idle"
  /\ UNCHANGED <<chain, local, faults>>

-------------------------------------------------------------------------------
(* The operator, the visitors and the others *)

StartDevnet ==
  /\ pc = "idle" /\ ~file.deployed
  /\ GoTo("identity")
  /\ UNCHANGED <<chain, faults>>

StartFaucet ==
  /\ pc = "idle" /\ file.deployed
  /\ GoTo("initialize")
  /\ UNCHANGED <<chain, faults>>

StartPool ==
  /\ pc = "idle" /\ file.deployed
  /\ pc' = "quote"
  /\ poolDone' = FALSE
  /\ UNCHANGED <<chain, local, file, faults>>

VisitorClaims(visitor) ==
  /\ credential[visitor] = NoKey
  /\ Faucet!Claim(visitor, visitor)
  /\ UNCHANGED <<poolVars, scriptVars, faults>>

\* Somebody deposits into the pool or sends its account pTokens: whoever it
\* is, the hook asks for the pool's credential only.
PoolFilled ==
  /\ pools # {} /\ PoolVerified
  /\ ~funded /\ funded' = TRUE
  /\ UNCHANGED <<faucetVars, pools, quoteMints, seeded, payerP, scriptVars, faults>>

\* Those who hold LP tokens, the payer or others, withdraw everything.
PoolEmptied ==
  /\ \E w \in Visitors \cup {Payer} : credential[w] # NoKey
  /\ funded /\ funded' = FALSE
  /\ payerP' \in {payerP, TRUE}
  /\ UNCHANGED <<faucetVars, pools, quoteMints, seeded, scriptVars, faults>>

Script ==
  \/ DevnetIdentity \/ DevnetPayer \/ DevnetVault
  \/ FaucetInitialize \/ FaucetFund \/ FaucetMint \/ FaucetRegistry \/ FaucetWrite
  \/ PoolQuote \/ PoolInitialize \/ PoolBorrow \/ PoolVerify \/ PoolHandBack
  \/ PoolWrap \/ PoolSeed \/ PoolWrite

Next ==
  \/ StartDevnet \/ StartFaucet \/ StartPool
  \/ Script
  \/ \E v \in Visitors : VisitorClaims(v)
  \/ PoolFilled \/ PoolEmptied

(* A running script does not wait for anybody.  The operator repeats        *)
(* setup-devnet until it succeeds and the other two again and again, each  *)
(* of them however often the other one runs; visitors keep trying.  Nobody *)
(* has to use the pool.                                                    *)
Fairness ==
  /\ WF_vars(Script)
  /\ WF_vars(StartDevnet)
  /\ SF_vars(StartFaucet)
  /\ SF_vars(StartPool)
  /\ \A v \in Visitors : WF_vars(VisitorClaims(v))

Spec == Init /\ [][Next]_vars /\ Fairness

-------------------------------------------------------------------------------
(* Properties *)

\* Quote mints are not created once a run: each fault orphans at most one.
TypeOK ==
  /\ Faucet!TypeOK
  /\ quoteMints \in 0 .. MaxFaults + 1
  /\ pools \subseteq 1 .. quoteMints
  /\ funded \in BOOLEAN /\ seeded \in BOOLEAN /\ payerP \in BOOLEAN
  /\ pc \in Steps
  /\ local \in [quoteMint : 0 .. quoteMints, lpMint : {NoMint, PoolLp, UnusedKey}]
  /\ file \in [deployed : BOOLEAN, quoteMint : 0 .. quoteMints,
               lpMint : {NoMint, PoolLp, UnusedKey}]
  /\ poolDone \in BOOLEAN
  /\ faults \in 0 .. MaxFaults

(* However often setup-pool is stopped and run again, there is one pool, and*)
(* it is the one of the quote mint in the file (setup-pool.ts:67-68 "a     *)
(* re-run must reuse this mint rather than orphaning it and creating       *)
(* another").                                                              *)
OnePool == pools \subseteq {file.quoteMint}

\* The steps of setup-pool that know the quote mint.
KnowsQuoteMint == {"pool", "borrow", "verify", "handBack", "wrap", "seed", "writePool"}

(* What holds of "Idempotent — safe to re-run." (setup-pool.ts:6) whatever *)
(* happened to earlier runs and to the pool: one that succeeds leaves one  *)
(* pool, that of the quote mint in the file, and verified; and if no run   *)
(* was stopped and no transaction lost, a refused one does no harm: once   *)
(* the payer's seed is in, the LP mint in the file is the pool's.          *)
RerunKeeps ==
  poolDone =>
    /\ pools = {file.quoteMint} /\ PoolVerified
    /\ faults = 0 /\ seeded => file.lpMint = PoolLp

(* What makes TypeOK and OnePool inductive: a quote mint that is not in the *)
(* file was lost in a fault of its own, none is created once there is one  *)
(* in the file, and the script works with that one.                        *)
Recorded ==
  /\ TypeOK
  /\ quoteMints <= faults + (IF QuoteMintKnown THEN 1 ELSE 0)
  /\ pc \in KnowsQuoteMint => QuoteMintKnown /\ local.quoteMint = file.quoteMint
  /\ OnePool

(* And RerunKeeps: what a run of setup-pool has seen to when it is at a     *)
(* step, and that the LP mint of the payer's seed reaches the file.        *)
Progress ==
  /\ pc \in KnowsQuoteMint \cup {"quote"} => ~poolDone
  /\ pc \in KnowsQuoteMint \ {"pool"} => pools # {}
  /\ pc \in {"handBack", "wrap", "seed", "writePool"} => PoolVerified
  /\ pc \in KnowsQuoteMint /\ file.lpMint = PoolLp => local.lpMint = PoolLp
  /\ faults = 0 /\ seeded =>
       file.lpMint = PoolLp \/ (pc = "writePool" /\ local.lpMint = PoolLp)
  /\ RerunKeeps

Inductive == Recorded /\ Progress

(* Where the registry exists, it ends up with the faucet and the pool ends  *)
(* up verified, wherever the scripts, both of which move the registry, were*)
(* stopped: a hand-over one of them missed is made up for by the other     *)
(* (setup-faucet.ts:83-90, setup-pool.ts:103-115).                         *)
RegistryComesHome ==
  <>[](config # NoKey => config = FaucetSigner /\ PoolVerified)

(* And once it is there with the pool verified nothing takes it away again: *)
(* a later run of either script, stopped wherever, leaves the visitors     *)
(* their registry (setup-pool.ts:6, setup-faucet.ts:6-7).                  *)
RegistryStaysHome ==
  [][config = FaucetSigner /\ PoolVerified
       => config' = FaucetSigner /\ PoolVerified']_vars

(* Every visitor of a deployed system is served in the end: faucet, both   *)
(* authorities and enough lamports for its credential come together while  *)
(* it keeps claiming, though the scripts move the registry, other visitors *)
(* use the lamports up and only a further run of setup-faucet refills them *)
(* (setup-faucet.ts:4-7, 59-70).                                           *)
VisitorServed ==
  \A v \in Visitors :
    file.deployed /\ config # NoKey ~> credential[v] # NoKey

(* "Idempotent — safe to re-run." (setup-pool.ts:6): a run that succeeds,   *)
(* whatever happened to earlier ones, leaves what a first run leaves: the  *)
(* registry back with the faucet, and the pool's LP mint in the file.      *)
RerunEndsLikeFirstRun ==
  poolDone => config = FaucetSigner /\ file.lpMint = PoolLp
===============================================================================
