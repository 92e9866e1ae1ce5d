# Passage Protocol: specification and proofs

TLA+ modules of the Passage Protocol's Solana programs, TLC configurations that
check them on small instances, and TLAPS proofs that hold for every instance.
The specifications are translated from the Rust sources; where a document says
something else, the difference is recorded under "Where documents and code differ".

    tlasany PassageWrapper.tla                               parse
    tlc -config MCWrapper.cfg MCPassageWrapper.tla           model-check
    tlapm PassageWrapperProofs.tla                           prove

`PROJECT.json` maps each definition to the lines it models, and lists the runs,
a mutant of the code for each checked property, the hazards and the theorems.

## The system

A permissioned asset (an RWA token) is deposited in a vault, which issues
*pTokens* for it. The pToken is a Token-2022 mint with a transfer hook: a
transfer commits only if the receiving wallet holds a credential in the
identity registry. A constant-product pool trades pTokens for a quote token.

| component | source | state it keeps | operations |
|---|---|---|---|
| vault | `programs/passage_wrapper` | `Vault` account: authority, fee, `total_wrapped`, `accrued_fees`; the asset account of the vault PDA | `initialize_vault`, `wrap`, `unwrap`, `collect_fees` |
| registry | `programs/passage_identity` | `Config.authority`; one `Credential` PDA per verified wallet | `initialize`, `verify_wallet`, `revoke_wallet`, `set_authority` |
| hook | `programs/passage_hook` | the `ExtraAccountMetaList` of the pToken mint | `initialize_extra_account_meta_list`, `transfer_hook` (also by `fallback`) |
| pool | `programs/passage_pool` | `Pool` account, two reserve accounts, an LP mint | `initialize_pool`, `add_liquidity`, `remove_liquidity`, `swap` |
| demo faucet | `programs/passage_demo_faucet` | `Faucet` account, a signer PDA with lamports | `initialize`, `set_drip_amount`, `set_identity_authority`, `claim` |
| token programs | external | balances, supplies, mint authorities | `transfer_checked`, `mint_to`, `burn`, `set_authority` |
| setup scripts | `scripts/setup-*.ts` | `devnet-addresses.json` | create mints, initialise programs, verify the pool, hand the registry to the faucet |
| web app | `app/index.html` (`docs/index.html` is the same file) | the form, reserves and credential as last read | quote, swap, wrap, unwrap, claim |
| hook-kit | `sdk/hook-kit` | none | resolve the extra accounts of a transfer |
| tests, verify scripts, IDL, assets | `tests/`, `scripts/verify-*.ts`, `idl/`, `assets/` | none | - |

How they interact:

- The vault moves the asset and mints and burns the pToken by CPI, and counts
  what it did in two fields of its own account. Neither `mint_to` nor `burn`
  calls the hook.
- A pToken `transfer_checked`, by a wallet or by the pool, makes Token-2022 call
  the hook, which reads the credential PDA of the owner of the destination
  account. The registry and the token program share nothing else.
- The pool keeps no reserve counters: it reads the balances of its own
  accounts, which anybody may send tokens to. Its LP tokens are a classic mint
  without a hook.
- The faucet is the registry's authority in the demo deployment: a claim calls
  `verify_wallet` by CPI and then mints. The setup scripts move that authority
  back and forth.
- The web app reads reserves and credentials over RPC, in separate requests,
  and computes a slippage limit from them some time later.

What is hard here: one instruction is one transaction and either commits as a
whole or leaves nothing, so there is no interleaving *inside* an instruction.
The difficulty is in sequences of instructions of several parties: counters kept
apart from the accounts they describe, credentials revoked between two steps,
an authority that changes hands, rounding that accumulates, balances that
others can change, and, outside the chain, scripts that stop half-way and
pages that act on what they read a while ago.

What makes each component correct:

- vault: its account covers both counters; every pToken can be redeemed, in any
  order; fees are counted once and only fees leave as fees.
- registry: only the authority of the moment acts; a credential is found where
  the hook looks for it; rents are not lost.
- hook: no transfer reaches a wallet that has no credential at that moment, and
  no wallet is locked in by losing its own.
- pool: never divides by zero while someone owns a share; rounding never favours
  the one who acts against the other LPs; an LP with a credential is refused a
  withdrawal only of LP tokens worth less than one base unit.
- faucet: a credential comes with its drip; what anybody can make the signer PDA pay
  for is credentials of newcomers; what it spent is not lost.
- scripts: stopped anywhere and run again, whatever others do with the pool
  meanwhile, they leave one pool and a registry that is back with the faucet.
- app: what it shows is the quote of what is on the page; a swap pays what was
  shown when it was clicked, less the tolerance, or nothing.

## The modules

| module | models | extends / instantiates |
|---|---|---|
| `SplToken` | the token programs as the code uses them: when a transfer, mint or burn fails, what it does to balances | - |
| `FullReserve` | abstract: what a vault promises, without wallets, mints or rates | - |
| `PassageWrapper` | the vault program | `SplToken`; refines `FullReserve` |
| `PassageIdentity` | the registry program, with the rent of its accounts | - |
| `PassageHook` | the hook: its account list and its decision | - |
| `PassageGate` | vault, registry and hook on one ledger | instantiates the three |
| `PassagePool` | the pool program | `SplToken`, instantiates `PassageHook` |
| `PassageFaucet` | the demo faucet, the registry behind it, the lamports of its signer PDA | `SplToken`, instantiates `PassageIdentity` |
| `SetupScripts` | the operator's three scripts, stopped and run again while visitors claim | instantiates `PassageFaucet` |
| `WebApp` | the swap side of the page: form, quote, refreshes, clicks, confirmations | instantiates `PassagePool` |
| `MC...` | symmetry and constants for TLC | the module of that name |
| `SplTokenProofs` | lemmas on totals of balances | `SplToken` |
| `FullReserveProofs`, `PassageWrapperProofs`, `PassagePoolProofs`, `PassageFaucetProofs`, `WebAppProofs` | theorems | the module of that name |
| `PassageGateProofs` | theorems | `PassageGate`; instantiates `PassageWrapperProofs` |
| `SetupScriptsProofs` | theorems | `SetupScripts`; instantiates `PassageFaucetProofs` |

### How state and actions correspond to the code

**One instruction, one action.** Every `require!`, account constraint, failing
CPI and arithmetic panic is a conjunct of the guard, because it undoes the whole
transaction; what the instruction writes is primed. `Cargo.toml` sets
`overflow-checks = true`, so `+`, `-`, `*` that leave their type are guards too;
`as u64` is not checked and is modelled as a remainder (`AsU64`).

**Account constraints.** Anchor's `has_one`, `seeds`, `mint =`, `authority =`
tie the accounts of an instruction together. A model with one vault, one asset
mint and one pToken mint satisfies most of them by having one of each; what is
left, whether accounts exist and who must sign, is in `WrapAccounts`,
`CollectFeesAccounts` and so on. Two vaults share no account (both PDAs derive
from the asset mint), so one is enough.

**PassageWrapper.** `vault` is `NoVault` or the `Vault` record; `asset`,
`pToken` are the balances per owner; `pMint` is the pToken mint. `Wrap`,
`Unwrap`, `CollectFees`, `InitializeVault` are the instructions. The
environment issues and transfers the asset (to the vault's account too), burns
and transfers pTokens, and, if `FreshPMint` is FALSE, the creator of the pToken
mint mints before it hands the mint over: `initialize_vault` checks the
authority, not the supply. `AssetFeeBps` is the transfer fee of a Token-2022
asset mint, which nothing in the program excludes.

**PassageIdentity.** `credential[k]` is the `wallet` field of the PDA derived
from `k`, or `NoKey`; `config` the authority; `lamports` what signers own, in
rents. `Accounts` holds keys that cannot sign: a handover to one is final. The
module has no run of its own: its properties are checked inside `PassageGate`,
next to the vault, and `PassageFaucet`.

**PassageHook.** `ResolvedCredential` is what the `ExtraAccountMetaList` makes
Token-2022 pass in (the PDA derived from the owner field of the destination
account), `TransferHook` what the program then compares. A missing PDA makes
the transfer fail.

**PassageGate.** The three programs by `INSTANCE`, sharing `credential` and the
balances: each step of one leaves the others' state alone, except that a
pToken transfer is possible only if the hook lets it through. The vault PDA
stands for the keys that nobody signs for and that can still be given a
credential or the registry. The pToken mint has a creator who may issue some
before handing it over.

**PassagePool.** Reserves are the balances of `PoolPda`. All divisions are the
code's, with its real constants (10_000, 25). Around it, wallets move tokens
(donations to the pool included), LP tokens are passed on and burned by their
holders, and the registry verifies and revokes anybody, the pool included.

**PassageFaucet.** Owns the asset mint's ledger and the registry's variables.
The signer PDA is a key that no wallet signs for: it acts in the registry only
through `Claim` and `SetIdentityAuthority`, so `RegistryStep` lets wallets act
and not the whole of the registry's `Next`. `Claim(user, passed)` takes the
account passed as the credential as an input of its own, because the program
does (`UncheckedAccount`): `DataIsEmpty` of it decides whether `verify_wallet` is
called, and `verify_wallet` accepts only the PDA of the wallet it verifies.
`OtherAccount` stands for any account with data. Wallets start with the `TotalLamports`
in any distribution and can send the signer PDA any part of theirs.

**SetupScripts.** The chain is that of `PassageFaucet`, plus what the scripts ask
of the pool: which quote mints have one (`pools`), whether the pool's pToken account
is empty (`funded`, the balance setup-pool.ts:136-138 reads), and whether the script's own
deposit landed (`seeded`, which no script reads). The two differ, since anybody may put
pTokens into a verified pool (`PoolFilled`) and the holders of LP tokens may take all out
again (`PoolEmptied`): the script then skips a deposit it never made, or seeds the pool a
second time. Both are possible at any step and have no fairness: nobody has to. `pc` is the
step the running script is at; one step is the reads a transaction depends on,
the transaction, and the assignments up to the next one. A step ends in one of the
ways the code allows: `Await` (the transaction lands, or is refused and the script
ends), `TryAwait` (`try { await } catch`: it goes on whatever happened) and
`AwaitUnless` (it first asks the chain or the file whether the work is done). A
fault stops the script before or after the transaction landed, or loses the
transaction; `MaxFaults` bounds them. `local` is what a run of `setup-pool` keeps
in memory, `file` is `devnet-addresses.json`. What no later step depends on is left
out: the asset mint, the vault and the amounts (`payerP` says that the payer has
the pTokens to seed the pool with). Two assumptions about the operator are in
the module's header: a script is started only when the last transaction of a stopped
one has landed or expired, and `setup-devnet` is repeated only until it succeeds,
because each run replaces the mints of the one before.

**WebApp.** The chain is that of `PassagePool`: a transaction of the page is its
`Swap`. `Click` is the synchronous part of the handler, which reads the form and
the reserves and fixes amount, direction and limit. After it the handler
waits four times: `Send` (blockhash, wallet, preflight), `Confirm` or `Timeout`,
and its own refresh. The button stays enabled, so a second click may come at any
of these points. A refresh sends two requests, answered apart from each other and
each counted as 0 when it fails; several may be under way and the last to finish
sets the reserves. `confirmTransaction` resolves for a transaction that was
included with an error, and a timeout does not keep one from landing; both are in
the model. A transaction that is dropped stays pending for ever. The page's
floating-point quote is exact here: `QuoteSwap` is k times the quote, rounded
down, so that half units (what is shown) and hundredths (the limit) are right.

## The runs

| run | configuration | checks |
|---|---|---|
| `wrapper` | 2 wallets, u64 cut to 9, fee 0 or 50 % | `TypeOK`, `Solvent`, `Backed`, `Redeemable`, `Inductive`, `CustodyOnlyPaysClaims`, `FeesCollectedWhole`, `ReserveSpec` |
| `wrapper_premint` | the highest fee allowed, 500 of 10_000 (setup-devnet.ts:40 deploys 10), u64 cut to 40, pToken mint first in its creator's hands | `Solvent`, `CustodyOnlyPaysClaims` |
| `gate` | vault, registry and hook, 2 wallets with 2 rents each, 1 key that cannot sign, pToken mint first in its creator's hands | `Inductive`, `RentConserved`, `GatedReceipt`, `UnverifiedOnlyByWrapping`, `OnlyAuthorityActs` |
| `gate_sender` | as `gate`, smaller | finds `OnlyBetweenVerified` violated |
| `pool` | 2 users, 6 of each token each, u64 cut to 15 | `Inductive`, `LpBacked`, `LpShareNeverFalls`, `DepositDilutesNobody`, `NoProfitFromDeposit`, `OnlyDustIsRefused`, `EmptyPoolCreditsSqrt` |
| `pool_narrow` | 1 user, u64 cut to 5 bits | finds `DepositsCreditedInFull` violated |
| `faucet` | 2 wallets with 6 rents between them in any distribution, drips around a cap of 2 | `Inductive`, `RentConserved`, `VerifiedWithDripOnly`, `SignerPaysForNewcomers`, `DripsCapped` |
| `faucet_claim` | as `faucet` | finds `PaidMeansVerified` violated |
| `setup` | 2 visitors, 3 faults, a signer PDA filled up to 1 rent | `Inductive`, `OnePool`, `RerunKeeps`, `RegistryStaysHome`, `RegistryComesHome`, `VisitorServed` |
| `setup_rerun` | as `setup` | finds `RerunEndsLikeFirstRun` violated |
| `app` | 2 clicks, 1 trade of another wallet, 1 failed request | `ShownIsQuote`, `Inductive`, `FreshQuoteAccepted`, `QuoteHonoured` |
| `app_slippage` | 1 click, no trade, no failure | finds `SlippageLimited` violated |

`Inductive` is in each module the invariant that its proofs go by, the module's type
invariant `TypeOK` among its conjuncts; TLC checks it before it is proved.

**What the properties say.** `Solvent`, `Backed` and `Redeemable` relate two
counters, an account and a supply that four instructions and five other parties
change separately: together they say that the last holder to leave is paid like
the first. `CustodyOnlyPaysClaims` bounds what one step may take out; `FeesCollectedWhole`
says that recorded revenue leaves its counter only as a whole, and either leaves the
vault's account with it or, the vault's own account being the treasury, stays there in no
counter. `ReserveSpec` says that all of this is an implementation of a
full-reserve institution. pTokens from before the vault are redeemed like others, and
`wrapper_premint` shows that they cannot reach the fees or outrun the counters.
`GatedReceipt` says that a revocation closes the way
in at once; `UnverifiedOnlyByWrapping` says exactly how far the gate
does *not* reach: a wallet without a credential can hold pTokens it wrapped
itself. (The way out is the theorem `RedeemableAtGate`: unwrapping reads no credential.) `RentConserved` and `OnlyAuthorityActs` follow each rent over any number
of handovers; `OnlyAuthorityActs` also says that a registry handed to a key that nobody
signs for stays there, with the credentials as they are. `LpBacked` says that no division by a reserve can fail while LP
tokens exist; `OnlyDustIsRefused` that a holder with a credential is refused a withdrawal
for one reason only, a share of a reserve below one base unit (lib.rs:132). The holder of all LP
tokens is never refused, but several holders can be all at once: after a deposit of (4, 1)
and one of 3 pTokens whose quote side rounds to zero there are 3 LP tokens on 1 quote token, and
once they are split between two holders neither can leave alone (`pool` reaches that state). `LpShareNeverFalls` that swaps, withdrawals, donations and burns
never lower reserve_p * reserve_q per squared LP token; `NoProfitFromDeposit`
that the three roundings of deposit and withdrawal do not add up in favour of
the depositor; `DepositDilutesNobody` that a later deposit leaves every LP token backed as
before, one quote unit of the whole pool aside (need_q is rounded down; without that unit TLC
finds the property false), also where the u64 cast cuts the credit; `EmptyPoolCreditsSqrt` that Newton's iteration yields the integer
square root whenever the pool has no LP tokens, the first time and later.
`VerifiedWithDripOnly` says that while the faucet has the registry a credential
appears only together with a drip for the same wallet, `SignerPaysForNewcomers` that
nothing else ever takes lamports from the signer PDA, which any visitor can make pay.
`OnePool` holds only because `setup-pool` writes the
quote mint down at once; `RerunKeeps` is what remains true of
"safe to re-run": a run of `setup-pool` that succeeds leaves one pool, the recorded quote
mint's, and verified, whatever happened to the runs before it and to the pool, and if no
run was ever stopped and the payer's seed is in, the pool's LP mint is in the file (with the
pTokens of others in the pool a refused run can be followed by one that skips the deposit, and then it need not be);
`RegistryComesHome` says that the scripts repair what a stopped run left of the
registry, each the other's part too, `RegistryStaysHome` that no later run takes it away
again; `VisitorServed` that faucet, both authorities
and lamports for the credential come together for every visitor.
`QuoteHonoured` follows a swap from the click to the block it lands in, past
torn and overlapping reads, a second click and a timeout; `FreshQuoteAccepted`
says that the page's real numbers and the program's two roundings (lib.rs:205-206) differ by
less than the tolerance, so that an honest quote is not refused; `ShownIsQuote`
that no refresh or tab change leaves a number on the page that belongs to another
amount, direction or reserve.

**Fairness.** On chain nothing happens unless somebody sends a transaction, and
no party has to: the programs' specifications assume no fairness, and that
somebody *could* act is stated as an invariant: `Redeemable` and `OnlyDustIsRefused`
spell out the checks that the instruction makes, so that they can be
proved. `SetupScripts` does assume it, for its two liveness
properties. `WF(Script)`: a running script is a process that waits for nobody but the
cluster, and gives up where the cluster does not answer. `WF(StartDevnet)`: the
operator starts it until it has succeeded. `SF(StartFaucet)`, `SF(StartPool)`: the
operator goes on re-running the other two, which setup-faucet.ts:6-7 and
setup-pool.ts:6 call safe; strong, since each can be started only while the other does
not run, and running one for ever instead is not what "re-run the scripts" means.
`WF` of a visitor's claim, which is weak and is enough: from some moment on
its claim stays possible until it is made. That faults end is in `MaxFaults`. The page needs no fairness: a user
may walk away, and its properties are safety.

**Bounds.** `MaxU64` is the width of an amount: supplies reach it, so every
overflow check is met, and behaviour above it is the same in kind. `Amounts`
of the vault holds the 0 that its instructions refuse, odd amounts so that fees round, and
amounts that together exceed what anybody owns, so that CPIs fail. `BPS = 4`
in `wrapper` and `gate` makes the fee of one token round to zero and the fee of
two whole, the two cases rounding has; the program's 10_000 with its cap of 500 is used with amounts of 20 and 40,
whose fees are 1 and 2, in `wrapper_premint`, and the theorems hold for any denominator. `FeeChoices` of `wrapper` holds one fee above the cap. Two
wallets are enough for the vault, which never relates more than the one wallet
acting and the total of all others, and for the hook, which sees one receiver;
registry authority and sender may be the same wallet or different ones.
`InitialLamports` = 2 in `gate` lets each signer run out; in `faucet`, `TotalLamports` = 6
start in the wallets in any distribution, and any amount of them can be given to the signer
PDA, so that accounts with nothing and with everything both occur. Pool
amounts up to 6 make each of its divisions round and `integer_sqrt` inexact. `pool_narrow` cuts the cast's width to 5
bits so that TLC reaches in a few deposits what takes large ones in u64.

In `setup` one visitor uses up the signer PDA's lamports, so that the second depends on
a refill; three faults let a run be stopped at each of the three transactions that move
the registry, or a re-run be stopped again. The payer and the visitors have
lamports enough for all of it, `InitialLamports` = 8 each, and `MaxU64` = 32 is above their sum.

In `app`, fee 1 of 400 is the deployed 25 of 10_000 exactly and keeps TLC's 32-bit
integers from overflowing; reserves of 2000 and amounts of 399 move the price by
far more than the 1 % tolerance, so that a second swap or a trade by somebody else makes the
limit bite; 399 is no multiple of 400, so that the fee's division rounds as well as the payout's. The other wallet sells one way only: with equal reserves at the start and
a user who flips, the other way is the mirror image. Below 99 base units
after the fee the program's rounding of its fee can exceed 1 %: `FreshQuoteAccepted`
says so in its conditions, and is proved with exactly that bound. With 6 decimals
such an amount is dust, and the pool then refuses the swap.

**Symmetry.** Wallets (users, clicks) are permuted only where no constant
tells them apart, and only in runs whose properties are invariants and action
properties, for which symmetry reduction is sound. `setup`, with its liveness, has none.

**Deadlock.** Checked everywhere but in `gate`, where a registry and an asset
that nobody can move any more really stop, and in `faucet`, where wallets that
gave all their lamports away can do nothing more.

## The proofs

For every value of the constants that the named assumptions allow.

| module | theorem | assumes | says |
|---|---|---|---|
| `PassageWrapperProofs` | `TypeCorrect` | - | every balance, supply and counter stays in u64, the fee under its cap |
| | `InductiveHolds`, `SolventAlways` | asset without transfer fee | `Inductive`, `Solvent` |
| | `BackedAlways`, `RedeemableAlways` | and the pToken mint is the vault's from creation | `Backed`, `Redeemable` |
| | `RefinesReserve` | the same | `ReserveSpec` |
| | `CustodyProtected`, `FeesAlwaysCollectedWhole` | asset without transfer fee | `CustodyOnlyPaysClaims`, `FeesCollectedWhole` |
| `FullReserveProofs` | `FullyReservedAlways` | - | the abstract institution can pay every claim and its revenue |
| `PassageGateProofs` | `ImplementsVault`, `ImplementsRegistry` | - | the composition behaves as `PassageWrapper`'s and `PassageIdentity`'s own specifications say |
| | `SolventAtGate`, `RedeemableAtGate`, `GateRefinesReserve`, `CustodyProtectedAtGate`, `FeesCollectedWholeAtGate` | as for the vault | the vault's theorems, of the three programs together |
| | `InductiveHolds`, `TypeCorrect` | - | `Inductive`, `TypeOK` |
| | `RentConservedAlways`, `OnlyAuthorityActsAlways` | - | the registry's properties |
| | `GatedReceiptAlways`, `UnverifiedOnlyByWrappingAlways` | - | who may get pTokens |
| `PassagePoolProofs` | `IntegerSqrtIsRoot` | - | Newton's iteration returns the integer square root of every natural number |
| | `InductiveHolds`, `TypeCorrect`, `LpBackedAlways`, `OnlyDustIsRefusedAlways` | - | the invariants of that name |
| | `NoProfitFromDepositAlways`, `LpShareNeverFallsAlways`, `DepositDilutesNobodyAlways`, `EmptyPoolCreditsSqrtAlways` | - | the pool's rounding is never against the other LPs |
| `PassageFaucetProofs` | `InductiveHolds`, `TypeCorrect`, `RentConservedAlways` | - | the invariants of that name |
| | `VerifiedWithDripOnlyAlways`, `SignerPaysForNewcomersAlways`, `DripsCappedAlways` | - | what one step of the faucet may do |
| `WebAppProofs` | `InductiveHolds`, `ShownIsQuoteAlways`, `QuoteHonouredAlways`, `FreshQuoteAcceptedAlways` | - | the page's promises, for any fee, reserves, amounts, number of clicks, trades and failures |
| `SetupScriptsProofs` | `InductiveHolds`, `TypeCorrect`, `OnePoolAlways`, `RerunKeepsAlways`, `RegistryStaysHomeAlways` | - | the scripts, for any number of visitors and faults |
| | `ImplementsFaucet` | - | the scripts and the visitors behave as `PassageFaucet`'s own specification says |
| | `RentConservedByScripts`, `VerifiedWithDripByScripts`, `SignerPaysForNewcomersByScripts` | - | the faucet's theorems, of the scripts |

The assumptions of the vault are needed: with a transfer fee it receives less than it
mints for, and pTokens minted before the vault existed are not backed. The treasury is any
account of the asset in every run and theorem, the vault's own included. A "-" stands for the assumptions on constants that each module
declares (`WrapperAssumption`, `GateAssumption`, `PoolAssumption`, ...), which TLC
evaluates in every run. They give constants their types and keep keys apart, except for two
that say something about the chain: `SupplyAssumption`, that the supply of a mint is a
u64 (the token program refuses to mint beyond it), and in `FaucetAssumption`, that the
lamports in existence are one.

**Why the invariants are not inductive by themselves, and what is added.**

- *Vault.* An unwrap lowers
  `total_wrapped` by the amount burned and pays out the amount less the fee, so it
  keeps `Solvent`, but that it *succeeds* needs the supply to be within
  `total_wrapped` (`Backed`), and `Backed` is kept only as long as nobody but the
  vault mints. `Inductive` therefore adds that the mint's authority is the vault
  from the first moment on, and `Circulation`, that balances add up to supplies,
  since the programs compare an amount with one wallet's balance while the
  counters speak of the supply.
- *Gate.* `GatedReceipt` and `UnverifiedOnlyByWrapping` follow from a list of the ways
  in which a balance can grow (lemma `HowToGain`); that a wallet gains by a mint only when
  it wraps needs the vault to be its mint's authority. `RentConserved` needs that no
  signer has more lamports than there are, else the rents it is counted by
  would be cut off.
- *Pool.* `LpBacked` is kept by a withdrawal because its shares are rounded down and
  what remains of the supply is positive; that nobody can withdraw more LP tokens than there are, and
  that no sum of two accounts overflows, is `Circulation`.
- *Faucet.* `RentConserved` needs the lamports of every
  account to be a u64, which is that they add up to what there was.
- *Page.* A limit computed at the click is compared with a payout in a later block.
  `Inductive` carries it along: every transaction on its way has a limit within the
  tolerance of what was shown for it, and one that is being signed has not been sent.
- *Scripts.* `OnePool` is kept by `initialize_pool` because the quote mint a run works
  with is the one in the file in every step from `pool` to `writePool`, and by the creation of a
  quote mint because there was none in the file, hence no pool. `quoteMints <=
  faults + 1` needs the sharper count that as long as none is in the file each was lost in a
  fault of its own. `RerunKeeps` speaks of a run's end; `Progress` says what the run has seen to
  at each step before it, which earlier runs may have done in its place: from `handBack` on the pool
  is verified, and without faults the LP mint of the payer's seed is on its way to the file or in
  it. `funded` appears in neither: it is what others change at will.

**Totals.** `Total` is defined as the number of units of all balances
(a cardinality) rather than as a recursive sum; `SplTokenProofs`
proves by bijections and disjoint unions that a transfer keeps it and that a mint
or burn changes it by the amount, and that no balance exceeds it. Rents are counted
in the same way.

**The refinement.** `custody` is the vault's asset account, `issued` the pToken
supply, `revenue` is `accrued_fees`. `StepRefines` shows one abstract step for each
action: `Wrap` is `Deposit`, `Unwrap` is `Redeem`, `CollectFees` is
`TakeRevenue`, or `ForgoRevenue` when the treasury is the vault's own account, a transfer to the vault's account is `Gift`, a burn by a
holder is `Forfeit`, the rest stutters. It holds from the first step if the pToken
mint is the vault's from creation, and otherwise from the vault's creation on, which is enough
for `CustodyProtected`.

**The composition.** Every step of `PassageGate` is a step of the vault's `Next` or
leaves the vault alone (`StepOfParts`), so `Spec => Wrapper!Spec`. `PassageGateProofs`
instantiates `PassageWrapperProofs`, and `SolventAtGate`, `RedeemableAtGate`,
`GateRefinesReserve`, `CustodyProtectedAtGate` and `FeesCollectedWholeAtGate` are that
module's theorems, cited: neither the hook nor the registry can keep a holder from unwrapping.
In the same way every step of `SetupScripts` is a step of `PassageFaucet` with one drip
size and the lamports the payer and the visitors start with, or leaves it alone
(`ChainStep`): `PassageFaucet` allows any distribution of lamports and any funding of its
signer because its clients need both. `SetupScriptsProofs` instantiates
`PassageFaucetProofs` and cites three of its theorems.

**The arithmetic.** The pool's and the page's divisions are reasoned about by a few
lemmas on quotients (`Quotient`, `QuotientBelow`, `ShareKept`, ...), each a product of
inequalities that the solver checks. `integer_sqrt` is a recursive function on numbers that
get smaller; that it yields the square root is shown by a least counterexample,
which exists in a set of naturals without an induction rule.

**Model-checked only.** Liveness (`RegistryComesHome`, `VisitorServed`) stays with TLC: the
prover has no `ENABLED`, which fairness is written with. In `SetupScriptsProofs` and `WebAppProofs` the `ENABLED`
in an action (a transaction that *would* be refused) needs no unfolding: both outcomes
are covered, refused or not. The five properties of the runs that find a violation are
false and no theorem states them.

## Where documents and code differ

- `gate_sender`: README.md:12-13 and `passage_wrapper` lib.rs:4-5 say that
  pTokens move only between verified wallets; the hook asks about the receiver.
  In the same way `wrap` gives pTokens to a wallet without a credential,
  though assets/x-content.md:43 says that every holder is verified and
  app/index.html:342 that pTokens are received after verification only, and
  the pool asks a user who sells or deposits pTokens for no credential (lib.rs:6: "every
  participant stays verified"). What does hold is `UnverifiedOnlyByWrapping`.
- `pool_narrow`: `mint_lp as u64` drops the high bits of a share that exceeds u64.
- `faucet_claim`: `claim` calls `verify_wallet` only if the account passed as the
  credential is empty and does not derive that account from the caller, so it
  can pay a caller that stays unverified; `passage_demo_faucet` lib.rs:73 says it
  verifies the caller if it is not already.
- `setup_rerun`: setup-pool.ts:6 says "Idempotent - safe to re-run". The random LP mint is
  written down only at the end (lines 85, 165), the deposit is skipped when the pool's account
  holds any pTokens (lines 136-138), and the three transactions about the registry are
  skipped as a whole once the pool has its credential (lines 103-115). After a run stopped
  between `initialize_pool` and the deposit, a re-run fails at lines 141-142, unless
  somebody else's pTokens are in the pool: then it succeeds, with an LP mint in the file that was
  never created, and with the registry still the payer's if the stop was before the
  hand-back. With nobody else in the pool, a stop after the deposit and before
  the file is written has the first of these effects. What does hold is
  `OnePool`, `RerunKeeps` and, with `setup-faucet` run again too,
  `RegistryComesHome`.
- `app_slippage`: index.html:489 says "1% slippage tolerance"; before a first
  refresh, or after a failed one (lines 409-410), the quote is 0 and the limit one
  base unit. What does hold is `QuoteHonoured`: the swap pays what was shown.

Seen while reading, and not checked by a run:

- `collect_fees` accepts the vault's own account as treasury (`passage_wrapper`
  lib.rs:290-291): the counter is reset, nothing moves, and no instruction can take
  the fees out any more. `FeesCollectedWhole` names that case, `ReserveSpec` maps it to
  `ForgoRevenue`;
- with a Token-2022 asset that takes a transfer fee, `wrap` mints for what was sent
  and not for what the vault received, though README.md:9 says 1:1;
- the ratio of a later deposit may round to zero quote tokens (`passage_pool`
  lib.rs:57), though lib.rs:40-41 says later deposits must match the ratio. LP tokens credited
  so can be split until no holder's share of the quote reserve is one base unit, and none of them
  can leave alone (lib.rs:132); `OnlyDustIsRefused` says that this is the only refusal;
- the page reports a transaction that failed on chain as confirmed: it does not look at
  the `err` that `confirmTransaction` returns (index.html:541-543);
- the `catch` around an `initialize` takes any error for "already exists"
  (setup-devnet.ts:70-71, setup-faucet.ts:49-56). In `SetupScripts` it does so too, and
  a system without a registry can result; the liveness properties exclude only that;
- a deposit still under way when `setup-pool` is killed may land after the
  next run has read the reserves, and the pool is then seeded twice.

## What is left out, and why

- Rent and accounts in the vault and the pool (paid by the caller, who can
  refuse); `initialize_vault` failing because somebody created the vault PDA's
  token account first; accounts already funded before `create_account`.
- Freezing, delegates, permanent delegates and closing of token accounts:
  nothing in the repository uses them. A freeze or permanent delegate on the
  asset mint would be its issuer's privilege and can stop or drain any holder.
- `issued_at`, bumps, stored mint addresses: never read after being checked.
- In `PassagePool`, pTokens are neither wrapped nor unwrapped and the registry's
  authority is not modelled: any owner may be verified or revoked at any time.
- Compute budget, transaction size, fees, and forks of the chain.
- Wrapping, unwrapping and claiming from the page: each sends one transaction with
  the amount typed and keeps nothing between clicks. Its balances and messages.
- hook-kit: it resolves the accounts of one transfer in one pass, without state.
  Which accounts the hook asks for, and that a missing one makes the transfer
  fail, is in `PassageHook`.
- All five programs on one ledger: hook and vault meet in `PassageGate`, hook and pool
  in `PassagePool`, registry and faucet in `PassageFaucet`; vault and pool, and
  pool and faucet, share nothing but balances that other steps change arbitrarily anyway.
- IDL files (generated), tests, verify scripts, page layout.

## Plan

Modelled and checked: everything in the table of modules. Proved: every invariant and
action property of the passing runs. What is left:

1. Which of the two liveness properties survive an operator who gives up `setup-faucet`
   after its first success.
2. A corrected `setup-pool`, in which each of the three registry steps asks the chain for
   itself, with `RerunEndsLikeFirstRun` as a property of it, once the script is changed.
