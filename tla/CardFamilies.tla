---------------------------- MODULE CardFamilies ----------------------------
(***************************************************************************)
(* The fixed flashcards of section_study_service.py.  A generator of the   *)
(* service looks for phrases in the text of a concept and gives a card for *)
(* each group of phrases it finds; the card's question and answer are      *)
(* literals of the generator, its identifier is the concept's followed by  *)
(* the generator's suffix.  A generator is a Family here: a gate the text  *)
(* has to pass, and rules that give cards, named by their suffixes, in the *)
(* order of the code.  A text is the set of the phrases it contains, those *)
(* contained in a longer phrase included; a search with word boundaries or *)
(* alternatives is the set of phrases it stands for.                       *)
(*                                                                         *)
(* Card names are facts about the code: tables below name every card, so   *)
(* that two of them asking one question, or sharing a name, can be seen.   *)
(***************************************************************************)
EXTENDS Selections, SequencesExt

\* Queries: a set of clauses, each a set of phrases.
AnyOf(phrases) == {{p} : p \in phrases}
AllOf(phrases) == {phrases}
Both(q, r) == {a \cup b : a \in q, b \in r}
Always == {{}}

Holds(query, text) == \E clause \in query : clause \subseteq text

On(query, cards) == [when |-> query, cards |-> cards]
Family(gate, rules) == [gate |-> gate, except |-> {}, rules |-> rules]
FamilyUnless(gate, except, rules) == [gate |-> gate, except |-> except, rules |-> rules]

\* The cards a family gives for a text, in order.
Asked(family, text) ==
  IF Holds(family.gate, text) /\ family.except \cap text = {}
  THEN LET given == Selected(family.rules, LAMBDA r : Holds(r.when, text))
       IN  FlattenSeq([i \in DOMAIN given |-> given[i].cards])
  ELSE << >>

AskedOfAll(families, text) ==
  FlattenSeq([i \in DOMAIN families |-> Asked(families[i], text)])

\* Cards the quality filter refuses whatever the text: their question is taken
\* for a generic one, so the rule that gives them never has an effect.
Refused == {"family-bayes-rule-exam-trap",
    "family-mutually-exclusive-collectively-exhaustive-trap",
    "family-mutually-exclusive-meaning", "family-pmf-cdf-exam-trap",
    "family-partial-slope-coefficient-trap", "family-cluster-center",
    "family-bernoulli-vs-binomial", "family-conditional-probability-independence",
    "family-conditional-probability-independent-events",
    "family-conditional-probability-independence-trap", "family-iid-exam-trap",
    "family-unit-root-stationarity-trap", "family-var-method-exam-trap",
    "lo-anchor-heteroskedasticity-exam-trap", "lo-anchor-expected-loss-three-inputs-trap",
    "lo-anchor-unexpected-loss-exam-trap"}

\* Cards of different names that ask one question.
SameQuestion == {
  {"lo-multiple-testing-type-i-error", "family-multiple-testing-type-i-error"},
  {"lo-delta-hedging", "family-delta-hedging-definition"},
  {"lo-option-delta", "family-option-delta-definition"},
  {"family-event-space", "probability-event-space"},
  {"family-random-event", "probability-random-event"},
  {"family-independence-condition", "probability-independence-condition"},
  {"family-conditional-probability-independence", "probability-conditional-independence"},
  {"family-mutually-exclusive-condition", "probability-mutually-exclusive-condition"},
  {"family-independent-vs-mutually-exclusive", "top-up-independent-vs-mutually-exclusive"},
  {"balanced-lo-diversification-risk-reduction", "mpt-diversification",
   "insurance-diversification"},
  {"balanced-lo-insurance-coverage-definition", "insurance-coverage-definition"}}

QuestionOf(name) ==
  IF \E group \in SameQuestion : name \in group
  THEN CHOOSE first \in UNION SameQuestion :
         \E group \in SameQuestion : name \in group /\ first \in group
  ELSE name

------------------------------------------------------------------------------
\* Value at risk.
ValueAtRisk == Family(AnyOf({"value at risk", "var"}),
  << On(Always, <<"var-definition">>),
     On(AnyOf({"one-day var of an amount at a confidence level"}), <<"var-interpretation">>),
     On(AnyOf({"does not show loss severity", "beyond the threshold", "depends on assumptions",
        "liquidity"}), <<"var-limitations">>),
     On(AnyOf({"expected shortfall"}), <<"var-vs-expected-shortfall">>) >>)

\* Modern portfolio.
ModernPortfolio == Family(AnyOf({"modern portfolio theory", "mpt", "efficient frontier",
    "diversif"}),
  << On(AnyOf({"modern portfolio theory", "mpt"}), <<"mpt-definition">>),
     On(AnyOf({"efficient frontier"}), <<"efficient-frontier">>),
     On(AnyOf({"maximize return per unit of risk"}), <<"mpt-rational-investor-goal">>),
     On(AllOf({"risk-free asset", "efficient frontier"}), <<"mpt-no-risk-free-asset">>),
     On(AnyOf({"diversif"}), <<"mpt-diversification">>) >>)

\* Capm.
Capm == Family(AnyOf({"capital asset pricing model", "capm", "security market line", "sml",
    "market risk premium", "mrp", "beta"}),
  << On(AnyOf({"capital asset pricing model", "capm"}), <<"capm-definition">>),
     On(AnyOf({"E(R) =", "capm equation"}) \cup Both(AnyOf({"capital asset pricing model",
        "capm"}), AnyOf({"market risk premium", "mrp", "beta", "risk-free"})),
        <<"capm-formula">>),
     On(Both(AllOf({"company-specific risk"}), AnyOf({"capital asset pricing model", "capm"})),
        <<"capm-diversification">>),
     On(Both(AllOf({"linear function of beta"}), AnyOf({"capital asset pricing model",
        "capm"})), <<"capm-linear-beta">>),
     On(AnyOf({"market risk premium", "mrp"}), <<"market-risk-premium",
        "market-risk-premium-capm-role">>),
     On(AnyOf({"security market line", "sml"}), <<"sml-depiction">>),
     On(Both(AllOf({"slope"}), AnyOf({"security market line", "sml"})), <<"sml-slope">>),
     On(AnyOf({"beta"}), <<"capm-beta">>),
     On(AnyOf({"beta of the market is 1"}), <<"market-beta">>) >>)

\* Code of conduct.
CodeOfConduct == Family(AnyOf({"garp code of conduct", "code of conduct"}),
  << On(AnyOf({"integrity", "competence", "diligence", "respect", "ethical"}),
        <<"garp-code-duties", "garp-code-integrity">>),
     On(AnyOf({"conflicts of interest", "conflict of interest"}), <<"garp-code-conflicts">>),
     On(AnyOf({"confidentiality"}), <<"garp-code-confidentiality">>),
     On(AnyOf({"professional standards"}), <<"garp-code-professional-standards">>),
     On(AnyOf({"violation", "consequence"}), <<"garp-code-violations">>) >>)

\* Time series.
TimeSeries == Family(Always,
  << On(AllOf({"time series", "data collected over regular time periods"}),
        <<"time-series-definition">>),
     On(AnyOf({"covariance stationary"}), <<"covariance-stationary-conditions">>),
     On(AnyOf({"serially uncorrelated"}), <<"serially-uncorrelated-condition">>),
     On(AnyOf({"white noise"}), <<"white-noise-definition">>),
     On(AnyOf({"independent white noise"}), <<"independent-white-noise-definition">>),
     On(AllOf({"normal white noise", "independent white noise"}),
        <<"normal-vs-independent-white-noise">>),
     On(AllOf({"normal", "white noise"}), <<"normal-white-noise-definition">>),
     On(AnyOf({"autocovariance"}), <<"autocovariance-function">>),
     On(AnyOf({"autocorrelation"}), <<"autocorrelation-function">>) >>)

\* Population moments.
PopulationMoments == Family(AnyOf({"population moments"}) \cup AllOf({"mean", "variance",
    "skewness", "kurtosis"}),
  << On(Always, <<"population-moments-list", "population-moment-mean",
        "population-moment-first", "population-moment-variance",
        "population-moment-second-central", "population-moment-skewness",
        "population-moment-kurtosis", "population-moments-skewness-vs-kurtosis",
        "population-moments-time-series-use", "population-moments-kurtosis-trap">>) >>)

\* Compounding.
Compounding == Family(AnyOf({"compounding frequency", "continuous compounding"}),
  << On(Always, <<"compounding-frequency-definition", "compounding-frequency-future-value",
        "compounding-frequency-present-value", "compounding-frequency-common-types",
        "annual-compounding-definition", "semiannual-compounding-definition",
        "quarterly-compounding-definition", "monthly-compounding-definition",
        "continuous-compounding-definition", "compounding-frequency-matching-trap",
        "compounding-frequency-exam-trap">>) >>)

\* Mutual funds.
MutualFunds == Family(AnyOf({"mutual fund", "etf", "exchange-traded fund", "late trading",
    "market timing"}),
  << On(AnyOf({"mutual fund"}), <<"mutual-fund-definition", "mutual-fund-diversification">>),
     On(AnyOf({"late trading"}), <<"late-trading-definition", "late-trading-exam-concern">>),
     On(AnyOf({"market timing"}), <<"market-timing-definition", "stale-prices-market-timing">>),
     On(AllOf({"late trading", "market timing"}), <<"mutual-fund-trading-abuses",
        "late-trading-vs-market-timing">>),
     On(AnyOf({"etf", "exchange-traded fund"}), <<"etf-vs-mutual-fund">>),
     On(AnyOf({"nav", "net asset value"}), <<"mutual-fund-nav">>) >>)

\* Option types.
OptionTypes == Family(Both(AllOf({"option"}), AnyOf({"call", "put", "american", "european",
    "buyer", "seller", "right", "obligation", "payoff", "exercise"})),
  << On(AnyOf({"option buyer"}) \cup AllOf({"right", "option"}), <<"option-buyer-right">>),
     On(AnyOf({"option seller", "option writer", "obligation"}),
        <<"option-seller-obligation">>),
     On(AnyOf({"call option", "call"}), <<"call-option-definition">>),
     On(AnyOf({"put option", "put"}), <<"put-option-definition">>),
     On(AllOf({"american", "european"}), <<"american-vs-european-options">>),
     On(AnyOf({"asymmetric", "payoff"}), <<"option-asymmetric-payoff">>),
     On(AnyOf({"in the money"}), <<"option-in-the-money">>) >>)

\* Option pricing factors.
OptionPricingFactors == Family(Both(Both(AllOf({"option"}), AnyOf({"option pricing factor",
    "factors influence the value of an option", "six factors influence the value of an option",
    "value of an option", "option value"})), AnyOf({"strike price", "time to expiration",
    "volatility", "risk-free rate", "dividends", "six factors"})),
  << On(Always, <<"option-pricing-six-factors">>),
     On(AnyOf({"stock price", "underlying"}), <<"underlying-price-call-put-effect">>),
     On(AnyOf({"strike price"}), <<"strike-price-call-put-effect">>),
     On(AnyOf({"time to expiration"}), <<"time-to-expiration-option-value">>),
     On(AnyOf({"volatility"}), <<"volatility-option-value", "volatility-pricing-factor">>),
     On(AnyOf({"risk-free rate"}), <<"risk-free-rate-option-value">>),
     On(AnyOf({"dividend"}), <<"dividends-option-value">>) >>)

\* Options markets.
OptionsMarkets == Family(Both(AnyOf({"option", "options"}), AnyOf({"margin", "uncovered call",
    "covered call", "options clearing corporation", "occ"})),
  << On(AllOf({"nine months or fewer", "cannot be purchased on margin"}),
        <<"options-short-maturity-margin-rule">>),
     On(AllOf({"longer maturities", "25%"}), <<"options-long-maturity-borrowing-limit">>),
     On(AllOf({"writing options", "margin account"}), <<"option-writers-margin-account">>),
     On(AnyOf({"uncovered call", "uncovered calls"}), <<"uncovered-call-definition">>),
     On(AllOf({"covered call", "uncovered call"}), <<"covered-vs-uncovered-call">>),
     On(AnyOf({"options clearing corporation", "occ"}), <<"occ-guarantee",
        "occ-records-positions">>),
     On(Both(AllOf({"exchange-traded options"}), AnyOf({"otc options", "default risk"})),
        <<"exchange-traded-vs-otc-default-risk">>) >>)

\* Interest rate swaps.
InterestRateSwaps == Family(AnyOf({"interest rate swap"}) \cup AllOf({"plain vanilla", "swap"}),
  << On(Always, <<"plain-vanilla-interest-rate-swap">>),
     On(AnyOf({"net payment", "exchange only"}), <<"interest-rate-swap-net-payment">>),
     On(AnyOf({"notional principal"}), <<"interest-rate-swap-notional">>),
     On(AnyOf({"fixed rate"}), <<"fixed-rate-payer">>),
     On(AnyOf({"floating rate"}), <<"floating-rate-payer">>),
     On(AnyOf({"sofr"}), <<"swap-floating-benchmark">>),
     On(AnyOf({"liabilities", "transform"}), <<"swap-transforms-liability">>),
     On(AnyOf({"dealer", "intermediaries"}), <<"swap-dealer-role">>),
     On(AnyOf({"isda", "master agreement"}), <<"isda-master-agreement">>),
     On(AnyOf({"comparative advantage"}), <<"swap-comparative-advantage">>) >>)

\* Ccp risks.
CcpRisks == Family(AnyOf({"central counterparty", "ccp"}) \cup AllOf({"clearing member",
    "default"}),
  << On(Always, <<"ccp-definition", "ccp-risk-list", "ccp-default-fund",
        "clearing-member-default-risk", "ccp-default-correlation", "ccp-liquidity-risk",
        "ccp-model-risk", "ccp-legal-risk", "ccp-investment-risk", "ccp-nonmember-exposure">>)
        >>)

\* Futures characteristics.
FuturesCharacteristics == Family(Both(AllOf({"futures contract"}), AnyOf({"long futures",
    "short futures", "spot price", "open interest"})),
  << On(Always, <<"futures-contract-definition", "long-futures-position",
        "short-futures-position", "spot-price-definition", "futures-price-definition",
        "futures-basis-definition", "basis-convergence", "open-interest-definition",
        "delivery-in-futures", "futures-closeout">>) >>)

\* Commodities.
Commodities == Family(Both(AllOf({"commodity"}), AnyOf({"storage", "convenience yield",
    "lease rate", "carry market", "electricity"})),
  << On(Always, <<"commodity-vs-financial-futures", "commodity-storage-costs",
        "commodity-transport-costs", "commodity-shorting-costs", "commodity-lease-rate",
        "commodity-convenience-yield", "commodity-carry-market", "agricultural-seasonality",
        "electricity-storage", "weather-commodity-risk">>) >>)

\* Day counts.
DayCounts == Family(AnyOf({"day count", "actual/actual", "30/360"}) \cup AllOf({"clean price",
    "dirty price"}),
  << On(Always, <<"day-count-use", "treasury-day-count", "corporate-day-count",
        "money-market-day-count", "accrued-interest-definition", "clean-price-definition",
        "dirty-price-definition", "dirty-vs-clean-price", "day-count-pricing-effect",
        "discount-rate-basis">>) >>)

\* Duration hedging.
DurationHedging == Family(Both(AllOf({"duration"}), AnyOf({"hedge", "hedging"})),
  << On(Always, <<"duration-based-hedge-definition", "duration-hedge-goal",
        "duration-hedge-ratio-inputs", "duration-hedge-futures-direction",
        "duration-hedge-large-yield-change", "duration-hedge-nonparallel-shift",
        "duration-hedge-convexity", "duration-hedge-combined-duration",
        "duration-hedge-limitation", "duration-hedge-futures-contract">>) >>)

\* Treasury bond futures.
TreasuryBondFutures == Family(AnyOf({"treasury bond futures"}) \cup AllOf({"treasury",
    "futures contract"}),
  << On(Always, <<"treasury-bond-futures-contract">>),
     On(Both(AllOf({"short position"}), AnyOf({"deliver", "eligible"})),
        <<"treasury-futures-short-delivery">>),
     On(Both(AllOf({"long position"}), AnyOf({"futures price", "accrued interest"})),
        <<"treasury-futures-long-payment">>),
     On(AnyOf({"delivery options"}) \cup AllOf({"quality", "timing", "wild card"}),
        <<"treasury-futures-delivery-options">>),
     On(AnyOf({"conversion factor"}), <<"treasury-futures-conversion-factor",
        "treasury-futures-conversion-factor-purpose">>),
     On(AnyOf({"10-year treasury notes", "nearest three months"}),
        <<"treasury-futures-ten-year-rounding">>),
     On(AnyOf({"2-year", "5-year treasury notes", "nearest month"}),
        <<"treasury-futures-shorter-note-rounding">>),
     On(AnyOf({"6% annual yield", "compounded semiannually"}),
        <<"treasury-futures-conversion-factor-yield-assumption">>),
     On(AnyOf({"cheapest-to-deliver"}), <<"treasury-futures-cheapest-to-deliver">>),
     On(AllOf({"quoted bond price", "conversion factor"}), <<"treasury-futures-ctd-cost">>),
     On(AllOf({"yield curve", "upward sloping"}),
        <<"treasury-futures-upward-yield-curve-ctd">>),
     On(AllOf({"yield curve", "downward sloping"}),
        <<"treasury-futures-downward-yield-curve-ctd">>),
     On(AllOf({"basis", "futures price"}), <<"treasury-futures-basis">>),
     On(AllOf({"cash price", "accrued interest"}), <<"treasury-futures-cash-price">>),
     On(AllOf({"cash futures price", "accrued interest"}),
        <<"treasury-futures-quoted-futures-price">>),
     On(AllOf({"theoretical price", "conversion factor"}),
        <<"treasury-futures-theoretical-price">>),
     On(AnyOf({"interest rate risk", "hedge"}), <<"treasury-futures-hedged-risk">>),
     On(AnyOf({"delivery choices", "contract assumptions"}),
        <<"treasury-futures-delivery-choices">>),
     On(AnyOf({"eligible", "eligibility"}), <<"treasury-futures-eligibility-rule">>) >>)

\* Insurance and pensions.
InsuranceAndPensions == Family(Both(AnyOf({"insurance", "premium", "premiums", "coverage",
    "pension", "policyholders"}), AnyOf({"insurance companies", "pension plans",
    "policyholders", "life insurance", "property and casualty insurance", "health insurance",
    "retirement obligations", "heading: insurance companies", "heading: pension plans",
    "heading: policyholders", "heading: life insurance",
    "heading: property and casualty insurance", "heading: health insurance"})),
  << On(Both(AllOf({"coverage"}), AnyOf({"premium", "premiums"})),
        <<"insurance-coverage-definition", "insurance-premiums-use">>),
     On(AllOf({"diversification", "not perfectly correlated"}), <<"insurance-diversification",
        "insurance-diversification-effective">>),
     On(AllOf({"life insurance", "property and casualty insurance", "health insurance"}),
        <<"insurance-company-categories">>),
     On(AllOf({"pension plans", "retirement obligations"}), <<"pension-plan-contributions">>),
     On(AllOf({"policyholders", "premiums"}), <<"insurance-risk-pooling">>),
     On(Both(AllOf({"pension plans"}), AnyOf({"insurance companies", "premiums"})),
        <<"pensions-vs-insurance">>) >>)

\* Banking.
Banking == Family(Both(AllOf({"bank"}), AnyOf({"regulatory capital", "economic capital",
    "deposit insurance", "banking book", "trading book", "originate-to-distribute"})),
  << On(AnyOf({"credit risk", "market risk", "liquidity risk", "operational risk",
        "solvency risk"}), <<"bank-main-risks">>),
     On(AnyOf({"regulatory capital"}), <<"regulatory-capital-definition">>),
     On(AnyOf({"economic capital"}), <<"economic-capital-definition">>),
     On(AllOf({"economic capital", "regulatory capital"}),
        <<"economic-vs-regulatory-capital">>),
     On(AnyOf({"deposit insurance"}), <<"deposit-insurance-definition",
        "deposit-insurance-moral-hazard">>),
     On(AllOf({"banking book", "trading book"}), <<"banking-book-vs-trading-book">>),
     On(AnyOf({"originate-to-distribute"}), <<"originate-to-distribute-definition">>),
     On(AnyOf({"unexpected losses", "unexpected loss"}), <<"bank-capital-unexpected-losses">>),
     On(AnyOf({"solvency risk"}), <<"bank-solvency-risk">>),
     On(AnyOf({"securitizes", "securitization"}), <<"bank-securitization-transfer">>) >>)

\* Foreign exchange.
ForeignExchange == Family(Both(AnyOf({"fx quote", "foreign exchange"}), AnyOf({"base currency",
    "quote currency", "bid price"})),
  << On(AnyOf({"base currency"}), <<"fx-base-currency">>),
     On(AnyOf({"quote currency"}), <<"fx-quote-currency">>),
     On(AllOf({"bid price", "ask price"}), <<"fx-bid-vs-ask", "fx-bid-ask-spread",
        "fx-bid-below-ask">>),
     On(AnyOf({"spot transaction"}), <<"fx-spot-transaction">>),
     On(AnyOf({"outright forward"}), <<"fx-outright-forward">>),
     On(AllOf({"fx swap", "outright forward"}), <<"fx-swap-vs-forward">>),
     On(AnyOf({"transaction risk"}), <<"fx-transaction-risk">>),
     On(AnyOf({"translation risk"}), <<"fx-translation-risk">>),
     On(AnyOf({"economic risk"}), <<"fx-economic-risk">>) >>)

\* Exchange rate parity.
ExchangeRateParity == Family(AnyOf({"purchasing power parity", "covered interest rate parity",
    "uncovered interest rate parity"}),
  << On(AnyOf({"purchasing power parity"}), <<"ppp-statement">>),
     On(AnyOf({"currency appreciation"}), <<"currency-appreciation">>),
     On(AllOf({"currency", "depreciation"}), <<"currency-depreciation">>),
     On(AllOf({"nominal interest", "real interest"}), <<"nominal-real-inflation">>),
     On(AnyOf({"covered interest rate parity"}), <<"covered-interest-rate-parity">>),
     On(AllOf({"covered interest rate parity", "uncovered interest rate parity"}),
        <<"covered-vs-uncovered-interest-parity", "interest-parity-exam-trap">>),
     On(AnyOf({"uncovered interest rate parity"}), <<"uncovered-interest-rate-parity">>),
     On(AnyOf({"relative price levels", "inflation"}), <<"ppp-exchange-rate-driver">>),
     On(AllOf({"forward", "exchange-rate risk"}), <<"covered-parity-hedging">>) >>)

\* Mortgage loans.
MortgageLoans == FamilyUnless(AllOf({"mortgage"}), {"mortgage-backed"},
  << On(AnyOf({"fixed-rate mortgage"}), <<"fixed-rate-mortgage">>),
     On(AnyOf({"adjustable-rate mortgage"}), <<"adjustable-rate-mortgage">>),
     On(AnyOf({"amortization", "amortize"}), <<"mortgage-amortization">>),
     On(AnyOf({"prepay"}), <<"mortgage-prepayment-option">>) >>)

\* Mortgage backed securities.
MortgageBackedSecurities == Family(AnyOf({"mortgage-backed", "mbs"}),
  << On(Always, <<"mbs-definition">>),
     On(AllOf({"principal", "interest"}), <<"mbs-pass-through-cash-flows">>),
     On(AnyOf({"weighted average coupon", "wac", "weighted average maturity", "wam"}),
        <<"mbs-wac-wam">>),
     On(AnyOf({"prepayment risk", "prepayment"}), <<"mbs-prepayment-risk",
        "mbs-prepayment-effect">>),
     On(AnyOf({"single monthly mortality", "smm"}), <<"mbs-smm">>),
     On(AnyOf({"conditional prepayment rate", "cpr"}), <<"mbs-cpr">>),
     On(AnyOf({"collateralized mortgage obligation", "cmo"}), <<"cmo-definition",
        "cmo-cash-flow-exposure">>),
     On(AnyOf({"tranche", "tranches"}), <<"mbs-tranche-purpose">>) >>)

\* Prepayment modeling.
PrepaymentModeling == Family(Both(AllOf({"prepayment"}), AnyOf({"oas", "option-adjusted",
    "monte carlo"})),
  << On(AnyOf({"option-adjusted", "oas"}), <<"oas-definition">>),
     On(AnyOf({"monte carlo"}), <<"mbs-monte-carlo">>),
     On(AnyOf({"refinancing"}), <<"refinancing-incentive">>) >>)

\* Swap valuation.
SwapValuation == Family(Both(AllOf({"swap"}), AnyOf({"valuation", "fixed-rate bond",
    "floating-rate bond", "forward rate agreement", "discount curve", "fair swap rate"})),
  << On(Always, <<"swap-valuation-methods", "swap-bond-position", "swap-fra-sequence">>),
     On(AnyOf({"net cash", "cash flows"}), <<"swap-net-cash-flows">>),
     On(AnyOf({"discount curve"}), <<"swap-discount-curve">>),
     On(AnyOf({"zero at initiation", "fair swap rate"}), <<"swap-value-at-initiation",
        "swap-fair-rate">>),
     On(AnyOf({"rates move", "changes as rates"}), <<"swap-value-after-rates-move">>),
     On(AnyOf({"fixed-rate bond"}), <<"swap-fixed-rate-bond-leg">>),
     On(AnyOf({"floating-rate bond"}), <<"swap-floating-rate-bond-leg">>),
     On(Always, <<"swap-valuation-exam-trap">>) >>)

\* Interest rate curves.
InterestRateCurves == Family(AnyOf({"spot rate", "spot rates", "forward rate", "forward rates",
    "forward rate agreement", "discount factor", "discount factors", "yield to maturity",
    "zero-coupon bond"}),
  << On(Always, <<"spot-rate-definition", "forward-rate-definition", "spot-vs-forward-rate",
        "fra-locked-rate", "discount-factor-definition", "yield-to-maturity-definition",
        "infer-forward-from-spot", "discount-factors-bond-valuation",
        "forward-rate-interpretation", "forward-rate-exam-trap">>) >>)

\* Duration and convexity.
DurationAndConvexity == Family(AnyOf({"duration", "modified duration", "effective duration",
    "convexity", "price-yield"}),
  << On(Always, <<"duration-measure", "modified-duration-approximation",
        "effective-vs-modified-duration", "convexity-definition", "convexity-improves-duration",
        "price-yield-curvature", "yield-rise-price-effect", "convexity-large-yield-changes",
        "duration-exam-trap", "when-effective-duration">>) >>)

\* Credit and bonds.
CreditAndBonds == Family(AnyOf({"credit risk", "default risk", "credit spread", "event risk",
    "rating migration", "recovery rate", "high-yield", "investment-grade"}),
  << On(AnyOf({"specified in the indenture"}), <<"default-risk-missed-indenture-payments",
        "default-risk-indenture-obligation">>),
     On(AnyOf({"corresponding treasury rate"}), <<"spread-risk-market-change",
        "spread-risk-treasury-benchmark">>),
     On(Always, <<"corporate-bond-credit-risk", "bond-default-risk",
        "credit-spread-compensation", "event-risk-definition", "rating-migration-risk",
        "recovery-rate-definition", "high-yield-vs-investment-grade", "spread-widening",
        "credit-risk-exam-trap", "loss-severity-credit-risk">>) >>)

\* Option margins.
OptionMargins == Family(AnyOf({"margin requirement", "purchased on margin", "margin account",
    "option writers", "uncovered call", "covered call"}),
  << On(AnyOf({"margin requirement", "margin account"}), <<"option-margin-requirements",
        "option-writer-margin-account", "option-writer-margin-risk">>),
     On(AnyOf({"maturities of nine months", "purchased on margin"}),
        <<"short-maturity-options-no-margin">>),
     On(AnyOf({"uncovered call"}), <<"uncovered-call-margin-definition">>),
     On(AnyOf({"covered call"}), <<"covered-call-margin-definition">>),
     On(AllOf({"covered call", "uncovered call"}), <<"covered-vs-uncovered-call-margin",
        "covered-call-lower-margin">>) >>)

\* Option strategies.
OptionStrategies == Family(AnyOf({"protective put", "covered call", "bull spread",
    "bear spread", "box spread", "straddle", "strangle", "butterfly spread",
    "option strategy"}),
  << On(Always, <<"protective-put-definition", "covered-call-definition",
        "protective-put-vs-covered-call", "bull-spread-definition", "bear-spread-definition",
        "bull-vs-bear-spread", "straddle-definition", "strangle-definition",
        "straddle-vs-strangle", "option-strategy-exam-trap">>) >>)

\* Risk management process.
RiskManagementProcess == Family(AnyOf({"risk management process"}),
  << On(AnyOf({"reduce or eliminate the potential to incur loss", "reduce or eliminate loss"}),
        <<"risk-management-reduce-loss">>),
     On(AnyOf({"risk taking refers to the active acceptance",
        "risk taking accepts incremental risk"}), <<"risk-taking-involves", "risk-taking-gains",
        "risk-taking-accepts">>),
     On(AnyOf({"perceived reward justifies the expected risks"}), <<"risk-process-reward">>),
     On(AnyOf({"four numbered steps"}), <<"risk-process-first-step", "risk-process-second-step",
        "risk-process-impact-step", "risk-process-final-step">>) >>)

\* Learning objective commands.
LearningObjectiveCommands == Family(AnyOf({"lo heading"}),
  << On(AllOf({"multiple testing", "sentence: multiple testing means"}),
        <<"lo-multiple-testing-problem">>),
     On(AllOf({"multiple testing", "sentence: type i error increases"}),
        <<"lo-multiple-testing-type-i-error">>),
     On(Both(AllOf({"explain delta hedging", "sentence: delta hedging creates"}),
        AnyOf({"delta hedging", "option delta"})), <<"lo-delta-hedging">>),
     On(Both(Both(AllOf({"sentence: delta is an option ratio"}), AnyOf({"delta hedging",
        "option delta"})), AnyOf({"interpret option delta", "option delta"})),
        <<"lo-option-delta">>) >>)

\* Probability relationships.
ProbabilityRelationships == Family(Always,
  << On(Both(AllOf({"independent"}), AnyOf({"P(A and B) = P(A)P(B)", "P(A|B) = P(A)"})),
        <<"probability-independence-condition", "probability-conditional-independence">>),
     On(AllOf({"mutually exclusive", "P(A and B) = 0"}),
        <<"probability-mutually-exclusive-condition">>),
     On(Both(AllOf({"independent", "mutually exclusive", "P(A and B) = 0"}),
        AnyOf({"P(A and B) = P(A)P(B)", "P(A|B) = P(A)"})),
        <<"probability-independent-vs-mutually-exclusive">>),
     On(AllOf({"event space", "possible outcomes"}), <<"probability-event-space">>),
     On(AllOf({"random event", "event space"}), <<"probability-random-event">>) >>)

\* Discrete probability.
DiscreteProbability == Family(AnyOf({"discrete probability function",
    "unconditional probability", "collectively exhaustive", "bayes"}),
  << On(AllOf({"discrete probability function"}), <<"family-discrete-probability-function">>),
     On(AnyOf({"discrete probability function", "possible outcome"}),
        <<"family-probability-function-outcomes">>),
     On(AllOf({"conditional probability", "unconditional probability"}),
        <<"family-conditional-vs-unconditional-probability",
        "family-unconditional-probability">>),
     On(AllOf({"collectively exhaustive"}), <<"family-collectively-exhaustive-events">>),
     On(AllOf({"mutually exclusive", "collectively exhaustive"}),
        <<"family-mutually-exclusive-vs-collectively-exhaustive">>),
     On(AnyOf({"bayes"}), <<"family-bayes-rule-update", "family-bayes-rule-relationship",
        "family-bayes-rule-inputs", "family-bayes-rule-exam-trap">>),
     On(AllOf({"mutually exclusive", "collectively exhaustive"}),
        <<"family-mutually-exclusive-collectively-exhaustive-trap">>) >>)

\* Random variables.
RandomVariables == Family(AnyOf({"probability mass function", "pmf",
    "cumulative distribution function", "discrete random variable",
    "continuous random variable", "bernoulli random variable", "expected value",
    "expectations operator"}),
  << On(AllOf({"discrete random variable"}), <<"family-discrete-random-variable">>),
     On(AnyOf({"probability mass function", "pmf"}), <<"family-probability-mass-function">>),
     On(AllOf({"cumulative distribution function"}),
        <<"family-cumulative-distribution-function">>),
     On(Both(AllOf({"cumulative distribution function"}), AnyOf({"probability mass function",
        "pmf"})), <<"family-pmf-vs-cdf">>),
     On(AllOf({"bernoulli random variable"}), <<"family-bernoulli-random-variable",
        "family-bernoulli-random-variable-values">>),
     On(AllOf({"continuous random variable"}), <<"family-continuous-random-variable">>),
     On(AllOf({"discrete random variable", "continuous random variable"}),
        <<"family-discrete-vs-continuous-random-variable">>),
     On(AllOf({"expected value"}), <<"family-expected-value">>),
     On(AllOf({"expectations operator"}), <<"family-expectations-operator">>),
     On(Both(AllOf({"cumulative distribution function"}), AnyOf({"probability mass function",
        "pmf"})), <<"family-pmf-cdf-exam-trap">>) >>)

\* Multiple regression.
MultipleRegression == Family(AnyOf({"multiple regression", "partial slope coefficient",
    "ordinary least squares", "homoskedasticity", "multicollinearity", "adjusted r-squared",
    "outliers", "explanatory variables"}),
  << On(AllOf({"multiple regression"}), <<"family-multiple-regression",
        "family-multiple-vs-simple-regression">>),
     On(AllOf({"explanatory variables"}), <<"family-explanatory-variable">>),
     On(AllOf({"partial slope coefficient"}), <<"family-partial-slope-coefficient",
        "family-holding-variables-constant">>),
     On(AllOf({"ordinary least squares"}), <<"family-ordinary-least-squares">>),
     On(AllOf({"homoskedasticity"}), <<"family-homoskedasticity">>),
     On(AllOf({"multicollinearity"}), <<"family-multicollinearity">>),
     On(AllOf({"outliers"}), <<"family-outliers-regression">>),
     On(AllOf({"adjusted r-squared"}), <<"family-adjusted-r-squared">>),
     On(AllOf({"partial slope coefficient"}), <<"family-partial-slope-coefficient-trap">>) >>)

\* Principal components.
PrincipalComponents == Family(AnyOf({"principal components analysis", "pca",
    "principal components", "k-means", "cluster center", "inertia", "parallel shift", "twist"}),
  << On(AnyOf({"principal components analysis", "pca"}), <<"family-pca-goal",
        "family-pca-dimensionality">>),
     On(AllOf({"principal components"}), <<"family-principal-components">>),
     On(Both(AllOf({"yield curve"}), AnyOf({"pca", "principal component"})),
        <<"family-yield-curve-pca">>),
     On(AllOf({"parallel shift", "twist"}), <<"family-parallel-shift-vs-twist-pca">>),
     On(AnyOf({"k-means"}), <<"family-k-means-k", "family-k-means-algorithm">>),
     On(AllOf({"cluster center"}), <<"family-cluster-center">>),
     On(AnyOf({"cluster assignment", "cluster assignments"}),
        <<"family-k-means-cluster-updates">>),
     On(AllOf({"inertia"}), <<"family-inertia", "family-k-means-model-fit">>) >>)

\* Distributions.
Distributions == Family(AnyOf({"uniform distribution", "bernoulli trial",
    "binomial distribution", "poisson distribution", "standard normal distribution",
    "cumulative distribution function"}),
  << On(AllOf({"uniform distribution"}), <<"family-uniform-distribution">>),
     On(AllOf({"bernoulli trial"}), <<"family-bernoulli-trial-outcomes">>),
     On(AllOf({"binomial distribution"}), <<"family-binomial-distribution-model">>),
     On(AllOf({"poisson distribution"}), <<"family-poisson-distribution-model">>),
     On(AllOf({"standard normal distribution"}), <<"family-standard-normal-mean-variance">>),
     On(AllOf({"cumulative distribution function"}), <<"family-cdf-gives">>),
     On(AllOf({"bernoulli trial", "binomial distribution"}),
        <<"family-bernoulli-vs-binomial">>),
     On(AllOf({"poisson distribution", "binomial distribution"}),
        <<"family-poisson-vs-binomial">>),
     On(AllOf({"uniform distribution", "standard normal distribution"}),
        <<"family-uniform-vs-standard-normal">>),
     On(AllOf({"poisson distribution"}), <<"family-poisson-application">>) >>)

\* Event probability.
EventProbability == Family(AnyOf({"event space", "random event", "conditional probability",
    "independent", "mutually exclusive"}),
  << On(AllOf({"event space"}), <<"family-event-space">>),
     On(AllOf({"random event"}), <<"family-random-event">>),
     On(AllOf({"conditional probability"}), <<"family-conditional-probability">>),
     On(Both(AllOf({"independent"}), AnyOf({"p(a and b)", "p(a|b)", "p(a)p(b)"})),
        <<"family-independence-condition", "family-conditional-probability-independence">>),
     On(AnyOf({"mutually exclusive"}), <<"family-mutually-exclusive-condition",
        "family-mutually-exclusive-meaning">>),
     On(AllOf({"independent", "mutually exclusive"}),
        <<"family-independent-vs-mutually-exclusive",
        "family-mutual-exclusivity-dependence-trap",
        "family-mutual-exclusivity-positive-probabilities">>),
     On(AllOf({"event space", "random event"}), <<"family-event-space-random-event">>),
     On(AllOf({"conditional probability", "independent"}),
        <<"family-conditional-probability-independent-events",
        "family-conditional-probability-independence-trap">>) >>)

\* Bivariate distributions.
BivariateDistributions == Family(AnyOf({"probability matrix", "marginal distribution",
    "conditional distribution", "covariance", "correlation coefficient",
    "identically distributed"}),
  << On(AllOf({"probability matrix"}), <<"family-probability-matrix">>),
     On(AllOf({"marginal distribution"}), <<"family-marginal-distribution">>),
     On(AllOf({"conditional distribution"}), <<"family-conditional-distribution">>),
     On(AnyOf({"covariance"}), <<"family-covariance-measure">>),
     On(AllOf({"correlation coefficient"}), <<"family-correlation-coefficient",
        "family-correlation-coefficient-range">>),
     On(AllOf({"covariance", "correlation"}), <<"family-covariance-vs-correlation">>),
     On(AnyOf({"independent and identically distributed", "iid"}),
        <<"family-iid-random-variables", "family-iid-sum-expected-value",
        "family-iid-sum-variance", "family-iid-exam-trap">>) >>)

\* Regression and time series.
RegressionAndTimeSeries == Family(AnyOf({"regression analysis", "dependent variable",
    "regression coefficient", "residual", "r-squared", "covariance stationary",
    "autoregressive model", "moving average model", "unit root"}),
  << On(AllOf({"regression analysis"}), <<"family-regression-analysis">>),
     On(AllOf({"dependent variable", "independent variables"}),
        <<"family-dependent-vs-independent-variable", "family-regression-variable-purpose">>),
     On(AnyOf({"linear regression conditions"}) \cup AllOf({"relationship between y and x",
        "error term", "observable"}), <<"family-linear-regression-conditions">>),
     On(AnyOf({"linear function of the regression coefficients",
        "linear function of regression coefficients", "linear function of the coefficients",
        "linear in the coefficients", "linear in coefficients"}),
        <<"family-linear-in-coefficients">>),
     On(AnyOf({"relationship between y and x should be linear",
        "relationship between y and x is linear"}), <<"family-linear-y-x-relationship">>),
     On(AnyOf({"transforming an independent variable", "transformation",
        "transformed value of the independent variable"}),
        <<"family-regression-transformation">>),
     On(AllOf({"nonlinear relationship", "transformed value"}),
        <<"family-regression-transformed-value">>),
     On(AnyOf({"error term should be additive", "error term is additive",
        "error term must be additive"}), <<"family-additive-error-term">>),
     On(AnyOf({"all x variables should be observable", "all x variables are observable"}),
        <<"family-observable-x-variables">>),
     On(Both(AllOf({"unknown parameter"}), AnyOf({"multiplicatively", "exponent"})),
        <<"family-unknown-parameter-nonlinear">>),
     On(AllOf({"regression coefficient"}), <<"family-regression-coefficient">>),
     On(AnyOf({"residual"}), <<"family-regression-residual">>),
     On(AnyOf({"r-squared"}), <<"family-r-squared">>),
     On(AnyOf({"covariance stationary"}), <<"family-covariance-stationarity-conditions">>),
     On(AnyOf({"autocorrelation"}), <<"family-autocorrelation">>),
     On(AllOf({"autoregressive model", "moving average model"}), <<"family-ar-vs-ma-model">>),
     On(AnyOf({"unit root"}), <<"family-unit-root">>),
     On(AnyOf({"seasonality"}), <<"family-seasonality">>),
     On(AllOf({"unit root", "covariance stationary"}), <<"family-unit-root-stationarity-trap">>)
        >>)

\* Coherent risk measures.
CoherentRiskMeasures == Family(AnyOf({"coherent risk measure", "expected shortfall",
    "subadditivity", "operational loss", "loss frequency", "loss severity",
    "monte carlo simulation"}),
  << On(AllOf({"coherent risk measure"}), <<"family-coherent-risk-measure-properties">>),
     On(AllOf({"expected shortfall"}), <<"family-expected-shortfall",
        "family-expected-shortfall-vs-var">>),
     On(AnyOf({"var is not coherent"}) \cup AllOf({"var", "subadditivity"}),
        <<"family-var-not-coherent">>),
     On(AnyOf({"subadditivity"}), <<"family-subadditivity">>),
     On(AllOf({"loss frequency", "loss severity"}), <<"family-loss-frequency-vs-severity">>),
     On(AllOf({"loss frequency", "poisson distribution"}), <<"family-loss-frequency-poisson">>),
     On(AllOf({"loss severity", "lognormal distribution"}),
        <<"family-loss-severity-lognormal">>),
     On(AllOf({"monte carlo simulation"}), <<"family-monte-carlo-operational-loss">>),
     On(AllOf({"operational loss", "loss frequency", "loss severity"}),
        <<"family-operational-loss-modeling-inputs">>),
     On(AllOf({"coherent risk measure", "expected shortfall"}),
        <<"family-expected-shortfall-coherence">>),
     On(AllOf({"operational loss"}), <<"family-operational-loss-modeling">>),
     On(AllOf({"loss frequency"}), <<"family-loss-frequency">>),
     On(AllOf({"loss severity"}), <<"family-loss-severity">>),
     On(AllOf({"loss frequency", "loss severity"}),
        <<"family-frequency-severity-separate-modeling",
        "family-operational-loss-frequency-severity-trap">>),
     On(AllOf({"operational loss", "monte carlo simulation"}),
        <<"family-operational-loss-distribution">>) >>)

\* Historical var.
HistoricalVar == Family(AnyOf({"historical-based var", "parametric approach",
    "nonparametric approach", "historical simulation", "implied volatility",
    "filtered historical simulation"}),
  << On(AllOf({"historical-based var", "parametric", "nonparametric"}),
        <<"family-historical-var-subcategories">>),
     On(AllOf({"parametric approach"}), <<"family-parametric-var-assumption">>),
     On(AllOf({"nonparametric approach"}), <<"family-nonparametric-var-less-restrictive">>),
     On(AllOf({"historical simulation"}), <<"family-historical-simulation-estimate-var">>),
     On(AllOf({"implied volatility"}), <<"family-implied-volatility-option-prices">>),
     On(AllOf({"filtered historical simulation"}),
        <<"family-filtered-historical-simulation-combines">>),
     On(AllOf({"parametric approach", "nonparametric approach"}),
        <<"family-parametric-vs-nonparametric-var">>),
     On(AllOf({"historical simulation", "implied volatility"}),
        <<"family-historical-simulation-vs-implied-volatility">>),
     On(AllOf({"parametric approach", "nonparametric approach"}),
        <<"family-var-method-exam-trap">>),
     On(AllOf({"filtered historical simulation"}),
        <<"family-filtered-historical-simulation-volatility-scaling">>) >>)

\* Yield curve shapes.
YieldCurveShapes == Family(AnyOf({"normal yield curve", "flat yield curve",
    "inverted yield curve", "positive butterfly", "negative butterfly", "twist"}),
  << On(AllOf({"normal yield curve"}), <<"family-normal-yield-curve">>),
     On(AllOf({"flat yield curve"}), <<"family-flat-yield-curve",
        "family-flat-yield-curve-identification">>),
     On(AllOf({"inverted yield curve"}), <<"family-inverted-yield-curve">>),
     On(AllOf({"positive butterfly"}), <<"family-positive-butterfly-yield-curve">>),
     On(AllOf({"negative butterfly"}), <<"family-negative-butterfly-yield-curve">>),
     On(AllOf({"twist"}), <<"family-yield-curve-twist">>),
     On(AllOf({"normal yield curve", "inverted yield curve"}),
        <<"family-normal-vs-inverted-yield-curve">>),
     On(AllOf({"positive butterfly", "negative butterfly"}),
        <<"family-positive-vs-negative-butterfly", "family-butterfly-curvature-change">>),
     On(AllOf({"twist"}), <<"family-yield-curve-twist-feature">>),
     On(AllOf({"positive butterfly", "negative butterfly"}),
        <<"family-yield-curve-butterfly-trap">>) >>)

\* Hypothesis tests.
HypothesisTests == Family(AnyOf({"multiple testing", "hypothesis test", "null hypothesis",
    "alternative hypothesis", "test statistic", "p-value", "type i error", "type ii error"}),
  << On(AllOf({"multiple testing"}), <<"family-multiple-testing-definition">>),
     On(AllOf({"type i error", "increases"}), <<"family-multiple-testing-type-i-error">>),
     On(AllOf({"null", "alternative hypotheses"}), <<"family-null-alternative-hypotheses">>),
     On(AllOf({"test statistic"}), <<"family-test-statistic-role">>),
     On(AnyOf({"p-value"}), <<"family-p-value-role">>),
     On(AnyOf({"significance level"}), <<"family-significance-level-role">>) >>)

\* Black scholes merton.
BlackScholesMerton == Family(AnyOf({"black-scholes-merton", "black-scholes",
    "lognormally distributed", "realized return", "historical volatility", "option delta",
    "delta hedging", "delta-neutral"}),
  << On(AnyOf({"black-scholes-merton", "black-scholes"}), <<"family-bsm-stock-prices",
        "family-bsm-stock-price-return-trap">>),
     On(AllOf({"lognormally distributed", "normally distributed"}),
        <<"family-lognormal-prices-vs-normal-returns">>),
     On(AllOf({"natural logarithm", "normally distributed"}),
        <<"family-log-stock-price-distribution">>),
     On(AllOf({"realized return", "normally distributed"}),
        <<"family-realized-return-distribution", "family-realized-return">>),
     On(AnyOf({"historical volatility"}), <<"family-historical-volatility-estimation",
        "family-historical-volatility">>),
     On(AllOf({"historical volatility", "annualized"}),
        <<"family-historical-volatility-annualized", "family-annualized-volatility",
        "family-historical-volatility-annualization-reason">>),
     On(AllOf({"ex-dividend", "volatility"}), <<"family-ex-dividend-volatility-adjustment">>),
     On(AnyOf({"option delta", "delta of an option"}), <<"family-option-delta-definition",
        "family-option-delta-measures">>),
     On(AnyOf({"delta hedging"}), <<"family-delta-hedging-definition",
        "family-delta-hedging-combination">>),
     On(AnyOf({"delta-neutral"}), <<"family-delta-neutral-portfolio">>),
     On(AnyOf({"must be rebalanced", "rebalanced as the option delta changes"}),
        <<"family-delta-neutral-rebalance">>) >>)

\* Module anchors.
ModuleAnchors == Family(Always,
  << On(AllOf({"mutually exclusive", "independent event"}),
        <<"top-up-independent-vs-mutually-exclusive">>),
     On(AllOf({"type i error", "type ii error"}), <<"top-up-type-i-error-definition",
        "top-up-type-ii-error-definition", "top-up-type-i-vs-type-ii-error">>) >>)

\* Regression anchors.
RegressionAnchors == Family(Always,
  << On(AllOf({"multiple regression", "independent variables", "dependent variable"}),
        <<"lo-anchor-multiple-regression-purpose",
        "lo-anchor-multiple-regression-dependent-variable",
        "lo-anchor-multiple-regression-independent-variables">>),
     On(AnyOf({"coefficient of determination"}),
        <<"lo-anchor-coefficient-determination-importance">>),
     On(AnyOf({"adjusted r-squared"}), <<"lo-anchor-adjusted-r-squared-model-selection">>),
     On(AnyOf({"dummy variable"}), <<"lo-anchor-dummy-variable-represent",
        "lo-anchor-dummy-variable-binary", "lo-anchor-dummy-variable-category">>),
     On(AllOf({"interaction term", "independent variable"}),
        <<"lo-anchor-interaction-term-independent-variables",
        "lo-anchor-interaction-term-purpose">>),
     On(AllOf({"multicollinearity", "highly correlated"}),
        <<"lo-anchor-multicollinearity-relationship",
        "lo-anchor-multicollinearity-independent-variables">>),
     On(Both(AllOf({"regression assumptions"}), AnyOf({"linearity", "homoscedasticity",
        "independent errors", "normally distributed errors"})),
        <<"lo-anchor-regression-assumptions-list">>),
     On(AllOf({"homoscedasticity", "variance of the errors is not constant"}),
        <<"lo-anchor-homoscedasticity-constant-variance">>),
     On(AllOf({"heteroskedasticity", "variance of the errors is not constant"}),
        <<"lo-anchor-heteroskedasticity-meaning", "lo-anchor-heteroskedasticity-exam-trap">>),
     On(AllOf({"serial correlation", "correlated across observations"}),
        <<"lo-anchor-serial-correlation-meaning">>),
     On(AllOf({"serial correlation", "correlated across observations", "independent errors"}),
        <<"lo-anchor-independent-errors-vs-serial-correlation">>) >>)

\* Expected loss anchors.
ExpectedLossAnchors == Family(Always,
  << On(AllOf({"expected loss", "probability of default", "exposure at default",
        "loss given default"}), <<"lo-anchor-expected-loss-formula",
        "lo-anchor-expected-loss-average-credit-loss", "lo-anchor-expected-loss-pd-input",
        "lo-anchor-expected-loss-ead-input", "lo-anchor-expected-loss-lgd-input",
        "lo-anchor-expected-loss-three-inputs-trap">>),
     On(Both(AllOf({"unexpected loss", "expected loss"}),
        AnyOf({"actual losses can exceed expected losses", "losses can exceed expected losses",
        "above expected"})), <<"lo-anchor-unexpected-vs-expected-loss",
        "lo-anchor-unexpected-loss-exam-trap", "lo-anchor-unexpected-loss-exceeds-what">>) >>)

\* Insurance anchors.
InsuranceAnchors == Family(Always,
  << On(AllOf({"insurance companies", "pool risks"}),
        <<"balanced-lo-insurance-companies-pool-risks">>),
     On(AllOf({"insurance companies", "collect premiums"}),
        <<"balanced-lo-insurance-companies-collect-premiums">>),
     On(AllOf({"life insurance companies", "provide"}),
        <<"balanced-lo-life-insurance-companies-provide">>),
     On(AllOf({"property and casualty insurers", "cover"}),
        <<"balanced-lo-property-casualty-insurers-cover">>),
     On(AllOf({"health insurers", "cover"}), <<"balanced-lo-health-insurers-cover">>),
     On(AllOf({"reinsurance", "transfers"}), <<"balanced-lo-reinsurance-definition",
        "balanced-lo-reinsurance-risk-transfer">>),
     On(AllOf({"premiums compensate"}), <<"balanced-lo-premiums-compensate-insurers">>),
     On(AllOf({"reserves support"}), <<"balanced-lo-reserves-support-claims">>),
     On(AllOf({"diversification reduces total portfolio risk"}),
        <<"balanced-lo-diversification-risk-reduction">>),
     On(AllOf({"independent policyholder claims", "pooled"}),
        <<"balanced-lo-policyholder-claims-pooling",
        "balanced-lo-policyholder-claims-pooled-across">>),
     On(AllOf({"insurance coverage is"}), <<"balanced-lo-insurance-coverage-definition",
        "balanced-lo-insurance-coverage-protection">>),
     On(AllOf({"premium payments are"}), <<"balanced-lo-premium-payments-definition",
        "balanced-lo-premium-payments-policyholders">>),
     On(AllOf({"benefit payments are"}), <<"balanced-lo-benefit-payments-definition",
        "balanced-lo-covered-events-benefit-payments",
        "balanced-lo-benefit-payments-policyholders">>),
     On(AllOf({"premium payments are", "benefit payments are"}),
        <<"balanced-lo-premium-vs-benefit-payments">>),
     On(AllOf({"pension plans", "promise retirement benefits"}),
        <<"balanced-lo-pension-plans-retirement-benefits">>),
     On(AllOf({"asset-liability risk"}), <<"balanced-lo-pension-asset-liability-risk">>) >>)

------------------------------------------------------------------------------
\* The generators of a provider's book, in the order they are called.
ProviderFamilies == <<
  ValueAtRisk, ModernPortfolio, Capm, CodeOfConduct, TimeSeries, PopulationMoments,
  Compounding, MutualFunds, OptionTypes, OptionPricingFactors, OptionsMarkets,
  InterestRateSwaps, CcpRisks, FuturesCharacteristics, Commodities, DayCounts,
  DurationHedging, TreasuryBondFutures, InsuranceAndPensions, Banking, ForeignExchange,
  ExchangeRateParity, MortgageLoans, MortgageBackedSecurities, PrepaymentModeling,
  SwapValuation, InterestRateCurves, DurationAndConvexity, CreditAndBonds, OptionMargins,
  OptionStrategies >>

\* The blocks of _book_agnostic_family_top_up_flashcards, in order.
AgnosticFamilies == <<
  DiscreteProbability, RandomVariables, MultipleRegression, PrincipalComponents,
  Distributions, EventProbability, BivariateDistributions, RegressionAndTimeSeries,
  CoherentRiskMeasures, HistoricalVar, YieldCurveShapes, HypothesisTests,
  BlackScholesMerton >>
=============================================================================
