--------------------------- MODULE MCAddressPool ---------------------------
(* Instances: two sessions of a tenant that may register a wallet and one of *)
(* a tenant without; and two sessions of one tenant that has none.           *)
EXTENDS AddressPool

MCSessions == {"s1", "s2", "s3"}
TwoTenants == [s \in MCSessions |-> IF s = "s3" THEN "tenantB" ELSE "tenantA"]
OneTenant == [s \in {"s1", "s2"} |-> "tenantA"]
OneChain == [s \in Sessions |-> "ethereum"]
MCCoinType == [c \in Chains |-> 60]
OwnWalletFirst == <<"tenant_provided_wallet", "self_custody_wallet">>
DerivedOnly == <<"self_custody_wallet">>
OneHasAWallet == [k \in Tenants \X Chains |-> IF k[1] = "tenantA" THEN {<<"wallet">>} ELSE {}]
NoWallets == [k \in Tenants \X Chains |-> {}]
=============================================================================
