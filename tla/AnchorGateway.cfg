SPECIFICATION FairSpec
CONSTANTS
    Clients = {"c1", "c2"}
    Accounts = {"alice"}
    AccountOf <- AllOfAlice
    Asks <- TransferAndInteractive
    Hosts = {"home", "api", "quotes"}
    Domain = "home"
    Tomls <- TwoTomls
    Funded = {"alice"}
    Stalls = {"toml", "quote"}
    MaxFaults = 2
INVARIANTS GatewayTypeOK HostsAdmitted
PROPERTIES ServedInTheEnd WrittenWasSeen LineHeals
