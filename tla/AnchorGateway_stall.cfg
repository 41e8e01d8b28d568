SPECIFICATION FairSpec
CONSTANTS
    Clients = {"c1"}
    Accounts = {"alice"}
    AccountOf <- AllOfAlice
    Asks <- TransferAndInteractive
    Hosts = {"home", "api", "quotes"}
    Domain = "home"
    Tomls <- TwoTomls
    Funded = {"alice"}
    Stalls = {"quote"}
    MaxFaults = 1
PROPERTIES OptionalNeverBlocks
